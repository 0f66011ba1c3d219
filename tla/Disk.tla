-------------------------------- MODULE Disk --------------------------------
(***************************************************************************)
(* test_pci: the search for an AHCI controller (kernel/kernel/pci.c) and   *)
(* its driver (kernel/kernel/ahci/ahci.c), with the list of its ports      *)
(* (kernel/utils/arraylist.c) and the interrupt 0x33 it raises by MSI.     *)
(*                                                                         *)
(* The driver runs once, in kernel_main; the controller works beside it.   *)
(* Only the registers and the memory that decide what happens next are     *)
(* kept: the bits of one port, command slot 0 and what its header and its  *)
(* table ask for.  Ports other than port 0 are never taken for disks,      *)
(* because struct HBA_ports is 100 bytes long and not 128.                 *)
(***************************************************************************)
EXTENDS Integers, Sequences

CONSTANTS LastBus,     \* bound: highest bus number
          Devices      \* bound: devices looked for on a bus, 32 in the code

ASSUME DiskAssumption == LastBus \in Nat /\ Devices \in Nat \ {0}

Bus == 0 .. LastBus

VARIABLES
    dsk,         \* how far test_pci has come
    scan,        \* <<bus, device>> of the calls of brute_force, the last on top
    AHCIAddr,    \* whether a controller was found
    msi,         \* message-signalled interrupts enabled
    sata_ports,  \* the number of ports in the list, -1 before there is one
    ghcie,       \* GHC.IE, interrupts of the controller
    pxie,        \* interrupts of the port
    pxis,        \* an interrupt condition of the port
    engine,      \* "on", "stopping" or "off": PxCMD.ST with CR and FR
    pxci,        \* the command slots that were issued
    slot,        \* the slot post_ata_command built and waits for
    header,      \* what the header and table of each of slots 0 and 1 ask for
    memory,      \* what the disk has written to memory
    irq          \* vector 0x33 is pending

diskVars == <<dsk, scan, AHCIAddr, msi, sata_ports, ghcie, pxie, pxis, engine,
              pxci, slot, header, memory, irq>>
portVars == <<ghcie, pxie, pxis, engine, pxci, slot, header, memory, irq>>

DiskInit ==
    /\ dsk = "mcfg"
    /\ scan = <<<<0, 0>>>>
    /\ AHCIAddr = FALSE
    /\ msi = FALSE
    /\ sata_ports = -1
    /\ ghcie = FALSE
    /\ pxie = FALSE
    /\ pxis = FALSE
    /\ engine = "off"
    /\ pxci = {}
    /\ slot = 0
    /\ header = [s \in {0, 1} |-> "empty"]
    /\ memory = {}
    /\ irq = FALSE

\* get_mcfg_entry: a table without entries gives a null pointer.  The firmware
\* has used the controller without the interrupts of a port.
FindConfig ==
    /\ dsk = "mcfg"
    /\ dsk' \in {"scan", "fault"}
    /\ ghcie' \in BOOLEAN
    /\ pxis' \in BOOLEAN
    /\ engine' \in {"on", "off"}
    /\ UNCHANGED <<scan, AHCIAddr, msi, sata_ports, pxie, pxci, slot, header,
                   memory, irq>>

-----------------------------------------------------------------------------
(* brute_force.  A bus whose devices are being looked at and that a device *)
(* leads to again is never left.                                           *)

Top == scan[Len(scan)]
NextDevice == [scan EXCEPT ![Len(scan)] = <<Top[1], Top[2] + 1>>]
BeingScanned(bus) == \E k \in 1 .. Len(scan) : scan[k][1] = bus

\* No device, or one that handle_device leaves alone.
SkipDevice ==
    /\ scan' = NextDevice
    /\ UNCHANGED <<dsk, AHCIAddr>>

\* handle_device: class 1, subclass 6, ProgIF 1.  The last one found stays.
handle_device ==
    /\ scan' = NextDevice
    /\ AHCIAddr' = TRUE
    /\ UNCHANGED dsk

\* HeaderType is not 0: a bridge, whose secondary bus has a higher number, or
\* a device with several functions (bit 7), where any byte is read as one.
EnterBus(bus) ==
    /\ IF BeingScanned(bus)
       THEN dsk' = "overflow" /\ UNCHANGED scan
       ELSE scan' = Append(NextDevice, <<bus, 0>>) /\ UNCHANGED dsk
    /\ UNCHANGED AHCIAddr

LeaveBus ==
    /\ scan' = SubSeq(scan, 1, Len(scan) - 1)
    /\ dsk' = IF Len(scan) = 1 THEN "msi" ELSE "scan"
    /\ UNCHANGED AHCIAddr

brute_force ==
    /\ dsk = "scan"
    /\ IF Top[2] = Devices THEN LeaveBus
       ELSE \/ SkipDevice
            \/ handle_device
            \/ \E bus \in Bus \ {0} : EnterBus(bus)
    /\ UNCHANGED <<msi, sata_ports>>
    /\ UNCHANGED portVars

-----------------------------------------------------------------------------
(* The controller.                                                         *)

RaisesMsi == msi /\ ghcie /\ pxie

\* A command is carried out: header 0 decides what is written to memory.
Complete ==
    /\ pxci # {}
    /\ engine = "on"
    /\ \E s \in pxci :
          /\ pxci' = pxci \ {s}
          /\ memory' = memory \union {header[s]}
    /\ pxis' = TRUE
    /\ irq' = (irq \/ RaisesMsi)
    /\ UNCHANGED <<dsk, scan, AHCIAddr, msi, sata_ports, ghcie, pxie, engine,
                   slot, header>>

EngineStops ==
    /\ engine = "stopping"
    /\ engine' = "off"
    /\ UNCHANGED <<dsk, scan, AHCIAddr, msi, sata_ports, ghcie, pxie, pxis,
                   pxci, slot, header, memory, irq>>

\* Enabling the interrupts of a port with a condition pending raises one.
Unmask(byGhc, byPort) ==
    irq' = (irq \/ (msi /\ pxis /\ byGhc /\ byPort /\ ~(ghcie /\ pxie)))

-----------------------------------------------------------------------------
(* The driver.                                                             *)

Goto(here, there) == dsk = here /\ dsk' = there

\* ahci_action.  Without a controller the null pointer is followed.  A device
\* without capabilities keeps its interrupts off.  The offset of the second
\* capability is added to the first one's address, so that MSI is found when it
\* comes first and not last; otherwise the walk reads other registers and ends
\* with MSI, with nothing (null again) or not at all.
ahci_action ==
    /\ dsk = "msi"
    /\ \/ dsk' \in {"fault", "spin"} /\ UNCHANGED msi
       \/ AHCIAddr /\ dsk' = "list" /\ msi' \in BOOLEAN
    /\ dsk' = "spin" => AHCIAddr
    /\ UNCHANGED <<scan, AHCIAddr, sata_ports>>
    /\ UNCHANGED portVars

BugEnablesPortFirst ==
    /\ Goto("list", "probe")
    /\ sata_ports' = 0
    /\ ghcie' = TRUE
    /\ pxie' = TRUE
    /\ Unmask(TRUE, TRUE)
    /\ UNCHANGED <<scan, AHCIAddr, msi, pxis, engine, pxci, slot, header,
                   memory>>

\* create_array_list, then GHC.AE and GHC.IE.
CreateList ==
    /\ Goto("list", "probe")
    /\ sata_ports' = 0
    /\ ghcie' = TRUE
    /\ Unmask(TRUE, pxie)
    /\ UNCHANGED <<scan, AHCIAddr, msi, pxie, pxis, engine, pxci, slot, header,
                   memory>>

\* What check_device can find in a port's registers.
check_device == {"AHCI_DEV_NULL", "AHCI_DEV_SATA", "AHCI_DEV_SATAPI",
                 "AHCI_DEV_SEMB", "AHCI_DEV_PM"}

\* A list has room for one item at first, and never gets more here.
al_add_item(count) == count + 1

\* The item behind the last one is given out as well; it is all zeroes.
al_get(count, index) ==
    IF index > count THEN "null" ELSE IF index = count THEN "zeroes" ELSE "port"

probe_ports ==
    /\ dsk = "probe"
    /\ \E type \in check_device :
          IF type = "AHCI_DEV_SATA"
          THEN sata_ports' = al_add_item(sata_ports) /\ dsk' = "stop"
          ELSE UNCHANGED sata_ports /\ dsk' = "identify"
    /\ UNCHANGED <<scan, AHCIAddr, msi>>
    /\ UNCHANGED portVars

\* init_ahci_cmd_port: stop_commands waits for the engine.
stop_commands ==
    /\ Goto("stop", "start")
    /\ engine' = IF engine = "on" THEN "stopping" ELSE engine
    /\ UNCHANGED <<scan, AHCIAddr, msi, sata_ports, ghcie, pxie, pxis, pxci,
                   slot, header, memory, irq>>

start_commands ==
    /\ Goto("start", "identify")
    /\ engine = "off"
    /\ engine' = "on"
    /\ header' = [s \in {0, 1} |-> "empty"]
    /\ UNCHANGED <<scan, AHCIAddr, msi, sata_ports, ghcie, pxie, pxis, pxci,
                   slot, memory, irq>>

\* An item of zeroes has its port's registers at address 0.
identify ==
    /\ dsk = "identify"
    /\ IF al_get(sata_ports, 0) # "port"
       THEN dsk' = "fault" /\ UNCHANGED <<pxie, irq, header, pxci>>
       ELSE /\ dsk' = "wait_identify"
            /\ pxie' = TRUE
            /\ Unmask(ghcie, TRUE)
            /\ header' = [header EXCEPT ![0] = "identify"]
            /\ pxci' = pxci \union {0}
    /\ UNCHANGED <<scan, AHCIAddr, msi, sata_ports, ghcie, pxis, engine, slot,
                   memory>>

\* The loop that polls pxci ends, or runs out and panics.
Poll(here, bit, there) ==
    /\ dsk = here
    /\ IF bit \in pxci THEN dsk' = "panic" ELSE dsk' = there
    /\ UNCHANGED <<scan, AHCIAddr, msi, sata_ports>>
    /\ UNCHANGED portVars

\* reset_port leaves a reset command without data in slot 0 and issues nothing.
reset_port ==
    /\ Goto("reset", "post")
    /\ header' = [header EXCEPT ![0] = "reset"]
    /\ UNCHANGED <<scan, AHCIAddr, msi, sata_ports, ghcie, pxie, pxis, engine,
                   pxci, slot, memory, irq>>

BugCountsFromOne(ci) == 1

\* find_cmd_slot: the first slot that is not in use.
find_cmd_slot(ci) == IF 0 \in ci THEN 1 ELSE 0

\* post_ata_command: the command is built in the free slot, the issue bit is
\* always bit 0.
post_ata_command ==
    /\ Goto("post", "wait_read")
    /\ slot' = find_cmd_slot(pxci)
    /\ pxis' = FALSE
    /\ pxie' = TRUE
    /\ header' = [header EXCEPT ![slot'] = "read"]
    /\ pxci' = pxci \union {0}
    /\ UNCHANGED <<scan, AHCIAddr, msi, sata_ports, ghcie, engine, memory, irq>>

Driver ==
    \/ FindConfig
    \/ brute_force
    \/ ahci_action
    \/ CreateList
    \/ probe_ports
    \/ stop_commands
    \/ start_commands
    \/ identify
    \/ Poll("wait_identify", 0, "reset")
    \/ reset_port
    \/ post_ata_command
    \/ Poll("wait_read", slot, "done")

DiskStopped == dsk \in {"fault", "panic", "overflow", "spin", "bad_port"}

\* handle_ahci_interrupt looks at the first port of the list.
handle_ahci_interrupt ==
    /\ irq
    /\ ~DiskStopped
    /\ irq' = FALSE
    /\ dsk' = IF al_get(sata_ports, 0) = "port" THEN dsk ELSE "bad_port"
    /\ UNCHANGED <<scan, AHCIAddr, msi, sata_ports, ghcie, pxie, pxis, engine,
                   pxci, slot, header, memory>>

DiskNext == Driver \/ Complete \/ EngineStops \/ handle_ahci_interrupt

-----------------------------------------------------------------------------
(* Properties.                                                             *)

\* The interrupt handler, which uses the first port without a look at the
\* list, never runs before the list has one, although the interrupts are
\* enabled in four places and a condition may be left over from the firmware.
HandlerHasPort == dsk # "bad_port"

\* When the driver goes on after a command, the disk has carried out that
\* command and no other, although the issue bit is always that of slot 0:
\* the identification and the sector are in memory before they are read.
CommandCarriedOut ==
    /\ dsk \in {"reset", "post", "wait_read", "done"} => "identify" \in memory
    /\ dsk = "done" => "read" \in memory
    /\ memory \subseteq {"identify", "read"}
=============================================================================
