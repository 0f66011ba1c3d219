--------------------------- MODULE StartUpProofs ---------------------------
(***************************************************************************)
(* Proofs about start-up: the timer calibration, the disk driver and the   *)
(* PS/2 controller, for any number of samples, busses and devices; and the *)
(* kernel's memory and its switch to PAE tables, for every size of the     *)
(* heap and of a table.                                                    *)
(***************************************************************************)
EXTENDS StartUp, FiniteSetTheorems, TLAPS

-----------------------------------------------------------------------------
(* The calibration.                                                        *)

\* As long as a PIT interrupt can still come before a one-shot run, all
\* samples so far were short.
CalInv ==
    /\ sample \in Nat
    /\ short \in 0 .. sample
    /\ early \in BOOLEAN
    /\ calibrating \in BOOLEAN
    /\ cal \in {"ioapic", "flag", "arm"} /\ pit # "idle" => short = sample
    /\ cal = "arm" /\ ~calibrating => early
    /\ cal \in {"arm", "spin"} /\ early => short = sample
    /\ cal = "spin" => pit \in {"armed", "idle"}
    /\ cal = "spin" /\ ~early /\ ~calibrating => pit = "idle"
    /\ stage \in {"pae", "screen"} => cal = "done"

\* Every step is one of the calibration, its end or none.
LEMMA CalStep ==
    ASSUME [Next]_vars
    PROVE  \/ CalNext
           \/ /\ stage = "screen"
              /\ cal' = cal /\ sample' = sample /\ calibrating' = calibrating
              /\ pit' = "idle" /\ early' = FALSE /\ short' = 0
           \/ UNCHANGED calVars
BY DEF Next, vars, init_multiboot, Memory, cache_tables, Apic, Pae,
       init_framebuffer, test_pci, Dialogue

LEMMA CalInvInit == Init => CalInv
<1> SUFFICES ASSUME Init PROVE CalInv
    OBVIOUS
<1>1. /\ early \in BOOLEAN /\ ~early
      /\ calibrating \in BOOLEAN
      /\ cal = "ioapic" /\ sample = 0 /\ short = 0
      /\ stage = "multiboot"
    BY Zenon DEF Init, CalInit
<1>2. QED
    BY <1>1 DEF CalInv

\* The phase that switches to PAE begins when the calibration is over.
LEMMA CalOver ==
    ASSUME CalInv, [Next]_vars
    PROVE  stage' \in {"pae", "screen"} => cal' = "done"
<1>1. CASE init_multiboot
    BY <1>1 DEF init_multiboot, init_rsdt_v1
<1>2. CASE Memory
    BY <1>2 DEF Memory, Then
<1>3. CASE cache_tables
    BY <1>3 DEF cache_tables, cache_sdt_by_signature, AfterFault
<1>4. CASE Apic
    BY <1>4 DEF Apic, Then, AfterFault
<1>5. CASE Pae
    BY <1>5 DEF Pae, Then, calVars, CalInv
<1>6. CASE init_framebuffer
    BY <1>6 DEF init_framebuffer, ScreenType, AfterFault
<1>7. CASE test_pci
    BY <1>7 DEF test_pci, AfterFault
<1>8. CASE Dialogue
    BY <1>8 DEF Dialogue, Then
<1>9. CASE UNCHANGED vars
    BY <1>9 DEF vars, calVars, CalInv
<1>10. QED
    BY <1>1, <1>2, <1>3, <1>4, <1>5, <1>6, <1>7, <1>8, <1>9 DEF Next

LEMMA CalInvStep ==
    ASSUME CalInv, [Next]_vars
    PROVE  CalInv'
<1>0. stage' \in {"pae", "screen"} => cal' = "done"
    BY CalOver
<1>1. CASE init_ioapic
    BY <1>0, <1>1 DEF CalInv, init_ioapic
<1>2. CASE SetFlag
    BY <1>0, <1>2 DEF CalInv, SetFlag
<1>3. CASE set_pit_one_shot
    BY <1>0, <1>3 DEF CalInv, set_pit_one_shot
<1>4. CASE end_calibration
    BY <1>0, <1>4 DEF CalInv, end_calibration, AfterTerminalCount
<1>5. CASE ReadSample
    BY <1>0, <1>5 DEF CalInv, ReadSample
<1>6. CASE /\ stage = "screen"
           /\ cal' = cal /\ sample' = sample /\ calibrating' = calibrating
           /\ pit' = "idle" /\ early' = FALSE /\ short' = 0
    <2>1. early' \in BOOLEAN /\ ~early'
        BY <1>6, Zenon
    <2>2. QED
        BY <1>0, <1>6, <2>1 DEF CalInv
<1>7. CASE UNCHANGED calVars
    BY <1>0, <1>7 DEF CalInv, calVars
<1>8. QED
    BY CalStep, <1>1, <1>2, <1>3, <1>4, <1>5, <1>6, <1>7 DEF CalNext

\* A step that counts a short sample has only short ones before it.
LEMMA ShortStep ==
    ASSUME CalInv, [Next]_vars
    PROVE  [short' > short => short = sample]_calVars
<1>1. CASE ReadSample
    BY <1>1 DEF CalInv, ReadSample
<1>2. CASE init_ioapic \/ SetFlag \/ set_pit_one_shot \/ end_calibration
    BY <1>2 DEF CalInv, init_ioapic, SetFlag, set_pit_one_shot, end_calibration
<1>3. CASE short' = 0 \/ UNCHANGED calVars
    BY <1>3 DEF CalInv
<1>4. QED
    BY CalStep, <1>1, <1>2, <1>3 DEF CalNext

\* calibrate_timer: only the first samples of the sum can have been cut short,
\* for every number of samples and whatever the firmware left in the PIT.
THEOREM OnlyFirstSamplesShort == Spec => ShortSamplesFirst
<1>1. Init => CalInv
    BY CalInvInit
<1>2. CalInv /\ [Next]_vars => CalInv'
    BY CalInvStep
<1>3. CalInv /\ [Next]_vars => [short' > short => short = sample]_calVars
    BY ShortStep
<1>4. QED
    BY <1>1, <1>2, <1>3, PTL DEF Spec, ShortSamplesFirst
-----------------------------------------------------------------------------
(* The disk driver.                                                        *)

\* Where the driver can be: everywhere but in the handler without a port.
DiskPlaces == {"mcfg", "scan", "msi", "list", "probe", "stop", "start",
               "identify", "wait_identify", "reset", "post", "wait_read",
               "done", "fault", "spin", "overflow", "panic"}

\* The list has a port, as al_get and the handler see it.
HasPort == al_get(sata_ports, 0) = "port"

\* Before the port was looked for nothing can interrupt, and nothing interrupts
\* before the list has a port.
PortFirst ==
    /\ dsk \in DiskPlaces
    /\ pxie \in BOOLEAN /\ irq \in BOOLEAN
    /\ pxie => HasPort
    /\ irq => HasPort
    /\ dsk \in {"mcfg", "scan", "msi", "list", "probe"} => ~pxie /\ ~irq
    /\ dsk \in {"wait_identify", "reset", "post", "wait_read"} => HasPort

\* Slot 0 is the only one in use and is not in use while a command is built;
\* what it asks for, once issued, is done or still to do.
SlotInv ==
    /\ header \in [{0, 1} -> {"empty", "identify", "reset", "read"}]
    /\ pxci \subseteq {0}
    /\ pxci # {} => /\ dsk \in {"wait_identify", "wait_read", "panic"}
                    /\ header[0] \in {"identify", "read"}
    /\ dsk = "wait_identify" =>
          header[0] = "identify" /\ (pxci = {} => "identify" \in memory)
    /\ dsk = "wait_read" => /\ slot = 0
                            /\ header[0] = "read"
                            /\ pxci = {} => "read" \in memory

DiskInv == PortFirst /\ SlotInv /\ CommandCarriedOut

LEMMA DiskStep ==
    ASSUME [Next]_vars
    PROVE  DiskNext \/ UNCHANGED diskVars
BY DEF Next, vars, init_multiboot, Memory, cache_tables, Apic, Pae,
       init_framebuffer, test_pci, Dialogue

LEMMA DiskInvInit == Init => DiskInv
<1> SUFFICES ASSUME Init PROVE DiskInv
    OBVIOUS
<1>1. /\ pxie \in BOOLEAN /\ ~pxie /\ irq \in BOOLEAN /\ ~irq
      /\ dsk = "mcfg" /\ sata_ports = -1
      /\ pxci = {} /\ memory = {}
      /\ header = [s \in {0, 1} |-> "empty"]
    BY Zenon DEF Init, DiskInit
<1>2. QED
    BY <1>1 DEF DiskInv, PortFirst, SlotInv, CommandCarriedOut, DiskPlaces

\* The interrupts of the port are enabled after the port is in the list.
LEMMA PortFirstStep ==
    ASSUME PortFirst, DiskNext
    PROVE  PortFirst'
<1> USE DEF PortFirst, DiskPlaces
<1>0. sata_ports' = sata_ports => HasPort' = HasPort
    BY DEF HasPort, al_get
<1>1. CASE FindConfig
    BY <1>0, <1>1 DEF FindConfig
<1>2. CASE brute_force
    BY <1>0, <1>2 DEF brute_force, portVars, LeaveBus, SkipDevice,
                      handle_device, EnterBus
<1>3. CASE ahci_action
    BY <1>0, <1>3 DEF ahci_action, portVars
<1>4. CASE CreateList
    BY <1>4 DEF CreateList, Goto, Unmask
<1>5. CASE probe_ports
    BY <1>5 DEF probe_ports, portVars
<1>6. CASE stop_commands \/ start_commands \/ reset_port
    <2>1. CASE stop_commands
        BY <1>0, <2>1 DEF stop_commands, Goto
    <2>2. CASE start_commands
        BY <1>0, <2>2 DEF start_commands, Goto
    <2>3. CASE reset_port
        BY <1>0, <2>3 DEF reset_port, Goto
    <2>4. QED
        BY <1>6, <2>1, <2>2, <2>3
<1>7. CASE identify
    <2>1. CASE HasPort
        <3>1. /\ dsk' = "wait_identify" /\ sata_ports' = sata_ports
              /\ pxie' = TRUE /\ Unmask(ghcie, TRUE)
            BY <1>7, <2>1 DEF identify, HasPort
        <3>2. pxie' \in BOOLEAN /\ irq' \in BOOLEAN
            BY <3>1, Zenon DEF Unmask
        <3>3. QED
            BY <1>0, <2>1, <3>1, <3>2
    <2>2. CASE ~HasPort
        BY <1>0, <1>7, <2>2 DEF identify, HasPort
    <2>3. QED
        BY <2>1, <2>2
<1>8. CASE Poll("wait_identify", 0, "reset") \/ Poll("wait_read", slot, "done")
    BY <1>0, <1>8 DEF Poll, portVars
<1>9. CASE post_ata_command
    BY <1>0, <1>9 DEF post_ata_command, Goto
<1>10. CASE Complete \/ EngineStops
    <2>1. /\ dsk' = dsk /\ sata_ports' = sata_ports /\ pxie' = pxie
          /\ irq' \in BOOLEAN /\ (irq' => irq \/ pxie)
        <3>1. CASE Complete
            BY <3>1, Zenon DEF Complete, RaisesMsi
        <3>2. CASE EngineStops
            BY <3>2 DEF EngineStops
        <3>3. QED
            BY <1>10, <3>1, <3>2
    <2>2. QED
        BY <1>0, <2>1
<1>11. CASE handle_ahci_interrupt
    <2>1. dsk' = dsk /\ sata_ports' = sata_ports /\ pxie' = pxie
        BY <1>11 DEF handle_ahci_interrupt, HasPort
    <2>2. irq' \in BOOLEAN /\ ~irq'
        BY <1>11, Zenon DEF handle_ahci_interrupt
    <2>3. QED
        BY <1>0, <2>1, <2>2
<1>12. QED
    BY <1>1, <1>2, <1>3, <1>4, <1>5, <1>6, <1>7, <1>8, <1>9, <1>10, <1>11
       DEF DiskNext, Driver

\* What is carried out is the command that was built last.
LEMMA SlotStep ==
    ASSUME PortFirst, SlotInv, CommandCarriedOut, PortFirst', DiskNext
    PROVE  SlotInv' /\ CommandCarriedOut'
<1> USE DEF SlotInv, CommandCarriedOut
<1>1. CASE FindConfig
    BY <1>1 DEF FindConfig
<1>2. CASE brute_force
    BY <1>2 DEF brute_force, portVars, LeaveBus, SkipDevice, handle_device,
                EnterBus
<1>3. CASE ahci_action
    BY <1>3 DEF ahci_action, portVars
<1>4. CASE CreateList
    BY <1>4 DEF CreateList, Goto
<1>5. CASE probe_ports
    BY <1>5 DEF probe_ports, portVars
<1>6. CASE stop_commands
    BY <1>6 DEF stop_commands, Goto
<1>7. CASE start_commands
    BY <1>7 DEF start_commands, Goto
<1>8. CASE identify
    BY <1>8 DEF identify
<1>9. CASE Poll("wait_identify", 0, "reset") \/ Poll("wait_read", slot, "done")
    BY <1>9 DEF Poll, portVars
<1>10. CASE reset_port
    BY <1>10 DEF reset_port, Goto
<1>11. CASE post_ata_command
    BY <1>11 DEF post_ata_command, find_cmd_slot, Goto
<1>12. CASE Complete
    BY <1>12 DEF Complete
<1>13. CASE EngineStops
    BY <1>13 DEF EngineStops
<1>14. CASE handle_ahci_interrupt
    BY <1>14 DEF handle_ahci_interrupt, PortFirst, DiskPlaces
<1>15. QED
    BY <1>1, <1>2, <1>3, <1>4, <1>5, <1>6, <1>7, <1>8, <1>9, <1>10, <1>11,
       <1>12, <1>13, <1>14 DEF DiskNext, Driver

LEMMA DiskInvStep ==
    ASSUME DiskInv, [Next]_vars
    PROVE  DiskInv'
<1>1. CASE DiskNext
    BY <1>1, PortFirstStep, SlotStep DEF DiskInv
<1>2. CASE UNCHANGED diskVars
    BY <1>2 DEF diskVars, DiskInv, PortFirst, HasPort, al_get, SlotInv,
                CommandCarriedOut
<1>3. QED
    BY <1>1, <1>2, DiskStep

LEMMA DiskAlways == Spec => []DiskInv
<1>1. Init => DiskInv
    BY DiskInvInit
<1>2. DiskInv /\ [Next]_vars => DiskInv'
    BY DiskInvStep
<1>3. QED
    BY <1>1, <1>2, PTL DEF Spec

\* handle_ahci_interrupt never runs on a list without a port, whatever the
\* devices and whatever interrupt condition the firmware has left.
THEOREM HandlerAlwaysHasPort == Spec => []HandlerHasPort
<1>1. DiskInv => HandlerHasPort
    BY DEF DiskInv, PortFirst, DiskPlaces, HandlerHasPort
<1>2. QED
    BY <1>1, DiskAlways, PTL

\* The driver goes on after identify and post_ata_command only when the disk
\* has carried out the very command they built.
THEOREM CommandsAreCarriedOut == Spec => []CommandCarriedOut
<1>1. DiskInv => CommandCarriedOut
    BY DEF DiskInv
<1>2. QED
    BY <1>1, DiskAlways, PTL
-----------------------------------------------------------------------------
(* The controller of the keyboard.                                         *)

Controllers == [config : Byte, pending : {"none", "config", "aux", "ram"},
                answers : Seq(Byte), keys : Seq(Byte), aux : Seq(Byte),
                last : Byte, arg : BOOLEAN, both : BOOLEAN, mouse : BOOLEAN,
                keeps : BOOLEAN, fifo : BOOLEAN, ram : BOOLEAN,
                slow : BOOLEAN]

\* A read changes neither the configuration nor what the next byte is for.
SameBits(c, d) ==
    d \in Controllers /\ d.config = c.config /\ d.pending = c.pending

LEMMA AnswerKeeps ==
    ASSUME NEW c \in Controllers, NEW bytes \in Seq(Byte)
    PROVE  SameBits(c, Answer(c, bytes))
<1>1. c.answers \in Seq(Byte)
    BY DEF Controllers
<1>2. c.answers \o bytes \in Seq(Byte)
    BY <1>1
<1>3. QED
    BY <1>1, <1>2 DEF Answer, Controllers, SameBits

\* A command keeps the translation bit, only one command turns the keyboard's
\* port off, and only 0x60, 0xD4 and a write to memory want a byte.
LEMMA CmdEffect ==
    ASSUME NEW c \in Controllers, NEW cmd
    PROVE  /\ Cmd(c, cmd) \in Controllers
           /\ 6 \in c.config => 6 \in Cmd(c, cmd).config
           /\ cmd = "20" => Cmd(c, cmd).config = c.config
           /\ cmd = "60" => /\ Cmd(c, cmd).config = c.config
                            /\ Cmd(c, cmd).pending = "config"
           /\ cmd = "D4" => /\ Cmd(c, cmd).config = c.config
                            /\ Cmd(c, cmd).pending = "aux"
           /\ cmd \notin {"60", "D4", "write_ram"} =>
                 Cmd(c, cmd).pending \in {c.pending, "none"}
<1> DEFINE d == [c EXCEPT !.config = Ports(c, cmd), !.pending = Wanted(c, cmd)]
<1>1. c.config \in Byte /\ c.pending \in {"none", "config", "aux", "ram"}
    BY DEF Controllers
<1>2. Ports(c, cmd) \in {c.config, c.config \union {4}, c.config \ {4},
                         c.config \union {5}, c.config \ {5}}
    BY DEF Ports
<1>3. cmd \in {"20", "60", "D4"} => Ports(c, cmd) = c.config
    BY DEF Ports
<1>4. Ports(c, cmd) \in Byte /\ (6 \in c.config => 6 \in Ports(c, cmd))
    BY <1>1, <1>2 DEF Byte
<1>5. /\ Wanted(c, cmd) \in {"none", "config", "aux", "ram"}
      /\ cmd = "60" => Wanted(c, cmd) = "config"
      /\ cmd = "D4" => Wanted(c, cmd) = "aux"
      /\ cmd \notin {"60", "D4", "write_ram"} =>
            Wanted(c, cmd) \in {c.pending, "none"}
    BY <1>1 DEF Wanted
<1>6. Reply(c, cmd) \in Seq(Byte)
    <2>1. {0, 2, 4, 6} \in Byte /\ {} \in Byte
        BY DEF Byte
    <2>2. /\ <<c.config>> \in Seq(Byte) /\ <<{0, 2, 4, 6}>> \in Seq(Byte)
          /\ <<{}>> \in Seq(Byte) /\ <<>> \in Seq(Byte)
        BY <1>1, <2>1
    <2>3. Reply(c, cmd) \in {<<c.config>>, <<{0, 2, 4, 6}>>, <<{}>>, <<>>}
        BY DEF Reply
    <2>4. QED
        BY <2>2, <2>3
<1>7. d \in Controllers /\ d.config = Ports(c, cmd) /\ d.pending = Wanted(c, cmd)
    BY <1>4, <1>5 DEF Controllers
<1>8. Cmd(c, cmd) = Answer(d, Reply(c, cmd))
    BY DEF Cmd
<1>9. SameBits(d, Cmd(c, cmd))
    BY <1>6, <1>7, <1>8, AnswerKeeps
<1> HIDE DEF d
<1>10. /\ Cmd(c, cmd) \in Controllers
       /\ Cmd(c, cmd).config = Ports(c, cmd) /\ Cmd(c, cmd).pending = Wanted(c, cmd)
    BY <1>7, <1>9 DEF SameBits
<1>11. QED
    BY <1>3, <1>4, <1>5, <1>10

\* A byte is for the configuration, for the memory, for the mouse or for the
\* keyboard, and none is wanted after it.
LEMMA DataEffect ==
    ASSUME NEW c \in Controllers, NEW byte \in Byte
    PROVE  /\ Data(c, byte) \in Controllers
           /\ Data(c, byte).pending = "none"
           /\ c.pending = "config" => Data(c, byte).config = byte
           /\ c.pending = "aux" => Data(c, byte).config = c.config \ {5}
           /\ c.pending = "ram" => Data(c, byte).config = c.config
           /\ c.pending = "none" => Data(c, byte).config = c.config \ {4}
<1>1. /\ c.config \in Byte /\ c.keys \in Seq(Byte) /\ c.aux \in Seq(Byte)
      /\ c.pending \in {"none", "config", "aux", "ram"}
    BY DEF Controllers
<1>2. c.config \ {4} \in Byte /\ c.config \ {5} \in Byte
    BY <1>1 DEF Byte
<1>3. ACK \in Byte /\ PASSED \in Byte /\ RESEND \in Byte /\ {} \in Byte
    BY DEF ACK, PASSED, RESEND, Byte
<1>4. CASE c.pending = "config"
    BY <1>4 DEF Data, Controllers
<1>5. CASE c.pending = "aux"
    <2> DEFINE a == IF c.mouse THEN c.aux \o <<ACK, PASSED, {}>>
                    ELSE c.aux
    <2>1. a \in Seq(Byte)
        BY <1>1, <1>3
    <2>2. Data(c, byte) = [c EXCEPT !.config = @ \ {5}, !.pending = "none",
                                    !.aux = a]
        BY <1>5 DEF Data, ToMouse
    <2> HIDE DEF a
    <2>3. QED
        BY <1>2, <1>5, <2>1, <2>2 DEF Controllers
<1>6. CASE c.pending = "none"
    <2> DEFINE k == c.keys \o (CASE byte = FF -> <<ACK, PASSED>>
                                 [] byte = F0 \/ c.arg -> <<ACK>>
                                 [] OTHER -> <<RESEND>>)
    <2>1. k \in Seq(Byte)
        BY <1>1, <1>3
    <2>2. Data(c, byte) = [c EXCEPT !.config = @ \ {4}, !.arg = byte = F0,
                                    !.keys = k]
        BY <1>6 DEF Data, ToKeyboard
    <2> HIDE DEF k
    <2>3. QED
        BY <1>2, <1>6, <2>1, <2>2 DEF Controllers
<1>7. CASE c.pending = "ram"
    BY <1>7 DEF Data, Controllers
<1>8. QED
    BY <1>1, <1>4, <1>5, <1>6, <1>7

LEMMA TakenKeeps ==
    ASSUME NEW c \in Controllers, NEW r \in Taken(c)
    PROVE  SameBits(c, r[1]) /\ r[2] \in Byte
<1>1. PICK f \in Sources(c) :
         r = <<[c EXCEPT ![f] = Tail(@), !.last = Head(c[f])], Head(c[f])>>
    BY DEF Taken
<1>2. f \in {"answers", "keys", "aux"} /\ c[f] # <<>> /\ c[f] \in Seq(Byte)
    BY <1>1 DEF Sources, Controllers
<1>3. Tail(c[f]) \in Seq(Byte) /\ Head(c[f]) \in Byte
    BY <1>2
<1>4. CASE f = "answers"
    BY <1>1, <1>3, <1>4 DEF SameBits, Controllers
<1>5. CASE f = "keys"
    BY <1>1, <1>3, <1>5 DEF SameBits, Controllers
<1>6. CASE f = "aux"
    BY <1>1, <1>3, <1>6 DEF SameBits, Controllers
<1>7. QED
    BY <1>2, <1>4, <1>5, <1>6

LEMMA ReadKeeps ==
    ASSUME NEW c \in Controllers, NEW r \in Reads(c) \union ps2_get_responce_to(c)
    PROVE  SameBits(c, r[1]) /\ r[2] \in Byte
<1>1. r \in Taken(c) \/ r = <<c, c.last>> \/ r = <<c, {}>>
    BY DEF Reads, ps2_get_responce_to
<1>2. SameBits(c, c) /\ c.last \in Byte /\ {} \in Byte
    BY DEF SameBits, Controllers, Byte
<1>3. QED
    BY <1>1, <1>2, TakenKeeps

\* A controller that translates, whatever byte it may be waiting for.
Translates(c) == c \in Controllers /\ 6 \in c.config

Ps2Inv ==
    /\ kbd \in {"disable", "channels", "ports", "stuck"} => ~keyIrqOn
    /\ kbd \notin {"disable", "stuck", "done"} => Translates(chip)
    /\ kbd \in {"ioapic", "config", "write"} =>
          4 \notin chip.config /\ chip.pending = "none"
    /\ kbd \in {"write", "done"} => stat_reg \in Byte
    /\ kbd = "done" => chip \in Controllers /\ chip.config = stat_reg \union {0}

\* What holds as long as nothing can come between the last command for the
\* configuration and the read: its answer is the only byte there is.
Quiet ==
    /\ kbd = "config" /\ ~disturbed => /\ chip.slow = FALSE
                                       /\ Sources(chip) = {"answers"}
                                       /\ chip.answers = <<chip.config>>
    /\ kbd = "write" /\ ~disturbed => stat_reg = chip.config
    /\ kbd = "done" /\ ~disturbed => 4 \notin stat_reg /\ 6 \in stat_reg

LEMMA CmdTranslates ==
    ASSUME NEW c, Translates(c), NEW cmd
    PROVE  Translates(Cmd(c, cmd))
BY CmdEffect DEF Translates

LEMMA ReadTranslates ==
    ASSUME NEW c, Translates(c),
           NEW r \in Reads(c) \union ps2_get_responce_to(c) \union Taken(c)
    PROVE  Translates(r[1]) /\ r[2] \in Byte
BY ReadKeeps, TakenKeeps DEF Translates, SameBits

\* A byte with the translation bit keeps the translation on, even if it becomes
\* the configuration: 0xFF and 0xF0 both have it.
LEMMA DataTranslates ==
    ASSUME NEW c, Translates(c), NEW b \in Byte, 6 \in b
    PROVE  Translates(Data(c, b)) /\ Data(c, b).pending = "none"
<1>1. c \in Controllers /\ 6 \in c.config
    BY DEF Translates
<1>2. c.pending \in {"none", "config", "aux", "ram"}
    BY <1>1 DEF Controllers
<1>3. QED
    BY <1>1, <1>2, DataEffect DEF Translates

\* A second byte is for the keyboard, and turns its port on.
LEMMA TwoBytes ==
    ASSUME NEW c, Translates(c), NEW b1 \in Byte, NEW b2 \in Byte, 6 \in b1
    PROVE  /\ Translates(Data(Data(c, b1), b2))
           /\ 4 \notin Data(Data(c, b1), b2).config
           /\ Data(Data(c, b1), b2).pending = "none"
<1> DEFINE d == Data(c, b1)
<1>1. d \in Controllers /\ d.pending = "none" /\ 6 \in d.config
    BY DataTranslates DEF Translates
<1> HIDE DEF d
<1>2. /\ Data(d, b2) \in Controllers /\ Data(d, b2).pending = "none"
      /\ Data(d, b2).config = d.config \ {4}
    BY <1>1, DataEffect
<1>3. QED
    BY <1>1, <1>2 DEF Translates, d

\* A byte that is sent, or that the controller is too busy for.
LEMMA SendTranslates ==
    ASSUME NEW c, Translates(c), NEW d \in ps2_send_byte_port1(c, FF)
    PROVE  Translates(d)
<1>1. d = Data(c, FF) \/ d = c
    BY DEF ps2_send_byte_port1
<1>2. FF \in Byte /\ 6 \in FF
    BY DEF FF, Byte
<1>3. QED
    BY <1>1, <1>2, DataTranslates

\* What ps2_send_dbyte leaves the controller with.
LEMMA DbyteTranslates ==
    ASSUME NEW c, Translates(c), NEW byte
    PROVE  Translates(ps2_send_dbyte(c, byte))
BY CmdTranslates DEF ps2_send_dbyte

LEMMA Ps2Step ==
    ASSUME [Next]_vars
    PROVE  Ps2Next \/ UNCHANGED ps2Vars
BY DEF Next, vars, init_multiboot, Memory, cache_tables, Apic, Pae,
       init_framebuffer, test_pci, Dialogue

LEMMA DisableStep ==
    ASSUME DisableDevices
    PROVE  Translates(chip')
<1>0. PICK c \in Chips :
         \E f \in Reads(Cmd(Cmd(c, "AD"), "A7")) :
         \E r \in Reads(Cmd(f[1], "20")) :
            chip' = ps2_send_dbyte(r[1], r[2] \intersect {1, 2, 3, 5, 7})
    BY DEF DisableDevices
<1>1. PICK f \in Reads(Cmd(Cmd(c, "AD"), "A7")) :
         \E r \in Reads(Cmd(f[1], "20")) :
            chip' = ps2_send_dbyte(r[1], r[2] \intersect {1, 2, 3, 5, 7})
    BY <1>0
<1>2. PICK r \in Reads(Cmd(f[1], "20")) :
         chip' = ps2_send_dbyte(r[1], r[2] \intersect {1, 2, 3, 5, 7})
    BY <1>1
<1>3. Translates(c)
    <2>1. /\ <<>> \in Seq(Byte) /\ {} \in Byte
          /\ {2, 5, 6} \in Byte /\ {0, 1, 2, 6} \in Byte
        BY DEF Byte
    <2>2. QED
        BY <2>1 DEF Chips, Controllers, Translates
<1>4. Translates(Cmd(Cmd(c, "AD"), "A7"))
    BY <1>3, CmdTranslates
<1>5. Translates(f[1])
    BY <1>1, <1>4, ReadTranslates
<1>6. Translates(Cmd(f[1], "20"))
    BY <1>5, CmdTranslates
<1>7. Translates(r[1])
    BY <1>2, <1>6, ReadTranslates
<1>8. QED
    BY <1>2, <1>7, DbyteTranslates

LEMMA ChannelsStep ==
    ASSUME Translates(chip), CountChannels
    PROVE  Translates(chip')
<1> DEFINE c == Cmd(Cmd(Cmd(Cmd(chip, "20"), "AA"), "A8"), "20")
<1>1. Translates(c)
    BY CmdTranslates
<1> HIDE DEF c
<1>2. PICK r \in Taken(c) :
         chip' = IF dual' THEN ps2_send_dbyte(Cmd(r[1], "A7"), dchannel')
                 ELSE r[1]
    BY DEF CountChannels, c
<1>3. Translates(r[1])
    BY <1>1, ReadTranslates
<1>4. Translates(Cmd(r[1], "A7"))
    BY <1>3, CmdTranslates
<1>5. QED
    BY <1>2, <1>3, <1>4, DbyteTranslates

LEMMA PortsStep ==
    ASSUME Translates(chip), TestPorts
    PROVE  Translates(chip')
<1>1. PICK t \in Tested :
         \/ \E cmd \in {"A8", "none"} :
               chip' = ps2_send_dbyte(Cmd(Cmd(t[1], "AE"), cmd), dchannel')
         \/ chip' = t[1]
    BY DEF TestPorts
<1>2. Translates(t[1])
    <2>1. PICK r1 \in Taken(Cmd(chip, "AB")) :
             \/ \E r2 \in Taken(Cmd(r1[1], "A9")) : t[1] = r2[1]
             \/ t[1] = r1[1]
        BY DEF Tested
    <2>2. Translates(r1[1])
        BY CmdTranslates, ReadTranslates
    <2>3. Translates(Cmd(r1[1], "A9"))
        BY <2>2, CmdTranslates
    <2>4. QED
        BY <2>1, <2>2, <2>3, ReadTranslates
<1>3. Translates(Cmd(t[1], "AE"))
    BY <1>2, CmdTranslates
<1>4. ASSUME NEW cmd \in {"A8", "none"}
      PROVE  Translates(Cmd(Cmd(t[1], "AE"), cmd))
    BY <1>3, CmdTranslates
<1>5. QED
    BY <1>1, <1>2, <1>4, DbyteTranslates

LEMMA KeyboardResetStep ==
    ASSUME Translates(chip), ResetKeyboard
    PROVE  Translates(chip')
<1>1. PICK c \in ps2_send_byte_port1(chip, FF) :
         \E d \in ps2_send_byte_port1(c, FF) :
         \E r \in ps2_get_responce_to(d) :
            chip' = r[1] \/ \E s \in Reads(r[1]) : chip' = s[1]
    BY Zenon DEF ResetKeyboard
<1>2. PICK d \in ps2_send_byte_port1(c, FF) :
         \E r \in ps2_get_responce_to(d) :
            chip' = r[1] \/ \E s \in Reads(r[1]) : chip' = s[1]
    BY <1>1
<1>3. PICK r \in ps2_get_responce_to(d) :
         chip' = r[1] \/ \E s \in Reads(r[1]) : chip' = s[1]
    BY <1>2
<1>4. Translates(c)
    BY <1>1, SendTranslates
<1>5. Translates(d)
    BY <1>2, <1>4, SendTranslates
<1>6. Translates(r[1])
    BY <1>3, <1>5, ReadTranslates
<1>7. QED
    BY <1>3, <1>6, ReadTranslates

LEMMA MouseResetStep ==
    ASSUME Translates(chip), ResetMouse
    PROVE  Translates(chip')
<1>1. ASSUME NEW c, Translates(c), NEW d \in ps2_send_byte_port2(c, FF)
      PROVE  Translates(d)
    <2>1. Translates(Cmd(c, "D4"))
        BY <1>1, CmdTranslates
    <2>2. d \in ps2_send_byte_port1(Cmd(c, "D4"), FF)
        BY <1>1 DEF ps2_send_byte_port2
    <2>3. QED
        BY <2>1, <2>2, SendTranslates
<1>2. PICK c \in ps2_send_byte_port2(chip, FF) :
         \E d \in ps2_send_byte_port2(c, FF) :
         \E r \in ps2_get_responce_to(d) :
            \/ chip' = r[1]
            \/ \E s \in ps2_get_responce_to(r[1]) :
               \E t \in ps2_get_responce_to(s[1]) : chip' = t[1]
    BY Zenon DEF ResetMouse
<1>3. PICK d \in ps2_send_byte_port2(c, FF) :
         \E r \in ps2_get_responce_to(d) :
            \/ chip' = r[1]
            \/ \E s \in ps2_get_responce_to(r[1]) :
               \E t \in ps2_get_responce_to(s[1]) : chip' = t[1]
    BY <1>2
<1>4. PICK r \in ps2_get_responce_to(d) :
         \/ chip' = r[1]
         \/ \E s \in ps2_get_responce_to(r[1]) :
            \E t \in ps2_get_responce_to(s[1]) : chip' = t[1]
    BY <1>3
<1>5. Translates(c)
    BY <1>1, <1>2
<1>6. Translates(d)
    BY <1>1, <1>3, <1>5
<1>7. Translates(r[1])
    BY <1>4, <1>6, ReadTranslates
<1>8. ASSUME NEW s \in ps2_get_responce_to(r[1]),
             NEW t \in ps2_get_responce_to(s[1])
      PROVE  Translates(t[1])
    BY <1>7, ReadTranslates
<1>9. QED
    BY <1>4, <1>7, <1>8

LEMMA ScancodesStep ==
    ASSUME Translates(chip), CheckScancodes
    PROVE  /\ Translates(chip')
           /\ 4 \notin chip'.config /\ chip'.pending = "none"
<1>0. PICK trans \in Reads(Cmd(chip, "20")) :
         \E ack \in Reads(Data(Data(trans[1], F0), {1})) :
         \E set \in Reads(ack[1]) : chip' = set[1]
    BY DEF CheckScancodes
<1>1. PICK ack \in Reads(Data(Data(trans[1], F0), {1})) :
         \E set \in Reads(ack[1]) : chip' = set[1]
    BY <1>0
<1>2. PICK set \in Reads(ack[1]) : chip' = set[1]
    BY <1>1
<1>3. Translates(trans[1])
    BY CmdTranslates, ReadTranslates
<1> DEFINE c == Data(Data(trans[1], F0), {1})
<1>4. Translates(c) /\ 4 \notin c.config /\ c.pending = "none"
    <2>1. F0 \in Byte /\ 6 \in F0 /\ {1} \in Byte
        BY DEF F0, Byte
    <2>2. QED
        BY <1>3, <2>1, TwoBytes
<1>5. SameBits(c, ack[1])
    <2>1. c \in Controllers
        BY <1>4 DEF Translates
    <2>2. QED
        BY <1>1, <2>1, ReadKeeps
<1> HIDE DEF c
<1>6. SameBits(ack[1], set[1])
    BY <1>2, <1>5, ReadKeeps DEF SameBits
<1>7. QED
    BY <1>2, <1>4, <1>5, <1>6 DEF SameBits, Translates

LEMMA Ps2InvInit == Init => Ps2Inv
<1> SUFFICES ASSUME Init PROVE Ps2Inv
    OBVIOUS
<1>1. kbd = "disable" /\ ~keyIrqOn
    BY Zenon DEF Init, Ps2Init
<1>2. QED
    BY <1>1 DEF Ps2Inv

LEMMA Ps2InvStep ==
    ASSUME Ps2Inv, [Next]_vars
    PROVE  Ps2Inv'
<1>1. CASE DisableDevices
    <2>1. kbd' = "channels" /\ ~keyIrqOn'
        BY <1>1, Zenon DEF DisableDevices, Step, Ps2Inv
    <2>2. QED
        BY <1>1, <2>1, DisableStep DEF Ps2Inv
<1>2. CASE CountChannels
    <2>1. kbd = "channels" /\ kbd' = "ports" /\ ~keyIrqOn'
        BY <1>2, Zenon DEF CountChannels, Step, Ps2Inv
    <2>2. QED
        BY <1>2, <2>1, ChannelsStep DEF Ps2Inv
<1>3. CASE TestPorts
    <2>1. kbd = "ports" /\ kbd' \in {"reset", "scancodes"}
        BY <1>3 DEF TestPorts
    <2>2. QED
        BY <1>3, <2>1, PortsStep DEF Ps2Inv
<1>4. CASE ResetKeyboard
    <2>1. kbd = "reset" /\ kbd' \in {"reset_mouse", "scancodes"}
        BY <1>4 DEF ResetKeyboard, Step
    <2>2. QED
        BY <1>4, <2>1, KeyboardResetStep DEF Ps2Inv
<1>5. CASE ResetMouse
    <2>1. kbd = "reset_mouse" /\ kbd' = "scancodes"
        BY <1>5 DEF ResetMouse, Step
    <2>2. QED
        BY <1>5, <2>1, MouseResetStep DEF Ps2Inv
<1>6. CASE CheckScancodes
    <2>1. kbd = "scancodes" /\ kbd' \in {"panic", "ioapic"}
        BY <1>6 DEF CheckScancodes
    <2>2. QED
        BY <1>6, <2>1, ScancodesStep DEF Ps2Inv
<1>7. CASE RouteKeyboard
    <2>1. kbd = "ioapic" /\ kbd' = "config" /\ chip' = Cmd(chip, "20")
        BY <1>7 DEF RouteKeyboard, Step
    <2>2. Translates(chip) /\ 4 \notin chip.config /\ chip.pending = "none"
        BY <2>1 DEF Ps2Inv
    <2>3. /\ Translates(chip') /\ chip'.config = chip.config
          /\ chip'.pending = "none"
        BY <2>1, <2>2, CmdEffect DEF Translates
    <2>4. QED
        BY <2>1, <2>2, <2>3 DEF Ps2Inv
<1>8. CASE ReadConfig
    <2>1. PICK r \in Reads(chip) : chip' = r[1] /\ stat_reg' = r[2]
        BY <1>8 DEF ReadConfig
    <2>2. kbd = "config" /\ kbd' = "write"
        BY <1>8 DEF ReadConfig, Step
    <2>3. Translates(chip) /\ 4 \notin chip.config /\ chip.pending = "none"
        BY <2>2 DEF Ps2Inv
    <2>4. SameBits(chip, chip') /\ stat_reg' \in Byte
        BY <2>1, <2>3, ReadKeeps DEF Translates
    <2>5. QED
        BY <2>2, <2>3, <2>4 DEF Ps2Inv, SameBits, Translates
<1>9. CASE WriteConfig
    <2> DEFINE b == stat_reg \union {0}
               c == Cmd(chip, "60")
    <2>1. PICK r \in Reads(Data(c, b)) : chip' = r[1]
        BY <1>9 DEF WriteConfig
    <2>2. kbd = "write" /\ kbd' = "done" /\ stat_reg' = stat_reg
        BY <1>9 DEF WriteConfig, Step
    <2>3. chip \in Controllers /\ stat_reg \in Byte /\ b \in Byte
        BY <2>2 DEF Ps2Inv, Translates, Byte
    <2>4. c \in Controllers /\ c.pending = "config"
        BY <2>3, CmdEffect
    <2> HIDE DEF b, c
    <2>5. Data(c, b) \in Controllers /\ Data(c, b).config = b
        BY <2>3, <2>4, DataEffect
    <2>6. SameBits(Data(c, b), chip')
        BY <2>1, <2>5, ReadKeeps
    <2>7. QED
        BY <2>2, <2>3, <2>5, <2>6 DEF Ps2Inv, SameBits, b
<1>10. CASE StealAnswer \/ KeyPressed
    <2>1. /\ kbd' = kbd /\ stat_reg' = stat_reg
          /\ keyIrqOn' = keyIrqOn
        BY <1>10 DEF StealAnswer, KeyPressed
    <2>2. kbd \notin {"disable", "stuck"} /\ chip \in Controllers
        <3>1. keyIrqOn \/ kbd \notin {"disable", "stuck"}
            BY <1>10 DEF StealAnswer, KeyPressed
        <3>2. QED
            BY <3>1 DEF Ps2Inv, Translates
    <2>3. SameBits(chip, chip')
        <3>1. CASE StealAnswer
            BY <2>2, <3>1, TakenKeeps DEF StealAnswer
        <3>2. CASE KeyPressed
            <4>1. <<Key>> \in Seq(Byte)
                BY DEF Key, Byte
            <4>2. QED
                BY <2>2, <3>2, <4>1 DEF KeyPressed, SameBits, Controllers
        <3>3. QED
            BY <1>10, <3>1, <3>2
    <2>4. QED
        BY <2>1, <2>2, <2>3 DEF Ps2Inv, SameBits, Translates
<1>11. CASE UNCHANGED ps2Vars
    BY <1>11 DEF ps2Vars, Ps2Inv
<1>12. CASE Waits
    <2>1. kbd' = "stuck" /\ keyIrqOn' = keyIrqOn /\ ~keyIrqOn
        BY <1>12 DEF Waits, Ps2Inv
    <2>2. QED
        BY <2>1 DEF Ps2Inv
<1>13. QED
    BY Ps2Step, <1>1, <1>2, <1>3, <1>4, <1>5, <1>6, <1>7, <1>8, <1>9, <1>10,
       <1>11, <1>12 DEF Ps2Next, init_keyboard

LEMMA QuietStep ==
    ASSUME Ps2Inv, Quiet, [Next]_vars
    PROVE  Quiet'
<1>1. CASE RouteKeyboard
    <2>1. kbd = "ioapic" /\ kbd' = "config" /\ chip' = Cmd(chip, "20")
        BY <1>1 DEF RouteKeyboard, Step
    <2>2. chip \in Controllers /\ 4 \notin chip.config
        BY <2>1 DEF Ps2Inv, Translates
    <2>3. SUFFICES ASSUME ~disturbed'
                   PROVE  /\ chip'.slow = FALSE
                          /\ Sources(chip') = {"answers"}
                          /\ chip'.answers = <<chip'.config>>
        BY <2>1 DEF Quiet
    <2>4. ~chip.slow /\ Sources(chip) = {}
        BY <1>1, <2>3, Zenon DEF RouteKeyboard
    <2>5. /\ chip.slow = FALSE /\ chip.answers = <<>> /\ chip.keys = <<>>
          /\ chip.aux = <<>> \/ 5 \in chip.config
        <3>1. chip.slow = FALSE
            BY <2>2, <2>4 DEF Controllers
        <3>2. QED
            BY <2>2, <2>4, <3>1 DEF Sources
    <2> DEFINE d == [chip EXCEPT !.config = Ports(chip, "20"),
                                 !.pending = Wanted(chip, "20")]
    <2>6. /\ d \in Controllers /\ d.config = chip.config
          /\ d.slow = chip.slow /\ d.answers = chip.answers
          /\ d.keys = chip.keys /\ d.aux = chip.aux
        <3>1. Ports(chip, "20") = chip.config
            BY DEF Ports
        <3>2. Wanted(chip, "20") \in {chip.pending, "none"}
            BY DEF Wanted
        <3>3. QED
            BY <2>2, <3>1, <3>2 DEF Controllers
    <2>7. chip' = Answer(d, <<chip.config>>)
        <3>1. Reply(chip, "20") = <<chip.config>>
            BY DEF Reply
        <3>2. QED
            BY <2>1, <3>1 DEF Cmd
    <2> HIDE DEF d
    <2>8. d.answers \o <<chip.config>> = <<chip.config>> /\ <<chip.config>> # <<>>
        BY <2>5, <2>6
    <2>9. chip' = [d EXCEPT !.answers = <<chip.config>>]
        BY <2>7, <2>8 DEF Answer
    <2>10. /\ chip'.slow = FALSE /\ chip'.answers = <<chip.config>>
           /\ chip'.keys = <<>> /\ chip'.aux = d.aux /\ chip'.config = chip.config
        BY <2>5, <2>6, <2>9 DEF Controllers
    <2>11. Sources(chip') = {"answers"}
        <3>1. "answers" \in Sources(chip')
            BY <2>10 DEF Sources
        <3>2. "keys" \notin Sources(chip')
            BY <2>10 DEF Sources
        <3>3. "aux" \notin Sources(chip')
            BY <2>5, <2>6, <2>10 DEF Sources
        <3>4. Sources(chip') \subseteq {"answers", "keys", "aux"}
            BY DEF Sources
        <3>5. QED
            BY <3>1, <3>2, <3>3, <3>4
    <2>12. QED
        BY <2>10, <2>11
<1>2. CASE ReadConfig
    <2>1. PICK r \in Reads(chip) : chip' = r[1] /\ stat_reg' = r[2]
        BY <1>2 DEF ReadConfig
    <2>2. kbd = "config" /\ kbd' = "write" /\ disturbed' = disturbed
        BY <1>2 DEF ReadConfig, Step
    <2>3. SUFFICES ASSUME ~disturbed'
                   PROVE  stat_reg' = chip'.config
        BY <2>2 DEF Quiet
    <2>4. /\ chip.slow = FALSE /\ Sources(chip) = {"answers"}
          /\ chip.answers = <<chip.config>>
        <3>1. ~disturbed
            BY <2>2, <2>3
        <3>2. QED
            BY <2>2, <3>1 DEF Quiet
    <2>5. Taken(chip) # {}
        BY <2>4 DEF Taken
    <2>6. r \in Taken(chip)
        BY <2>1, <2>4, <2>5 DEF Reads
    <2>7. stat_reg' = chip.config
        <3>1. r[2] = Head(chip.answers)
            <4>1. PICK f \in Sources(chip) :
                     r = <<[chip EXCEPT ![f] = Tail(@), !.last = Head(chip[f])],
                           Head(chip[f])>>
                BY <2>6 DEF Taken
            <4>2. f = "answers"
                BY <2>4, <4>1
            <4>3. QED
                BY <4>1, <4>2
        <3>2. Head(<<chip.config>>) = chip.config
            OBVIOUS
        <3>3. QED
            BY <2>1, <2>4, <3>1, <3>2
    <2>8. SameBits(chip, chip')
        <3>1. chip \in Controllers
            BY <2>2 DEF Ps2Inv, Translates
        <3>2. QED
            BY <2>1, <3>1, ReadKeeps
    <2>9. QED
        BY <2>7, <2>8 DEF SameBits
<1>3. CASE WriteConfig
    <2>1. /\ kbd = "write" /\ kbd' = "done" /\ stat_reg' = stat_reg
          /\ disturbed' = disturbed
        BY <1>3 DEF WriteConfig, Step
    <2>2. 4 \notin chip.config /\ 6 \in chip.config
        BY <2>1 DEF Ps2Inv, Translates
    <2>3. ~disturbed => stat_reg = chip.config
        BY <2>1 DEF Quiet
    <2>4. QED
        BY <2>1, <2>2, <2>3 DEF Quiet
<1>4. CASE StealAnswer \/ KeyPressed
    <2>1. kbd' = kbd /\ stat_reg' = stat_reg
        BY <1>4 DEF StealAnswer, KeyPressed
    <2>2. ~disturbed' => ~disturbed /\ kbd # "config"
        BY <1>4, Zenon DEF StealAnswer, KeyPressed, Disturb
    <2>3. kbd \in {"write", "done"} => chip'.config = chip.config
        <3>1. SUFFICES ASSUME kbd \in {"write", "done"}
                       PROVE  chip'.config = chip.config
            OBVIOUS
        <3>2. chip \in Controllers
            BY <3>1 DEF Ps2Inv, Translates
        <3>3. CASE StealAnswer
            BY <3>2, <3>3, TakenKeeps DEF StealAnswer, SameBits
        <3>4. CASE KeyPressed
            BY <3>2, <3>4 DEF KeyPressed, Controllers
        <3>5. QED
            BY <1>4, <3>3, <3>4
    <2>4. QED
        BY <2>1, <2>2, <2>3 DEF Quiet
<1>5. CASE UNCHANGED ps2Vars
    BY <1>5 DEF ps2Vars, Quiet, Sources
<1>6. CASE \/ Waits \/ DisableDevices \/ CountChannels \/ TestPorts
           \/ ResetKeyboard \/ ResetMouse \/ CheckScancodes
    <2>1. kbd' \in {"stuck", "channels", "ports", "reset", "reset_mouse",
                    "scancodes", "panic", "ioapic"}
        BY <1>6 DEF Waits, DisableDevices, CountChannels, TestPorts,
           ResetKeyboard, ResetMouse, CheckScancodes, Step
    <2>2. QED
        BY <2>1 DEF Quiet
<1>7. QED
    BY Ps2Step, <1>1, <1>2, <1>3, <1>4, <1>5, <1>6 DEF Ps2Next, init_keyboard

\* init_keyboard: with every controller the model allows for, however its
\* answers are mixed with keys and the interrupts steal them, the port of the
\* keyboard is on and translates when the configuration is read for the last
\* time; and if that read gets its answer, the port is on, translates and
\* interrupts when init_keyboard returns.
THEOREM KeyboardUsableUnlessDisturbed == Spec => []UsableUnlessDisturbed
<1>1. Init => Ps2Inv /\ Quiet
    <2>1. Init => kbd = "disable"
        BY DEF Init, Ps2Init
    <2>2. QED
        BY <2>1, Ps2InvInit DEF Quiet
<1>2. Ps2Inv /\ Quiet /\ [Next]_vars => Ps2Inv' /\ Quiet'
    BY Ps2InvStep, QuietStep
<1>3. Ps2Inv /\ Quiet => UsableUnlessDisturbed
    BY DEF Ps2Inv, Quiet, Translates, UsableUnlessDisturbed, PortOn
<1>4. QED
    BY <1>1, <1>2, <1>3, PTL DEF Spec

-----------------------------------------------------------------------------
(* The kernel's memory and the switch to PAE tables: the invariant.        *)

Names == {"image", "area", "temp", "self"}

PaePlaces == {"bitmap", "store", "heap", "lapic", "ioapic", "cpuid", "pdpt",
              "identity_pd", "identity_pt", "new_pd", "first_half",
              "second_half", "identity", "switch", "done", "panic"}

Uses == {"bitmap", "store", "heap", "lapic", "ioapic", "pdpt", "identity_pd",
         "identity_pt", "new_pd", "new_table"}

PaeTypes ==
    /\ pae \in PaePlaces
    /\ use \in Seq(Uses)
    /\ old \in [Names -> Seq(Int)]
    /\ Len(old["area"]) = Len(use)
    /\ old["image"] = [n \in 1 .. Half |-> n - 1]
    /\ old["temp"] = <<Half>>

\* Frames are marked without a gap, at most one for each page of the area, one
\* for its table and three for the tables of other pages.
FrameTop ==
    \E k \in Half .. (Half + Len(use) + 4) :
       frames = 0 .. k /\ (use = <<>> => k <= Half + 3)

\* The number of pages of the area that are given out.
Given == Len(use)

\* How many pages of the area are given out where.
GivenOut ==
    /\ pae = "bitmap" => Given = 0
    /\ pae = "store" => Given = 1
    /\ pae = "heap" => Given \in 2 .. (HeapPages + 2)
    /\ pae = "lapic" => Given = HeapPages + 2
    /\ pae = "ioapic" => Given = HeapPages + 3
    /\ pae \in {"cpuid", "pdpt", "panic"} => Given = HeapPages + 4
    /\ pae = "identity_pd" => Given = HeapPages + 5
    /\ pae = "identity_pt" => Given = HeapPages + 6
    /\ pae = "new_pd" => Given = HeapPages + 7
    /\ pae = "first_half" => Given = HeapPages + 6 + 2 * table
    /\ pae = "second_half" => Given = HeapPages + 7 + 2 * table
    /\ pae \in {"identity", "switch", "done"} => Given = HeapPages + 16

\* The heap's pages come third, and what is needed after the switch lies in
\* front of the pages of the new tables.
AreaOrder ==
    \A n \in 1 .. Len(use) :
       /\ use[n] \in Needed => n <= HeapPages + 5
       /\ n <= HeapPages + 2 => (use[n] = "heap" <=> n >= 3)

\* Which tables were copied.
TableOrder ==
    /\ table \in 1 .. 4
    /\ pae \notin {"first_half", "second_half", "identity", "switch", "done"}
          => table = 1
    /\ pae \in {"identity", "switch", "done"} => table = 4

CopiedSoFar(t) == table > t \/ (table = t /\ pae = "second_half")

Copies ==
    /\ CopiedSoFar(1) => new["image"] = old["image"]
    /\ CopiedSoFar(2) => \A n \in 1 .. (HeapPages + 5) :
          n \in DOMAIN new["area"] /\ new["area"][n] = old["area"][n]
    /\ CopiedSoFar(3) => new["temp"] = old["temp"]

CodeMapped ==
    pae = "switch" => \A u \in eip .. (eip + CodeEnd) : PageOf(u) \in identity

PaeInv ==
    /\ PaeTypes
    /\ new \in [Names -> Seq(Int)]
    /\ FramesGivenOnce
    /\ pae \notin {"switch", "done"} => FrameTop
    /\ GivenOut
    /\ AreaOrder
    /\ TableOrder
    /\ Copies
    /\ CodeMapped
    /\ root = "new" => pae = "done"

\* Only init_multiboot maps the RSDT, and it comes first.
FirstFrames == stage = "multiboot" => frames = Boot

-----------------------------------------------------------------------------
(* Giving out pages.                                                       *)

\* Behind marked frames without a gap comes the next one.
LEMMA NextFrame ==
    ASSUME NEW k \in Nat, k < 2 * Half + HeapPages + 30
    PROVE  get_first_frame(0 .. k) = k + 1
<1>1. Half \in Nat /\ HeapPages \in Nat
    BY PaeSwitchAssumption
<1>2. k + 1 \in Frame \ (0 .. k)
    BY <1>1 DEF Frame
<1>3. \A g \in Frame \ (0 .. k) : k + 1 <= g
    BY <1>1 DEF Frame
<1>4. \A f \in Frame \ (0 .. k) :
         (\A g \in Frame \ (0 .. k) : f <= g) => f = k + 1
    BY <1>1, <1>2, <1>3 DEF Frame
<1>5. QED
    BY <1>2, <1>3, <1>4 DEF get_first_frame

\* What every way of giving out a page does to the area.
AreaGrows(what) ==
    /\ PaeTypes'
    /\ FramesGivenOnce'
    /\ FrameTop'
    /\ use' = Append(use, what)
    /\ Given' = Given + 1
    /\ \A n \in 1 .. Len(use) : old'["area"][n] = old["area"][n]
    /\ \A t \in {"image", "temp"} : old'[t] = old[t]

\* The frame of the page and of the area's table, if there is none yet.
LEMMA FramesAfter ==
    ASSUME PaeTypes, FrameTop, Given <= HeapPages + 15
    PROVE  \E k \in Half .. (Half + Len(use) + 4) :
             /\ frames = 0 .. k
             /\ k \in Nat
             /\ use = <<>> => k <= Half + 3
             /\ get_first_frame(frames) = k + 1
             /\ frames \union {k + 1} = 0 .. (k + 1)
             /\ get_first_frame(0 .. (k + 1)) = k + 2
             /\ (0 .. (k + 1)) \union {k + 2} = 0 .. (k + 2)
<1>1. Half \in Nat /\ HeapPages \in Nat /\ Len(use) \in Nat
    BY PaeSwitchAssumption DEF PaeTypes
<1>2. PICK k \in Half .. (Half + Len(use) + 4) :
         frames = 0 .. k /\ (use = <<>> => k <= Half + 3)
    BY DEF FrameTop
<1>3. /\ k \in Nat /\ k + 1 \in Nat
      /\ k < 2 * Half + HeapPages + 30 /\ k + 1 < 2 * Half + HeapPages + 30
    BY <1>1, <1>2, PaeSwitchAssumption DEF Given
<1>4. get_first_frame(0 .. k) = k + 1
    BY <1>3, NextFrame
<1>5. get_first_frame(0 .. (k + 1)) = k + 2
    <2> DEFINE l == k + 1
    <2> HIDE DEF l
    <2>1. l \in Nat /\ l < 2 * Half + HeapPages + 30
        BY <1>3 DEF l
    <2>2. get_first_frame(0 .. l) = l + 1
        BY <2>1, NextFrame
    <2>3. QED
        BY <1>3, <2>2 DEF l
<1>6. /\ (0 .. k) \union {k + 1} = 0 .. (k + 1)
      /\ (0 .. (k + 1)) \union {k + 2} = 0 .. (k + 2)
    BY <1>3
<1>7. QED
    BY <1>2, <1>3, <1>4, <1>5, <1>6

\* An entry more in the area's table leaves the other tables.
LEMMA AreaUpdate ==
    ASSUME NEW tables \in [Names -> Seq(Int)], NEW s \in Seq(Int)
    PROVE  LET after == [tables EXCEPT !["area"] = s]
           IN  /\ after["area"] = s
               /\ \A t \in Names \ {"area"} : after[t] = tables[t]
               /\ after \in [Names -> Seq(Int)]
BY DEF Names

\* page_kalloc gives the page a frame that no page has and marks it.
LEMMA PageKalloc ==
    ASSUME PaeTypes, FramesGivenOnce, FrameTop, Given <= HeapPages + 15,
           NEW what \in Uses, page_kalloc(what), pae' \in PaePlaces
    PROVE  AreaGrows(what)
<1>1. Half \in Nat /\ HeapPages \in Nat /\ Len(use) \in Nat
    BY PaeSwitchAssumption DEF PaeTypes
<1>2. PICK k \in Half .. (Half + Len(use) + 4) :
             /\ frames = 0 .. k
             /\ k \in Nat
             /\ use = <<>> => k <= Half + 3
             /\ get_first_frame(frames) = k + 1
             /\ frames \union {k + 1} = 0 .. (k + 1)
             /\ get_first_frame(0 .. (k + 1)) = k + 2
             /\ (0 .. (k + 1)) \union {k + 2} = 0 .. (k + 2)
    BY FramesAfter
<1>3. /\ use' = Append(use, what)
      /\ old' = [old EXCEPT !["area"] = Append(@, k + 1)]
      /\ frames' = IF old["area"] = <<>> THEN 0 .. (k + 2) ELSE 0 .. (k + 1)
    BY <1>2 DEF page_kalloc, memory_map
<1>4. /\ old["area"] \in Seq(Int) /\ use \in Seq(Uses)
      /\ Len(old["area"]) = Len(use)
    BY DEF PaeTypes, Names
<1>5. /\ old'["area"] = Append(old["area"], k + 1)
      /\ \A t \in Names \ {"area"} : old'[t] = old[t]
      /\ old' \in [Names -> Seq(Int)]
    <2> DEFINE s == Append(old["area"], k + 1)
    <2>1. s \in Seq(Int) /\ old' = [old EXCEPT !["area"] = s]
        BY <1>2, <1>3, <1>4
    <2> HIDE DEF s
    <2>2. /\ old'["area"] = s
          /\ \A t \in Names \ {"area"} : old'[t] = old[t]
          /\ old' \in [Names -> Seq(Int)]
        BY <2>1, AreaUpdate DEF PaeTypes
    <2>3. QED
        BY <2>2 DEF s
<1>6. /\ use' \in Seq(Uses) /\ Len(use') = Len(use) + 1
      /\ Len(old'["area"]) = Len(use) + 1
      /\ old'["area"][Len(use) + 1] = k + 1
      /\ \A n \in 1 .. Len(use) : old'["area"][n] = old["area"][n]
    BY <1>2, <1>3, <1>4, <1>5
<1>7. old["area"] = <<>> <=> use = <<>>
    BY <1>4
<1>8. PaeTypes'
    BY <1>5, <1>6 DEF PaeTypes, Names
<1>9. FrameTop'
    <2>0. use' # <<>> /\ Len(use') = Len(use) + 1 /\ k \in Nat
        BY <1>2, <1>3, <1>4, <1>6
    <2>1. CASE use = <<>>
        <3>1. Len(use) = 0 /\ k <= Half + 3 /\ frames' = 0 .. (k + 2)
            BY <1>2, <1>3, <1>7, <2>1
        <3>2. k + 2 \in Half .. (Half + Len(use') + 4)
            BY <1>1, <2>0, <3>1
        <3>3. QED
            BY <2>0, <3>1, <3>2 DEF FrameTop
    <2>2. CASE use # <<>>
        <3>1. frames' = 0 .. (k + 1)
            BY <1>3, <1>7, <2>2
        <3>2. k + 1 \in Half .. (Half + Len(use') + 4)
            BY <1>1, <2>0
        <3>3. QED
            BY <2>0, <3>1, <3>2 DEF FrameTop
    <2>3. QED
        BY <2>1, <2>2
<1>10. FramesGivenOnce'
    <2>1. frames \subseteq frames' /\ k + 1 \in frames' \ frames
        BY <1>2, <1>3
    <2>2. k + 1 \notin Boot /\ k + 1 # Device
        BY <1>1, <1>2 DEF Boot, Device
    <2> SUFFICES ASSUME NEW m \in 1 .. Len(use'), NEW n \in 1 .. Len(use'),
                        old'["area"][m] # Device
                 PROVE  /\ old'["area"][m] \in frames' \ Boot
                        /\ m # n => old'["area"][m] # old'["area"][n]
        BY DEF FramesGivenOnce, Boot, Device
    <2>3. m \in 1 .. Len(use) \/ m = Len(use) + 1
        BY <1>1, <1>6
    <2>4. n \in 1 .. Len(use) \/ n = Len(use) + 1
        BY <1>1, <1>6
    <2>5. \A i \in 1 .. Len(use) : old["area"][i] # k + 1
        BY <2>1, <2>2 DEF FramesGivenOnce
    <2>6. CASE m = Len(use) + 1
        BY <1>6, <2>1, <2>2, <2>4, <2>5, <2>6
    <2>7. CASE m \in 1 .. Len(use)
        BY <1>6, <2>1, <2>4, <2>5, <2>7 DEF FramesGivenOnce
    <2>8. QED
        BY <2>3, <2>6, <2>7
<1>11. QED
    BY <1>3, <1>5, <1>6, <1>8, <1>9, <1>10 DEF AreaGrows, Names, Given

\* memory_map of a page outside the area takes the next frame or none.
LEMMA MappedFrames ==
    ASSUME NEW k \in Nat, k < 2 * Half + HeapPages + 30,
           NEW marked \in Mapped(0 .. k)
    PROVE  marked = 0 .. k \/ marked = 0 .. (k + 1)
<1>1. get_first_frame(0 .. k) = k + 1
    BY NextFrame
<1>2. (0 .. k) \union {k + 1} = 0 .. (k + 1)
    OBVIOUS
<1>3. QED
    BY <1>1, <1>2 DEF Mapped

\* page_kalloc of a device's page takes no frame, because the table is there.
LEMMA PageKallocDevice ==
    ASSUME PaeTypes, FramesGivenOnce, FrameTop, Given > 0, Given <= HeapPages + 15,
           NEW what \in Uses, NEW marked \in Mapped(frames),
           page_kalloc_device(what, marked), pae' \in PaePlaces
    PROVE  AreaGrows(what)
<1>1. Half \in Nat /\ HeapPages \in Nat /\ Len(use) \in Nat
    BY PaeSwitchAssumption DEF PaeTypes
<1>2. /\ old["area"] \in Seq(Int) /\ use \in Seq(Uses)
      /\ Len(old["area"]) = Len(use)
    BY DEF PaeTypes, Names
<1>3. /\ use' = Append(use, what)
      /\ old' = [old EXCEPT !["area"] = Append(@, Device)]
      /\ frames' = marked
    BY <1>1, <1>2 DEF page_kalloc_device, memory_map, Given
<1>4. /\ old'["area"] = Append(old["area"], Device)
      /\ \A t \in Names \ {"area"} : old'[t] = old[t]
      /\ old' \in [Names -> Seq(Int)]
    <2>1. Append(old["area"], Device) \in Seq(Int)
        BY <1>2 DEF Device
    <2>2. QED
        BY <1>3, <2>1, AreaUpdate DEF PaeTypes
<1>5. /\ use' \in Seq(Uses) /\ Len(use') = Len(use) + 1 /\ use' # <<>>
      /\ Len(old'["area"]) = Len(use) + 1
      /\ old'["area"][Len(use) + 1] = Device
      /\ \A n \in 1 .. Len(use) : old'["area"][n] = old["area"][n]
    <2>1. Device \in Int
        BY DEF Device
    <2>2. QED
        BY <1>2, <1>3, <1>4, <2>1
<1>6. PaeTypes'
    BY <1>4, <1>5 DEF PaeTypes, Names
<1>7. FrameTop' /\ frames \subseteq frames'
    <2>1. PICK k \in Half .. (Half + Len(use) + 4) : frames = 0 .. k
        BY DEF FrameTop
    <2>2. /\ k \in Half .. (Half + Len(use') + 4)
          /\ k + 1 \in Half .. (Half + Len(use') + 4)
        BY <1>1, <1>5, <2>1
    <2>3. frames' = 0 .. k \/ frames' = 0 .. (k + 1)
        <3>1. k \in Nat /\ k < 2 * Half + HeapPages + 30
            BY <1>1, <2>1, PaeSwitchAssumption DEF Given
        <3>2. QED
            BY <1>3, <2>1, <3>1, MappedFrames
    <2>4. QED
        BY <1>1, <1>3, <1>5, <2>1, <2>2, <2>3 DEF FrameTop
<1>8. FramesGivenOnce'
    <2> SUFFICES ASSUME NEW m \in 1 .. Len(use'), NEW n \in 1 .. Len(use'),
                        old'["area"][m] # Device
                 PROVE  /\ old'["area"][m] \in frames' \ Boot
                        /\ m # n => old'["area"][m] # old'["area"][n]
        BY DEF FramesGivenOnce, Boot, Device
    <2>1. m \in 1 .. Len(use)
        BY <1>1, <1>5
    <2>2. n \in 1 .. Len(use) \/ n = Len(use) + 1
        BY <1>1, <1>5
    <2>3. QED
        BY <1>5, <1>7, <2>1, <2>2 DEF FramesGivenOnce
<1>9. QED
    BY <1>3, <1>4, <1>5, <1>6, <1>7, <1>8 DEF AreaGrows, Names, Given

\* The heap has all pages of the area but the first two.
LEMMA HeapPagesCounted ==
    ASSUME PaeInv, pae = "heap"
    PROVE  Pages("heap") = Len(use) - 2
<1>1. /\ HeapPages \in Nat /\ Len(use) \in 2 .. (HeapPages + 2)
      /\ \A n \in 1 .. Len(use) :
            n <= HeapPages + 2 => (use[n] = "heap" <=> n >= 3)
    BY PaeSwitchAssumption DEF PaeInv, GivenOut, Given, AreaOrder
<1>2. {n \in 1 .. Len(use) : use[n] = "heap"} = 3 .. Len(use)
    BY <1>1
<1>3. 3 \in Int /\ Len(use) \in Int
    BY <1>1
<1>4. Cardinality(3 .. Len(use)) = IF 3 > Len(use) THEN 0 ELSE Len(use) - 3 + 1
    BY <1>3, FS_Interval
<1>5. QED
    <2>1. Pages("heap") = Cardinality(3 .. Len(use))
        BY <1>2, Zenon DEF Pages
    <2>2. QED
        BY <1>1, <1>4, <2>1

-----------------------------------------------------------------------------
(* The steps.                                                              *)

\* A page more, before the switch, keeps the invariant when it comes in turn.
LEMMA GrowStep ==
    ASSUME PaeInv, NEW what, AreaGrows(what), root' = root, root # "new",
           pae' \notin {"switch", "done"},
           what \in Needed => Given < HeapPages + 5,
           Given < HeapPages + 2 => (what = "heap" <=> Given >= 2),
           new' \in [Names -> Seq(Int)], GivenOut', TableOrder', Copies'
    PROVE  PaeInv'
<1>1. HeapPages \in Nat /\ Len(use) \in Nat /\ use \in Seq(Uses)
    BY PaeSwitchAssumption DEF PaeInv, PaeTypes
<1>2. use' = Append(use, what) /\ Len(use') = Len(use) + 1
    BY DEF AreaGrows, Given
<1>3. AreaOrder'
    <2> SUFFICES ASSUME NEW n \in 1 .. Len(use')
                 PROVE  /\ use'[n] \in Needed => n <= HeapPages + 5
                        /\ n <= HeapPages + 2 => (use'[n] = "heap" <=> n >= 3)
        BY DEF AreaOrder, Needed
    <2>1. CASE n \in 1 .. Len(use)
        <3>1. use'[n] = use[n]
            BY <1>1, <1>2, <2>1
        <3>2. QED
            BY <2>1, <3>1 DEF PaeInv, AreaOrder
    <2>2. CASE n = Len(use) + 1
        <3>1. use'[n] = what
            BY <1>1, <1>2, <2>2
        <3>2. QED
            BY <1>1, <2>2, <3>1 DEF Given
    <2>3. QED
        BY <1>1, <1>2, <2>1, <2>2
<1>4. CodeMapped'
    BY DEF CodeMapped
<1>5. QED
    BY <1>3, <1>4 DEF PaeInv, AreaGrows

\* Before the tables are copied there is nothing to be said of them.
LEMMA NoCopies ==
    ASSUME table = 1, pae # "second_half"
    PROVE  Copies
<1>1. ~CopiedSoFar(1) /\ ~CopiedSoFar(2) /\ ~CopiedSoFar(3)
    BY DEF CopiedSoFar
<1>2. QED
    BY <1>1 DEF Copies

LEMMA NoCopiesAfter ==
    ASSUME table' = 1, pae' # "second_half"
    PROVE  Copies'
<1>1. ~CopiedSoFar(1)' /\ ~CopiedSoFar(2)' /\ ~CopiedSoFar(3)'
    BY DEF CopiedSoFar
<1>2. QED
    BY <1>1 DEF Copies

LEMMA PaeStep ==
    ASSUME [Next]_vars
    PROVE  \/ transfer_dynamic \/ vmm_transfer_dynamic \/ init_heap
           \/ MapLapic \/ MapIoapic \/ init_pae
           \/ stage = "multiboot" /\ \E pages \in 1 .. 2 : MapRsdt(pages)
           \/ PaeOver
           \/ UNCHANGED paeVars
<1>1. CASE init_multiboot
    <2>1. /\ stage = "multiboot"
          /\ MapRsdt(1) \/ MapRsdt(2) \/ UNCHANGED paeVars
        BY <1>1 DEF init_multiboot
    <2>2. QED
        BY <2>1
<1>2. CASE UNCHANGED vars
    BY <1>2 DEF vars
<1>3. CASE Next /\ ~init_multiboot
    BY <1>3 DEF Next, Memory, cache_tables, Apic, Pae, init_framebuffer,
                test_pci, Dialogue
<1>4. QED
    BY <1>1, <1>2, <1>3

LEMMA PaeInvInit == PaeInit => PaeInv
<1> SUFFICES ASSUME PaeInit PROVE PaeInv
    OBVIOUS
<1>1. /\ HeapPages \in Nat /\ Half \in Nat
    BY PaeSwitchAssumption
<1>2. /\ pae = "bitmap" /\ use = <<>> /\ table = 1 /\ root = "old"
      /\ frames = 0 .. Half
      /\ new = [t \in Names |-> <<>>]
      /\ old = [t \in Names |->
                   CASE t = "image" -> [n \in 1 .. Half |-> n - 1]
                     [] t = "temp"  -> <<Half>>
                     [] OTHER       -> <<>>]
    BY DEF PaeInit, FirstTables, NoTables, Boot, Names
<1>3. /\ old["image"] = [n \in 1 .. Half |-> n - 1]
      /\ old["temp"] = <<Half>>
      /\ old["area"] = <<>> /\ old["self"] = <<>>
    BY <1>2 DEF Names
<1>4. /\ [n \in 1 .. Half |-> n - 1] \in Seq(Int)
      /\ <<Half>> \in Seq(Int) /\ <<>> \in Seq(Int) /\ Len(<<>>) = 0
      /\ <<>> \in Seq(Uses)
    BY <1>1
<1>5. old \in [Names -> Seq(Int)] /\ new \in [Names -> Seq(Int)]
    BY <1>2, <1>3, <1>4 DEF Names
<1>6. PaeTypes
    BY <1>2, <1>3, <1>4, <1>5 DEF PaeTypes, PaePlaces
<1>7. FrameTop
    <2>1. Half \in Half .. (Half + Len(use) + 4) /\ Half <= Half + 3
        BY <1>1, <1>2, <1>4
    <2>2. QED
        BY <1>2, <2>1 DEF FrameTop
<1>8. FramesGivenOnce /\ AreaOrder
    BY <1>2, <1>4 DEF FramesGivenOnce, AreaOrder
<1>9. GivenOut /\ TableOrder /\ CodeMapped
    BY <1>2, <1>4 DEF GivenOut, Given, TableOrder, CodeMapped
<1>10. Copies
    BY <1>2, NoCopies
<1>11. QED
    BY <1>2, <1>5, <1>6, <1>7, <1>8, <1>9, <1>10 DEF PaeInv

\* init_rsdt_v1 comes first and takes at most two frames.
LEMMA MapRsdtStep ==
    ASSUME PaeInv, FirstFrames, stage = "multiboot",
           NEW pages \in 1 .. 2, MapRsdt(pages)
    PROVE  PaeInv'
<1>1. /\ pae = "bitmap"
      /\ UNCHANGED <<pae, old, use, table, new, root, eip, identity>>
    BY DEF MapRsdt
<1>2. Half \in Nat /\ HeapPages \in Nat /\ Len(use) = 0 /\ frames = 0 .. Half
    BY <1>1, PaeSwitchAssumption DEF PaeInv, GivenOut, Given, FirstFrames, Boot
<1>3. ASSUME NEW marked \in Mapped(frames)
      PROVE  marked = 0 .. Half \/ marked = 0 .. (Half + 1)
    BY <1>2, <1>3, MappedFrames
<1>4. ASSUME NEW marked \in Mapped(0 .. (Half + 1))
      PROVE  marked = 0 .. (Half + 1) \/ marked = 0 .. (Half + 2)
    <2> DEFINE h == Half + 1
    <2>1. h \in Nat /\ h < 2 * Half + HeapPages + 30
        BY <1>2
    <2> HIDE DEF h
    <2>2. marked \in Mapped(0 .. h)
        BY <1>4 DEF h
    <2>3. marked = 0 .. h \/ marked = 0 .. (h + 1)
        BY <2>1, <2>2, MappedFrames
    <2>4. h + 1 = Half + 2
        BY <1>2 DEF h
    <2>5. QED
        BY <2>3, <2>4 DEF h
<1>5. PICK marked \in Mapped(frames) : frames' = marked \/ frames' \in Mapped(marked)
    BY DEF MapRsdt
<1>6. \E k \in Half .. (Half + 2) : frames' = 0 .. k
    <2>1. /\ Half \in Half .. (Half + 2) /\ Half + 1 \in Half .. (Half + 2)
          /\ Half + 2 \in Half .. (Half + 2)
        BY <1>2
    <2>2. \/ frames' = 0 .. Half \/ frames' = 0 .. (Half + 1)
          \/ frames' = 0 .. (Half + 2)
        BY <1>2, <1>3, <1>4, <1>5
    <2>3. QED
        BY <2>1, <2>2
<1>7. FrameTop'
    <2>1. PICK k \in Half .. (Half + 2) : frames' = 0 .. k
        BY <1>6
    <2>2. k \in Half .. (Half + Len(use') + 4) /\ k <= Half + 3
        BY <1>1, <1>2, <2>1
    <2>3. QED
        BY <2>1, <2>2 DEF FrameTop
<1>8. PaeTypes' /\ AreaOrder' /\ TableOrder' /\ GivenOut' /\ Copies' /\ CodeMapped'
    BY <1>1 DEF PaeInv, PaeTypes, AreaOrder, TableOrder, GivenOut, Given, Copies,
                CopiedSoFar, CodeMapped
<1>9. FramesGivenOnce'
    BY <1>1, <1>2 DEF FramesGivenOnce
<1>10. QED
    BY <1>1, <1>7, <1>8, <1>9 DEF PaeInv

\* transfer_dynamic, vmm_transfer_dynamic and the directories of init_pae: a
\* page of the kernel's own.
LEMMA KernelPages ==
    ASSUME PaeInv, transfer_dynamic \/ vmm_transfer_dynamic \/ MakeDirectories
    PROVE  PaeInv'
<1>0. PaeTypes /\ FramesGivenOnce /\ new \in [Names -> Seq(Int)]
    BY DEF PaeInv, PaeTypes
<1>1. HeapPages \in Nat /\ Given \in Nat /\ GivenOut /\ TableOrder
    BY <1>0, PaeSwitchAssumption DEF PaeInv, PaeTypes, Given
<1>2. /\ root' = root /\ new' = new /\ table' = table
      /\ page_kalloc(pae)
      /\ \/ pae = "bitmap" /\ pae' = "store"
         \/ pae = "store" /\ pae' = "heap"
         \/ pae = "pdpt" /\ pae' = "identity_pd"
         \/ pae = "identity_pd" /\ pae' = "identity_pt"
         \/ pae = "identity_pt" /\ pae' = "new_pd"
         \/ pae = "new_pd" /\ pae' = "first_half"
    BY DEF transfer_dynamic, vmm_transfer_dynamic, MakeDirectories
<1>3. /\ FrameTop /\ root # "new" /\ table = 1
      /\ pae \in Uses /\ pae' \in PaePlaces /\ pae' \notin {"switch", "done"}
    BY <1>2 DEF PaeInv, TableOrder, Uses, PaePlaces
<1>4. \/ pae = "bitmap" /\ pae' = "store" /\ Given = 0
      \/ pae = "store" /\ pae' = "heap" /\ Given = 1
      \/ pae = "pdpt" /\ pae' = "identity_pd" /\ Given = HeapPages + 4
      \/ pae = "identity_pd" /\ pae' = "identity_pt" /\ Given = HeapPages + 5
      \/ pae = "identity_pt" /\ pae' = "new_pd" /\ Given = HeapPages + 6
      \/ pae = "new_pd" /\ pae' = "first_half" /\ Given = HeapPages + 7
    BY <1>1, <1>2 DEF GivenOut
<1>5. AreaGrows(pae)
    <2>1. Given <= HeapPages + 15
        BY <1>1, <1>4
    <2>2. QED
        BY <1>0, <1>2, <1>3, <2>1, PageKalloc
<1>6. Given' = Given + 1
    BY <1>5 DEF AreaGrows
<1>7. GivenOut'
    <2>1. HeapPages \in Nat /\ table' = 1
        BY <1>1, <1>2, <1>3
    <2>2. QED
        BY <1>4, <1>6, <2>1 DEF GivenOut
<1>8. TableOrder'
    BY <1>1, <1>2, <1>3 DEF TableOrder
<1>9. Copies'
    BY <1>2, <1>3, NoCopiesAfter
<1>10. /\ pae \in Needed => Given < HeapPages + 5
       /\ Given < HeapPages + 2 => (pae = "heap" <=> Given >= 2)
    BY <1>1, <1>4 DEF Needed
<1>11. QED
    BY <1>0, <1>2, <1>3, <1>5, <1>7, <1>8, <1>9, <1>10, GrowStep

\* init_heap takes page after page until the heap has all of its own.
LEMMA HeapGrows ==
    ASSUME PaeInv, init_heap
    PROVE  PaeInv'
<1>0. PaeTypes /\ FramesGivenOnce /\ new \in [Names -> Seq(Int)]
    BY DEF PaeInv, PaeTypes
<1>1. HeapPages \in Nat /\ Given \in Nat /\ GivenOut /\ TableOrder
    BY <1>0, PaeSwitchAssumption DEF PaeInv, PaeTypes, Given
<1>2. /\ pae = "heap" /\ root' = root /\ new' = new /\ table' = table
      /\ \/ /\ Pages("heap") < HeapPages /\ page_kalloc("heap") /\ pae' = pae
         \/ /\ ~(Pages("heap") < HeapPages) /\ pae' = "lapic"
            /\ UNCHANGED <<old, use, frames>>
    BY DEF init_heap
<1>3. FrameTop /\ root # "new" /\ table = 1 /\ Given \in 2 .. (HeapPages + 2)
    BY <1>1, <1>2 DEF PaeInv, TableOrder, GivenOut
<1>4. Pages("heap") = Given - 2
    BY <1>2, HeapPagesCounted DEF Given
<1>5. CASE page_kalloc("heap") /\ pae' = pae /\ Pages("heap") < HeapPages
    <2>1. Given < HeapPages + 2 /\ Given <= HeapPages + 15
        BY <1>1, <1>3, <1>4, <1>5
    <2>2. AreaGrows("heap")
        <3>1. "heap" \in Uses /\ pae' \in PaePlaces
            BY <1>2, <1>5 DEF Uses, PaePlaces
        <3>2. QED
            BY <1>0, <1>2, <1>3, <1>5, <2>1, <3>1, PageKalloc
    <2>3. Given' = Given + 1
        BY <2>2 DEF AreaGrows
    <2>4. GivenOut'
        BY <1>1, <1>2, <1>3, <1>5, <2>1, <2>3 DEF GivenOut
    <2>5. TableOrder' /\ Copies'
        BY <1>1, <1>2, <1>3, <1>5, NoCopiesAfter DEF TableOrder
    <2>6. /\ Given < HeapPages + 5 /\ Given >= 2
          /\ pae' \notin {"switch", "done"} /\ new' \in [Names -> Seq(Int)]
        BY <1>0, <1>1, <1>2, <1>3, <1>5
    <2>7. QED
        BY <1>2, <1>3, <2>2, <2>4, <2>5, <2>6, GrowStep
<1>6. CASE pae' = "lapic" /\ UNCHANGED <<old, use, frames>>
           /\ ~(Pages("heap") < HeapPages)
    <2>1. Given = HeapPages + 2 /\ Given' = Given
        <3>1. Given' = Given
            BY <1>6 DEF Given
        <3>2. QED
            BY <1>1, <1>3, <1>4, <1>6, <3>1
    <2>2. GivenOut'
        BY <1>6, <2>1 DEF GivenOut
    <2>3. TableOrder' /\ Copies'
        BY <1>1, <1>2, <1>3, <1>6, NoCopiesAfter DEF TableOrder
    <2>4. PaeTypes' /\ FramesGivenOnce' /\ FrameTop' /\ AreaOrder'
        BY <1>0, <1>2, <1>3, <1>6
           DEF PaeInv, PaeTypes, PaePlaces, FramesGivenOnce, FrameTop, AreaOrder
    <2>5. QED
        BY <1>0, <1>2, <1>3, <1>6, <2>2, <2>3, <2>4 DEF PaeInv, CodeMapped
<1>7. QED
    BY <1>2, <1>5, <1>6

\* The pages of the local and the I/O APIC.
LEMMA DevicePages ==
    ASSUME PaeInv, MapLapic \/ MapIoapic
    PROVE  PaeInv'
<1>0. PaeTypes /\ FramesGivenOnce /\ new \in [Names -> Seq(Int)]
    BY DEF PaeInv, PaeTypes
<1>1. HeapPages \in Nat /\ Given \in Nat /\ GivenOut /\ TableOrder
    BY <1>0, PaeSwitchAssumption DEF PaeInv, PaeTypes, Given
<1>2. /\ root' = root /\ new' = new /\ table' = table
      /\ \E marked \in Mapped(frames) : page_kalloc_device(pae, marked)
      /\ \/ pae = "lapic" /\ pae' = "ioapic"
         \/ pae = "ioapic" /\ pae' = "cpuid"
    BY DEF MapLapic, MapIoapic, Mapped
<1>3. /\ FrameTop /\ root # "new" /\ table = 1
      /\ pae \in Uses /\ pae' \in PaePlaces /\ pae' \notin {"switch", "done"}
    BY <1>2 DEF PaeInv, TableOrder, Uses, PaePlaces
<1>4. \/ pae = "lapic" /\ pae' = "ioapic" /\ Given = HeapPages + 2
      \/ pae = "ioapic" /\ pae' = "cpuid" /\ Given = HeapPages + 3
    BY <1>1, <1>2 DEF GivenOut
<1>5. AreaGrows(pae)
    <2>1. Given > 0 /\ Given <= HeapPages + 15
        BY <1>1, <1>4
    <2>2. QED
        BY <1>0, <1>2, <1>3, <2>1, PageKallocDevice
<1>6. Given' = Given + 1
    BY <1>5 DEF AreaGrows
<1>7. GivenOut'
    BY <1>1, <1>4, <1>6 DEF GivenOut
<1>8. TableOrder' /\ Copies'
    BY <1>1, <1>2, <1>3, NoCopiesAfter DEF TableOrder
<1>9. /\ pae \in Needed => Given < HeapPages + 5
      /\ Given < HeapPages + 2 => (pae = "heap" <=> Given >= 2)
    BY <1>1, <1>4 DEF Needed
<1>10. QED
    BY <1>0, <1>2, <1>3, <1>5, <1>7, <1>8, <1>9, GrowStep

LEMMA CheckPaeStep ==
    ASSUME PaeInv, CheckPae
    PROVE  PaeInv'
<1>1. /\ pae = "cpuid" /\ pae' \in {"pdpt", "panic"}
      /\ UNCHANGED <<frames, old, use, table, new, root, eip, identity>>
    BY DEF CheckPae
<1>2. table = 1 /\ table' = 1 /\ root # "new"
    BY <1>1 DEF PaeInv, TableOrder
<1>3. Copies'
    BY <1>1, <1>2, NoCopiesAfter
<1>4. TableOrder' /\ GivenOut'
    BY <1>1, <1>2 DEF PaeInv, TableOrder, GivenOut, Given
<1>5. PaeTypes' /\ FramesGivenOnce' /\ FrameTop' /\ AreaOrder'
    BY <1>1 DEF PaeInv, PaeTypes, PaePlaces, FramesGivenOnce, FrameTop,
                AreaOrder
<1>6. QED
    BY <1>1, <1>2, <1>3, <1>4, <1>5 DEF PaeInv, CodeMapped

-----------------------------------------------------------------------------
(* The copies and the switch.                                              *)

LEMMA FirstHalfOf ==
    ASSUME NEW s \in Seq(Int)
    PROVE  /\ FirstHalf(s) \in Seq(Int)
           /\ \A n \in 1 .. Len(s) : n <= Half =>
                 n \in DOMAIN FirstHalf(s) /\ FirstHalf(s)[n] = s[n]
           /\ Len(s) <= Half => FirstHalf(s) = s
<1> DEFINE l == IF Len(s) < Half THEN Len(s) ELSE Half
<1>1. Half \in Nat /\ Len(s) \in Nat /\ l \in 0 .. Len(s)
    BY PaeSwitchAssumption
<1>2. FirstHalf(s) = SubSeq(s, 1, l)
    BY DEF FirstHalf
<1>3. \A n \in 1 .. Len(s) : n <= Half => n \in 1 .. l
    BY <1>1
<1>4. Len(s) <= Half => l = Len(s)
    BY <1>1
<1> HIDE DEF l
<1>5. /\ SubSeq(s, 1, l) \in Seq(Int) /\ Len(SubSeq(s, 1, l)) = l
      /\ \A n \in 1 .. l : SubSeq(s, 1, l)[n] = s[n]
    BY <1>1
<1>6. l = Len(s) => SubSeq(s, 1, l) = s
    BY <1>1, <1>5
<1>7. QED
    BY <1>1, <1>2, <1>3, <1>4, <1>5, <1>6

\* The names of the tables in the order in which they are copied.
LEMMA TableNames ==
    /\ Tables[1] = "image" /\ Tables[2] = "area"
    /\ Tables[3] = "temp" /\ Tables[4] = "self"
    /\ Len(Tables) = 4
BY DEF Tables

\* The first half of a table is copied when the page for it is there: the page
\* of the new table itself is among the ones copied or behind them.
LEMMA FirstHalfStep ==
    ASSUME PaeInv, CopyFirstHalf
    PROVE  PaeInv'
<1>0. PaeTypes /\ FramesGivenOnce /\ new \in [Names -> Seq(Int)] /\ Copies
    BY DEF PaeInv, PaeTypes
<1>1. /\ HeapPages \in Nat /\ Half \in Nat /\ Half >= HeapPages + 5
      /\ Given \in Nat /\ GivenOut /\ table \in 1 .. 4
    BY <1>0, PaeSwitchAssumption DEF PaeInv, PaeTypes, Given, TableOrder
<1>2. /\ pae = "first_half" /\ pae' = "second_half"
      /\ root' = root /\ table' = table
      /\ page_kalloc("new_table")
      /\ new' = [new EXCEPT ![Tables[table]] = FirstHalf(old'[Tables[table]])]
    BY DEF CopyFirstHalf
<1>3. FrameTop /\ root # "new" /\ Given = HeapPages + 6 + 2 * table
    BY <1>1, <1>2 DEF PaeInv, GivenOut
<1>4. AreaGrows("new_table")
    <2>1. /\ Given <= HeapPages + 15
          /\ "new_table" \in Uses /\ pae' \in PaePlaces
        BY <1>1, <1>2, <1>3 DEF Uses, PaePlaces
    <2>2. QED
        BY <1>0, <1>2, <1>3, <2>1, PageKalloc
<1>5. /\ Given' = Given + 1
      /\ old' \in [Names -> Seq(Int)]
      /\ Len(old'["area"]) = Given'
      /\ old'["image"] = old["image"] /\ old'["temp"] = old["temp"]
      /\ \A n \in 1 .. Given : old'["area"][n] = old["area"][n]
      /\ Len(old'["image"]) = Half /\ Len(old'["temp"]) = 1
    <2>1. PaeTypes' /\ Given' = Given + 1
        BY <1>4 DEF AreaGrows
    <2>2. /\ old' \in [Names -> Seq(Int)]
          /\ Len(old'["area"]) = Given'
          /\ old'["image"] = [n \in 1 .. Half |-> n - 1]
          /\ old'["temp"] = <<Half>>
        BY <2>1 DEF PaeTypes, Given
    <2>3. Len(old'["image"]) = Half /\ Len(old'["temp"]) = 1
        BY <1>1, <2>2
    <2>4. QED
        BY <1>4, <2>1, <2>2, <2>3 DEF AreaGrows, Given
<1>6. \A t \in Names : /\ FirstHalf(old'[t]) \in Seq(Int)
                       /\ Len(old'[t]) <= Half => FirstHalf(old'[t]) = old'[t]
    BY <1>5, FirstHalfOf
<1>7. Tables[table] \in Names
    BY <1>1, TableNames DEF Names
<1>8. new' \in [Names -> Seq(Int)]
    BY <1>0, <1>2, <1>6, <1>7
<1>9. GivenOut'
    BY <1>1, <1>2, <1>3, <1>5 DEF GivenOut
<1>10. TableOrder'
    BY <1>1, <1>2 DEF TableOrder
<1>11. \A t \in Names : new'[t] = IF t = Tables[table] THEN FirstHalf(old'[t])
                                  ELSE new[t]
    BY <1>0, <1>2, <1>7
<1>12. Copies'
    <2>1. new'["image"] = old'["image"]
        <3>1. CASE table = 1
            <4>1. new'["image"] = FirstHalf(old'["image"])
                BY <1>11, <3>1, TableNames DEF Names
            <4>2. Len(old'["image"]) <= Half /\ "image" \in Names
                BY <1>1, <1>5 DEF Names
            <4>3. QED
                BY <1>6, <4>1, <4>2
        <3>2. CASE table \in 2 .. 4
            <4>1. CopiedSoFar(1) /\ "image" # Tables[table]
                BY <3>2, TableNames DEF CopiedSoFar
            <4>2. QED
                BY <1>0, <1>5, <1>11, <4>1 DEF Copies, Names
        <3>3. QED
            BY <1>1, <3>1, <3>2
    <2>2. ASSUME CopiedSoFar(2)', NEW n \in 1 .. (HeapPages + 5)
          PROVE  n \in DOMAIN new'["area"] /\ new'["area"][n] = old'["area"][n]
        <3>1. table \in 2 .. 4
            BY <1>1, <1>2, <2>2 DEF CopiedSoFar
        <3>2. CASE table = 2
            <4>1. new'["area"] = FirstHalf(old'["area"])
                BY <1>11, <3>2, TableNames DEF Names
            <4>2. n \in 1 .. Len(old'["area"]) /\ n <= Half
                BY <1>1, <1>3, <1>5, <3>2
            <4>3. old'["area"] \in Seq(Int)
                BY <1>5 DEF Names
            <4>4. QED
                BY <4>1, <4>2, <4>3, FirstHalfOf
        <3>3. CASE table \in 3 .. 4
            <4>1. CopiedSoFar(2) /\ "area" # Tables[table]
                BY <3>3, TableNames DEF CopiedSoFar
            <4>2. new'["area"] = new["area"]
                BY <1>11, <4>1 DEF Names
            <4>3. n \in DOMAIN new["area"] /\ new["area"][n] = old["area"][n]
                BY <1>0, <4>1 DEF Copies
            <4>4. n \in 1 .. Given
                BY <1>1, <1>3, <3>3
            <4>5. QED
                BY <1>5, <4>2, <4>3, <4>4
        <3>4. QED
            BY <3>1, <3>2, <3>3
    <2>3. ASSUME CopiedSoFar(3)'
          PROVE  new'["temp"] = old'["temp"]
        <3>1. table \in 3 .. 4
            BY <1>1, <1>2, <2>3 DEF CopiedSoFar
        <3>2. CASE table = 3
            <4>1. new'["temp"] = FirstHalf(old'["temp"])
                BY <1>11, <3>2, TableNames DEF Names
            <4>2. Len(old'["temp"]) <= Half /\ "temp" \in Names
                BY <1>1, <1>5 DEF Names
            <4>3. QED
                BY <1>6, <4>1, <4>2
        <3>3. CASE table = 4
            <4>1. CopiedSoFar(3) /\ "temp" # Tables[table]
                BY <3>3, TableNames DEF CopiedSoFar
            <4>2. QED
                BY <1>0, <1>5, <1>11, <4>1 DEF Copies, Names
        <3>4. QED
            BY <3>1, <3>2, <3>3
    <2>4. QED
        BY <2>1, <2>2, <2>3 DEF Copies
<1>13. /\ "new_table" \notin Needed /\ ~(Given < HeapPages + 2)
       /\ pae' \notin {"switch", "done"}
    BY <1>1, <1>2, <1>3 DEF Needed
<1>14. QED
    BY <1>2, <1>3, <1>4, <1>8, <1>9, <1>10, <1>12, <1>13, GrowStep

LEMMA SecondHalfStep ==
    ASSUME PaeInv, CopySecondHalf
    PROVE  PaeInv'
<1>0. PaeTypes /\ FramesGivenOnce /\ new \in [Names -> Seq(Int)] /\ Copies
    BY DEF PaeInv, PaeTypes
<1>1. /\ HeapPages \in Nat /\ Given \in Nat /\ GivenOut /\ table \in 1 .. 4
    BY <1>0, PaeSwitchAssumption DEF PaeInv, PaeTypes, Given, TableOrder
<1>2. /\ pae = "second_half" /\ root' = root /\ new' = new
      /\ page_kalloc("new_table")
      /\ \/ table = 4 /\ table' = table /\ pae' = "identity"
         \/ table # 4 /\ table' = table + 1 /\ pae' = "first_half"
    BY TableNames DEF CopySecondHalf
<1>3. FrameTop /\ root # "new" /\ Given = HeapPages + 7 + 2 * table
    BY <1>1, <1>2 DEF PaeInv, GivenOut
<1>4. AreaGrows("new_table")
    <2>1. /\ Given <= HeapPages + 15
          /\ "new_table" \in Uses /\ pae' \in PaePlaces
        BY <1>1, <1>2, <1>3 DEF Uses, PaePlaces
    <2>2. QED
        BY <1>0, <1>2, <1>3, <2>1, PageKalloc
<1>5. /\ Given' = Given + 1
      /\ old'["image"] = old["image"] /\ old'["temp"] = old["temp"]
      /\ \A n \in 1 .. Given : old'["area"][n] = old["area"][n]
    BY <1>4 DEF AreaGrows, Given
<1>6. GivenOut'
    BY <1>1, <1>2, <1>3, <1>5 DEF GivenOut
<1>7. TableOrder'
    BY <1>1, <1>2 DEF TableOrder
<1>8. Copies'
    <2>1. /\ CopiedSoFar(1)' => CopiedSoFar(1)
          /\ CopiedSoFar(2)' => CopiedSoFar(2)
          /\ CopiedSoFar(3)' => CopiedSoFar(3)
        BY <1>1, <1>2 DEF CopiedSoFar
    <2>2. \A n \in 1 .. (HeapPages + 5) : n \in 1 .. Given
        BY <1>1, <1>3
    <2>3. QED
        BY <1>0, <1>2, <1>5, <2>1, <2>2 DEF Copies
<1>9. /\ "new_table" \notin Needed /\ ~(Given < HeapPages + 2)
      /\ pae' \notin {"switch", "done"} /\ new' \in [Names -> Seq(Int)]
    BY <1>0, <1>1, <1>2, <1>3 DEF Needed
<1>10. QED
    BY <1>2, <1>3, <1>4, <1>6, <1>7, <1>8, <1>9, GrowStep

\* Two pages are enough for code of up to 3 KiB: rounding its start down to a
\* KiB loses its first page never, and the second one is mapped whenever the
\* code can reach it.
LEMMA CodeInTwoPages ==
    ASSUME NEW e \in Nat, NEW u \in e .. (e + CodeEnd)
    PROVE  PageOf(u) \in IdentityPages(e)
<1>1. CodeEnd \in 1 .. 12
    BY PaeSwitchAssumption DEF PageUnits, Align
<1>2. PICK p \in Nat, r \in 0 .. 15 : e = 16 * p + r /\ e \div 16 = p
    <2> DEFINE q == e \div 16
    <2>1. q \in Nat /\ 16 * q <= e /\ e <= 16 * q + 15
        OBVIOUS
    <2>2. e - 16 * q \in 0 .. 15 /\ e = 16 * q + (e - 16 * q)
        BY <2>1
    <2>3. QED
        BY <2>1, <2>2
<1>3. u \div 16 \in {p, p + 1}
    BY <1>1, <1>2
<1> DEFINE d == (e \div 4) * 4
<1>4. d \in Int /\ d >= 16 * p /\ d <= e /\ e <= d + 3
    BY <1>2
<1> HIDE DEF d
<1>5. d \div 16 = p
    BY <1>2, <1>4
<1>6. u \div 16 = p + 1 => ((d + 15) \div 16) * 16 = 16 * (p + 1)
    <2> SUFFICES ASSUME u \div 16 = p + 1
                 PROVE  ((d + 15) \div 16) * 16 = 16 * (p + 1)
        OBVIOUS
    <2>1. u >= 16 * (p + 1)
        BY <1>1, <1>2
    <2>2. d >= 16 * p + 1
        BY <1>1, <1>2, <1>4, <2>1
    <2>3. (d + 15) \div 16 = p + 1
        BY <1>2, <1>4, <2>2
    <2>4. QED
        BY <1>2, <2>3
<1>7. (16 * (p + 1)) \div 16 = p + 1
    BY <1>2
<1>8. /\ RoundDown(e) = d /\ PageOf(d) = d \div 16 /\ PageOf(u) = u \div 16
      /\ RoundUp(d) = ((d + 15) \div 16) * 16
    BY <1>4 DEF RoundDown, RoundUp, PageOf, PageUnits, Align, d
<1>9. QED
    BY <1>3, <1>5, <1>6, <1>7, <1>8 DEF IdentityPages, PageOf, PageUnits

LEMMA MapIdentityStep ==
    ASSUME PaeInv, MapIdentity
    PROVE  PaeInv'
<1>1. /\ pae = "identity" /\ pae' = "switch"
      /\ eip' \in 0 .. (2 * PageUnits - 1)
      /\ identity' = IdentityPages(eip')
      /\ frames \subseteq frames'
      /\ UNCHANGED <<old, use, table, new, root>>
    BY DEF MapIdentity, Mapped
<1>2. CodeMapped'
    <2>1. eip' \in Nat
        BY <1>1 DEF PageUnits
    <2>2. \A u \in eip' .. (eip' + CodeEnd) : PageOf(u) \in IdentityPages(eip')
        BY <2>1, CodeInTwoPages
    <2>3. QED
        BY <1>1, <2>2 DEF CodeMapped, PageOf, PageUnits
<1>3. PaeTypes' /\ AreaOrder' /\ TableOrder' /\ GivenOut' /\ root' # "new"
    BY <1>1 DEF PaeInv, PaeTypes, PaePlaces, AreaOrder, TableOrder, GivenOut,
                Given
<1>4. Copies'
    BY <1>1 DEF PaeInv, Copies, CopiedSoFar
<1>5. FramesGivenOnce'
    BY <1>1 DEF PaeInv, FramesGivenOnce
<1>6. QED
    BY <1>1, <1>2, <1>3, <1>4, <1>5 DEF PaeInv

LEMMA SwitchStep ==
    ASSUME PaeInv, Switch
    PROVE  PaeInv'
<1>1. /\ pae = "switch" /\ pae' = "done"
      /\ UNCHANGED <<frames, old, use, table, new>>
    BY DEF Switch
<1>2. PaeTypes' /\ AreaOrder' /\ TableOrder' /\ GivenOut'
    BY <1>1 DEF PaeInv, PaeTypes, PaePlaces, AreaOrder, TableOrder, GivenOut,
                Given
<1>3. Copies'
    BY <1>1 DEF PaeInv, Copies, CopiedSoFar
<1>4. FramesGivenOnce' /\ CodeMapped'
    BY <1>1 DEF PaeInv, FramesGivenOnce, CodeMapped
<1>5. QED
    BY <1>1, <1>2, <1>3, <1>4 DEF PaeInv

LEMMA FirstFramesStep ==
    ASSUME FirstFrames, [Next]_vars
    PROVE  FirstFrames'
<1>1. CASE UNCHANGED vars
    BY <1>1 DEF vars, paeVars, FirstFrames, Boot
<1>2. CASE Next
    <2>1. stage' # "multiboot"
        BY <1>2 DEF Next, init_multiboot, init_rsdt_v1, Memory, cache_tables,
           cache_sdt_by_signature, AfterFault, Apic, Pae, init_framebuffer,
           ScreenType, test_pci, Dialogue, Then
    <2>2. QED
        BY <2>1 DEF FirstFrames
<1>3. QED
    BY <1>1, <1>2

LEMMA PaeInvStep ==
    ASSUME PaeInv, FirstFrames, [Next]_vars
    PROVE  PaeInv'
<1>1. CASE UNCHANGED paeVars
    <2>1. UNCHANGED <<pae, frames, old, use, table, new, root, eip, identity>>
        BY <1>1 DEF paeVars
    <2>2. PaeTypes' = PaeTypes /\ FrameTop' = FrameTop
        BY <2>1 DEF PaeTypes, FrameTop
    <2>3. FramesGivenOnce' = FramesGivenOnce
        BY <2>1 DEF FramesGivenOnce
    <2>4. GivenOut' = GivenOut /\ AreaOrder' = AreaOrder
        BY <2>1 DEF GivenOut, Given, AreaOrder
    <2>5. TableOrder' = TableOrder /\ Copies' = Copies
        BY <2>1 DEF TableOrder, Copies, CopiedSoFar
    <2>6. CodeMapped' = CodeMapped
        BY <2>1 DEF CodeMapped
    <2>7. QED
        BY <2>1, <2>2, <2>3, <2>4, <2>5, <2>6 DEF PaeInv
<1>2. CASE PaeOver
    <2>1. PaeInit'
        BY <1>2 DEF PaeOver, PaeInit
    <2>2. PaeInit' => PaeInv'
        BY PaeInvInit, PTL
    <2>3. QED
        BY <2>1, <2>2
<1>3. QED
    BY <1>1, <1>2, PaeStep, MapRsdtStep, KernelPages, HeapGrows, DevicePages,
       CheckPaeStep, FirstHalfStep, SecondHalfStep, MapIdentityStep, SwitchStep
       DEF init_pae, transfer_pages_to_pae

-----------------------------------------------------------------------------
(* The theorems.                                                           *)

LEMMA PaeAlways == Spec => []PaeInv
<1>1. Init => PaeInv /\ FirstFrames
    <2>1. Init => FirstFrames
        BY DEF Init, PaeInit, FirstFrames
    <2>2. QED
        BY <2>1, PaeInvInit DEF Init
<1>2. PaeInv /\ FirstFrames /\ [Next]_vars => PaeInv' /\ FirstFrames'
    BY PaeInvStep, FirstFramesStep
<1>3. QED
    BY <1>1, <1>2, PTL DEF Spec

\* get_first_frame and the two bitmaps: no frame is given to two pages of the
\* dynamic area and none of the image is given out, for every size of the heap.
THEOREM EachFrameGivenOnce == Spec => []FramesGivenOnce
<1>1. PaeInv => FramesGivenOnce
    BY DEF PaeInv
<1>2. QED
    BY <1>1, PaeAlways, PTL

\* init_pae: every page the kernel still points to leads to the same frame in
\* the new tables as in the old, and the code of the switch is mapped wherever
\* it lies, for every heap that with the five pages beside it fits half a table.
THEOREM SwitchKeepsPages == Spec => []PagesKept
<1>1. PaeInv => PagesKept
    <2> SUFFICES ASSUME PaeInv PROVE PagesKept
        OBVIOUS
    <2>1. pae = "switch" =>
             \A u \in eip .. (eip + CodeEnd) : PageOf(u) \in identity
        BY DEF PaeInv, CodeMapped
    <2>2. ASSUME root = "new"
          PROVE  /\ \A n \in 1 .. Len(use) : use[n] \in Needed =>
                      n \in DOMAIN new["area"] /\ new["area"][n] = old["area"][n]
                 /\ \A t \in {"image", "temp"} : new[t] = old[t]
        <3>1. CopiedSoFar(1) /\ CopiedSoFar(2) /\ CopiedSoFar(3)
            BY <2>2 DEF PaeInv, TableOrder, CopiedSoFar
        <3>2. \A n \in 1 .. Len(use) :
                 use[n] \in Needed => n \in 1 .. (HeapPages + 5)
            BY PaeSwitchAssumption DEF PaeInv, AreaOrder
        <3>3. QED
            BY <3>1, <3>2 DEF PaeInv, Copies
    <2>3. QED
        BY <2>1, <2>2 DEF PagesKept
<1>2. QED
    BY <1>1, PaeAlways, PTL
=============================================================================
