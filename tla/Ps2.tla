-------------------------------- MODULE Ps2 --------------------------------
(***************************************************************************)
(* init_keyboard (kernel/drivers/keyboard.c) with the helpers of ps2.c: a  *)
(* dialogue with the 8042 controller through two ports.                    *)
(*                                                                         *)
(* A byte is the set of its bits.  The controller is one record, and a     *)
(* stretch of the driver between two points where it can be told apart     *)
(* from outside is one action.  ps2_send_dbyte writes both its bytes to    *)
(* the command port, so the byte that 0x60 waits for does not come before  *)
(* the next write to the data port, whatever that write is for.            *)
(*                                                                         *)
(* Controllers differ, and the model leaves the difference open: a second  *)
(* port or none (both), a mouse or none, whether another command cancels   *)
(* the 0x60 that waits (keeps), whether unread answers queue up or are     *)
(* replaced (fifo), whether its memory can be read and written by commands *)
(* (ram), and whether it may take so long that a read that does not wait   *)
(* sees the last byte again and a write that waits gives up (slow).  There *)
(* may be no controller, and one that is there may fall silent.            *)
(***************************************************************************)
EXTENDS Integers, Sequences

VARIABLES
    kbd,        \* how far init_keyboard has come
    chip,       \* the controller
    dual, dchannel, stat_reg,
    keyIrqOn,   \* the I/O APIC entry of the keyboard is set
    disturbed   \* history: what line 232 reads may be another byte

ps2Vars == <<kbd, chip, dual, dchannel, stat_reg, keyIrqOn, disturbed>>

Byte == SUBSET (0 .. 7)
ACK == {1, 3, 4, 5, 6, 7}         \* 0xFA
RESEND == {1, 2, 3, 4, 5, 6, 7}   \* 0xFE
PASSED == {1, 3, 5, 7}            \* 0xAA
FF == 0 .. 7
F0 == {4, 5, 6, 7}
Key == {1, 2, 3, 4}               \* 0x1E, the make code of A

\* What the firmware leaves: translation on, the self test passed, interrupts
\* on or off.  A chip with memory commands has one byte of output.
Chips == {c \in [config : {{0, 1, 2, 6}, {2, 5, 6}}, pending : {"none"},
                 answers : {<<>>}, keys : {<<>>}, aux : {<<>>}, last : {{}},
                 arg : {FALSE}, both : BOOLEAN, mouse : BOOLEAN, keeps : BOOLEAN,
                 fifo : BOOLEAN, ram : BOOLEAN, slow : BOOLEAN] :
             (c.mouse => c.both) /\ (c.ram => ~c.fifo)}

NoChip == [config |-> {}, keys |-> <<>>]   \* before the first command

Ps2Init ==
    /\ kbd = "disable"
    /\ chip = NoChip
    /\ dual = FALSE
    /\ dchannel = {}
    /\ stat_reg = {}
    /\ keyIrqOn = FALSE
    /\ disturbed = FALSE

-----------------------------------------------------------------------------
(* The controller and the keyboard.                                        *)

Answer(c, bytes) ==
    [c EXCEPT !.answers = IF c.fifo THEN @ \o bytes ELSE IF bytes = <<>> THEN @
                          ELSE bytes]

\* What a command does to the configuration,
Ports(c, cmd) ==
    CASE cmd = "AD" -> c.config \union {4}
      [] cmd = "AE" -> c.config \ {4}
      [] cmd = "A7" -> c.config \union {5}
      [] cmd = "A8" /\ c.both -> c.config \ {5}
      [] OTHER -> c.config

\* what the next byte at the data port is for (another command may cancel the
\* one that waits),
Wanted(c, cmd) ==
    CASE cmd = "60" -> "config"
      [] cmd = "D4" -> "aux"
      [] cmd = "write_ram" /\ c.ram -> "ram"
      [] OTHER -> IF c.keeps THEN c.pending ELSE "none"

\* and what it is answered with.
Reply(c, cmd) ==
    CASE cmd = "20" -> <<c.config>>
      [] cmd = "AA" -> <<{0, 2, 4, 6}>>
      [] cmd \in {"AB", "A9"} \/ (cmd = "read_ram" /\ c.ram) -> <<{}>>
      [] OTHER -> <<>>

\* outportb(0x64, cmd).
Cmd(c, cmd) ==
    Answer([c EXCEPT !.config = Ports(c, cmd), !.pending = Wanted(c, cmd)],
           Reply(c, cmd))

\* The command that a configuration byte is.  It has no bit 7; 0x20 to 0x3F
\* read the controller's memory and 0x60 to 0x7F write to it, the first of each
\* being the configuration.
AsCommand(byte) ==
    CASE byte = {5} -> "20"
      [] byte = {5, 6} -> "60"
      [] byte \intersect {5, 6} = {5} -> "read_ram"
      [] byte \intersect {5, 6} = {5, 6} -> "write_ram"
      [] OTHER -> "none"

\* A byte for the keyboard turns its port on again.
ToKeyboard(c, byte) ==
    [c EXCEPT !.config = @ \ {4},
              !.arg = byte = F0,
              !.keys = @ \o (CASE byte = FF -> <<ACK, PASSED>>
                               [] byte = F0 \/ c.arg -> <<ACK>>
                               [] OTHER -> <<RESEND>>)]

ToMouse(c) ==
    [c EXCEPT !.config = @ \ {5}, !.pending = "none",
              !.aux = IF c.mouse THEN @ \o <<ACK, PASSED, {}>> ELSE @]

\* outportb(0x60, byte).
Data(c, byte) ==
    CASE c.pending = "config" -> [c EXCEPT !.config = byte, !.pending = "none"]
      [] c.pending = "aux" -> ToMouse(c)
      [] c.pending = "ram" -> [c EXCEPT !.pending = "none"]
      [] OTHER -> ToKeyboard(c, byte)

\* inportb(0x60): <<controller, byte>>.  Which of several waiting bytes is in
\* the buffer is open; with none waiting the last one is read again.
Sources(c) == {f \in {"answers", "keys", "aux"} :
                  /\ c[f] # <<>>
                  /\ f = "keys" => 4 \notin c.config
                  /\ f = "aux" => 5 \notin c.config}
Taken(c) == {<<[c EXCEPT ![f] = Tail(@), !.last = Head(c[f])], Head(c[f])>> :
                f \in Sources(c)}

\* A read that does not look at the status first.
Reads(c) == Taken(c) \union
            (IF c.slow \/ Taken(c) = {} THEN {<<c, c.last>>} ELSE {})

\* ps2_get_responce_to: the byte in time or 0.
ps2_get_responce_to(c) == Taken(c) \union
            (IF c.slow \/ Taken(c) = {} THEN {<<c, {}>>} ELSE {})

-----------------------------------------------------------------------------
(* The driver.                                                             *)

Step(here, there) == kbd = here /\ kbd' = there

\* Both bytes go to the command port.
ps2_send_dbyte(c, byte) == Cmd(Cmd(c, "60"), AsCommand(byte))

\* Lines 81 and 88 wait without limit until a command can be written, and line
\* 60 until a byte can be read.  With no controller the status reads as 0xFF,
\* and the first of them does not end; with one that falls silent another.
Waits ==
    /\ kbd \in {"disable", "channels", "ports"}
    /\ kbd' = "stuck"
    /\ UNCHANGED <<chip, dual, dchannel, stat_reg, keyIrqOn, disturbed>>

\* Lines 116-128, with whatever controller there is.
DisableDevices ==
    /\ Step("disable", "channels")
    /\ \E c \in Chips :
       \E f \in Reads(Cmd(Cmd(c, "AD"), "A7")) :
       \E r \in Reads(Cmd(f[1], "20")) :
          chip' = ps2_send_dbyte(r[1], r[2] \intersect {1, 2, 3, 5, 7})
    /\ UNCHANGED <<dual, dchannel, stat_reg, keyIrqOn, disturbed>>

\* Lines 129-148.
CountChannels ==
    /\ Step("channels", "ports")
    /\ \E r \in Taken(Cmd(Cmd(Cmd(Cmd(chip, "20"), "AA"), "A8"), "20")) :
          /\ dual' = (5 \notin r[2])
          /\ dchannel' = IF dual' THEN r[2] \ {1, 5} ELSE r[2]
          /\ chip' = IF dual' THEN ps2_send_dbyte(Cmd(r[1], "A7"), dchannel')
                              ELSE r[1]
    /\ UNCHANGED <<stat_reg, keyIrqOn, disturbed>>

\* The tests of lines 152-160: <<controller, a port was counted>>.  That of the
\* first port is the wrong way round: 0 is the answer of a port that works.
Tested == UNION {IF dual
                 THEN {<<r2[1], r1[2] # {} \/ r2[2] = {}>> :
                          r2 \in Taken(Cmd(r1[1], "A9"))}
                 ELSE {<<r1[1], r1[2] # {}>>} : r1 \in Taken(Cmd(chip, "AB"))}

\* Lines 151-175.
TestPorts ==
    /\ kbd = "ports"
    /\ \E t \in Tested :
          IF t[2]
          THEN /\ kbd' = "reset"
               /\ dchannel' = dchannel \union (IF dual THEN {0, 1} ELSE {0})
               /\ chip' = ps2_send_dbyte(
                            Cmd(Cmd(t[1], "AE"), IF dual THEN "A8" ELSE "none"),
                            dchannel')
          ELSE kbd' = "scancodes" /\ chip' = t[1] /\ UNCHANGED dchannel
    /\ UNCHANGED <<dual, stat_reg, keyIrqOn, disturbed>>

\* The byte is sent, or the controller is busy for too long.
ps2_send_byte_port1(c, byte) == {Data(c, byte)} \union (IF c.slow THEN {c} ELSE {})

\* Lines 178-186.
ResetKeyboard ==
    /\ Step("reset", IF dual THEN "reset_mouse" ELSE "scancodes")
    /\ \E c \in ps2_send_byte_port1(chip, FF) :
       \E d \in ps2_send_byte_port1(c, FF) :
       \E r \in ps2_get_responce_to(d) :
          IF r[2] \notin {{}, 2 .. 7}
          THEN \E s \in Reads(r[1]) : chip' = s[1]
          ELSE chip' = r[1]
    /\ UNCHANGED <<dual, dchannel, stat_reg, keyIrqOn, disturbed>>

ps2_send_byte_port2(c, byte) == ps2_send_byte_port1(Cmd(c, "D4"), byte)

\* Lines 188-199.
ResetMouse ==
    /\ Step("reset_mouse", "scancodes")
    /\ \E c \in ps2_send_byte_port2(chip, FF) :
       \E d \in ps2_send_byte_port2(c, FF) :
       \E r \in ps2_get_responce_to(d) :
          IF r[2] \notin {{}, 2 .. 7}
          THEN \E s \in ps2_get_responce_to(r[1]) :
               \E t \in ps2_get_responce_to(s[1]) : chip' = t[1]
          ELSE chip' = r[1]
    /\ UNCHANGED <<dual, dchannel, stat_reg, keyIrqOn, disturbed>>

\* Lines 205-224.
CheckScancodes ==
    /\ kbd = "scancodes"
    /\ \E trans \in Reads(Cmd(chip, "20")) :
       \E ack \in Reads(Data(Data(trans[1], F0), {1})) :
       \E set \in Reads(ack[1]) :
          /\ chip' = set[1]
          /\ kbd' = IF trans[2] \intersect {6, 7} = {} /\ set[2] # {0, 1, 6}
                    THEN "panic" ELSE "ioapic"
    /\ UNCHANGED <<dual, dchannel, stat_reg, keyIrqOn, disturbed>>

\* Lines 226-231: from now on a byte in the buffer interrupts.  The answer is
\* late, or behind a byte that was not read.
RouteKeyboard ==
    /\ Step("ioapic", "config")
    /\ keyIrqOn' = TRUE
    /\ chip' = Cmd(chip, "20")
    /\ disturbed' = (chip.slow \/ Sources(chip) # {})
    /\ UNCHANGED <<dual, dchannel, stat_reg>>

\* Line 232.
ReadConfig ==
    /\ Step("config", "write")
    /\ \E r \in Reads(chip) : chip' = r[1] /\ stat_reg' = r[2]
    /\ UNCHANGED <<dual, dchannel, keyIrqOn, disturbed>>

BugSendsByHelper ==
    /\ Step("write", "done")
    /\ \E r \in Reads(ps2_send_dbyte(chip, stat_reg \union {0})) : chip' = r[1]
    /\ UNCHANGED <<dual, dchannel, stat_reg, keyIrqOn, disturbed>>

\* Lines 233-236.
WriteConfig ==
    /\ Step("write", "done")
    /\ \E r \in Reads(Data(Cmd(chip, "60"), stat_reg \union {0})) : chip' = r[1]
    /\ UNCHANGED <<dual, dchannel, stat_reg, keyIrqOn, disturbed>>

init_keyboard ==
    \/ Waits
    \/ DisableDevices
    \/ CountChannels
    \/ TestPorts
    \/ ResetKeyboard
    \/ ResetMouse
    \/ CheckScancodes
    \/ RouteKeyboard
    \/ ReadConfig
    \/ WriteConfig

\* Something happens between lines 231 and 232.
Disturb == disturbed' = (disturbed \/ kbd = "config")

\* handle_keychange reads the buffer, whatever is in it.
StealAnswer ==
    /\ keyIrqOn
    /\ 0 \in chip.config
    /\ \E r \in Taken(chip) : chip' = r[1]
    /\ Disturb
    /\ UNCHANGED <<kbd, dual, dchannel, stat_reg, keyIrqOn>>

\* A key is pressed while the port of the keyboard is on (bound: only when
\* the keyboard has nothing else to say).
KeyPressed ==
    /\ kbd \notin {"disable", "stuck"}
    /\ 4 \notin chip.config
    /\ chip.keys = <<>>
    /\ chip' = [chip EXCEPT !.keys = <<Key>>]
    /\ Disturb
    /\ UNCHANGED <<kbd, dual, dchannel, stat_reg, keyIrqOn>>

Ps2Next == init_keyboard \/ StealAnswer \/ KeyPressed

-----------------------------------------------------------------------------
(* Properties.                                                             *)

\* The keyboard's port is on and its scan codes are translated.
PortOn == 4 \notin chip.config /\ 6 \in chip.config

\* When the configuration is read for the last time the keyboard's port is on
\* and translates, with every kind of controller and although none of the
\* configuration bytes of ps2_send_dbyte has arrived where it should.  If that
\* read gets the answer it is for (no byte was left unread before it, no key
\* and no interrupt came between the command and the read, and the controller
\* is quick enough), init_keyboard also returns with the port on, translating,
\* and interrupting.
UsableUnlessDisturbed ==
    /\ kbd \in {"config", "write"} => PortOn
    /\ kbd = "done" /\ ~disturbed => PortOn /\ 0 \in chip.config
=============================================================================
