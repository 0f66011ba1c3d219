------------------------------ MODULE Terminal ------------------------------
(***************************************************************************)
(* The text of the terminal (kernel/programs/terminal.c): the text buffer  *)
(* with its scrolling, the line the user is editing, and what a key does   *)
(* to both, for a terminal that is the only one to print.  The kernel's    *)
(* own messages come first, while it starts.                               *)
(*                                                                         *)
(* A character is a letter, a space, the end of a line, 0 or the mark of a *)
(* colour escape, which takes three places in the buffer and none on the   *)
(* screen.                                                                 *)
(***************************************************************************)
EXTENDS Integers, Sequences, SequencesExt

CONSTANTS max_char_x, max_char_y,
          MaxBoot,       \* bound: messages the kernel prints at the start
          BootLengths,   \* their lengths, without a number or a colour
          MaxDigits,     \* bound: digits of a number
          MaxTyped,      \* bound: characters the user puts into a line
          ReplyLength,   \* the answer to a known command
          UnknownLength  \* the answer to another one, without the command

ASSUME TerminalAssumption ==
    /\ max_char_x \in 3 .. 127    \* parse_index is a signed char
    /\ max_char_y \in Nat \ {0}
    /\ ReplyLength \in Nat /\ UnknownLength \in Nat
    /\ MaxBoot \in Nat /\ BootLengths \subseteq Nat
    /\ MaxDigits \in Nat /\ MaxTyped \in Nat

Letter == "c"
Space == "sp"
NL == "nl"
End == "end"
Mark == "ff"
Characters == {Letter, Space, NL, End, Mark}

Size == max_char_x * max_char_y     \* the buffer has one place more

VARIABLES text,        \* text_buffer, textbuf_loc and cur_lines
          user_chars, user_char_index,
          typed,       \* history: the line as the user has edited it
          booted,      \* messages printed before the terminal starts
          term_ready   \* the terminal runs

vars == <<text, user_chars, user_char_index, typed, booted, term_ready>>

Places == 0 .. Size
Columns == 0 .. max_char_x

Init ==
    /\ text = [buf |-> [i \in Places |-> End], loc |-> 0, lines |-> 0,
               over |-> FALSE]
    /\ user_chars = [i \in Columns |-> IF i = 0 THEN Letter
                                       ELSE IF i = 1 THEN Space ELSE End]
    /\ user_char_index = 2
    /\ typed = <<>>
    /\ booted = 0
    /\ term_ready = FALSE

-----------------------------------------------------------------------------
(* The text buffer.                                                        *)

(* The definitions named Bug... are faulty variants: each stands for a slip *)
(* in the code that one of the properties below must notice.                *)

\* Lines 150-156: the search goes no further than one line of the screen.
EndFirstLine(buf) ==
    LET ends == {i \in 0 .. (max_char_x - 1) : buf[i] = NL}
    IN  IF ends = {} THEN 0 ELSE Min(ends) + 1

BugForgetsTheLine(t, n) == [t EXCEPT !.loc = @ - n]

\* Line 173 and line 175.
Shorter(t, n) == [t EXCEPT !.lines = @ - 1, !.loc = @ - n]

\* The first place from i on that holds 0; Size + 1 when there is none.
FirstEnd(buf, i) ==
    LET ends == {j \in Places : j >= i /\ buf[j] = End}
    IN  IF ends = {} THEN Size + 1 ELSE Min(ends)

\* What is left of the text moves to the front, and what it leaves behind is
\* cleared up to the first 0.
scroll_text_buffer_down(t) ==
    LET first == EndFirstLine(t.buf)
        stop == FirstEnd(t.buf, first)
        moved == (IF stop < Size THEN stop ELSE Size) - first
        shifted == [i \in Places |-> IF i < moved THEN t.buf[i + first]
                                     ELSE t.buf[i]]
        clean == FirstEnd(shifted, moved)
    IN  [Shorter(t, first) EXCEPT
            !.buf = [i \in Places |-> IF i \in moved .. (clean - 1) THEN End
                                      ELSE shifted[i]],
            !.over = @ \/ clean > Size]

\* A store behind the end of the buffer.
Store(t, i, ch) == IF i \in Places THEN [t EXCEPT !.buf[i] = ch]
                   ELSE [t EXCEPT !.over = TRUE]

BugCountsNoLine(t, ch) == t

Counted(t, ch) == IF ch = NL THEN [t EXCEPT !.lines = @ + 1] ELSE t

BugSkipsAPlace(t, ch) == [Store(t, t.loc + 1, ch) EXCEPT !.loc = @ + 1]

Put(t, ch) == [Store(t, t.loc, ch) EXCEPT !.loc = @ + 1]

\* One turn of either loop: a character that comes when most lines are full
\* scrolls first.
Write(t, ch, most) ==
    LET c == Counted(t, ch)
    IN  Put(IF c.lines >= most THEN scroll_text_buffer_down(c) ELSE c, ch)

Written(t, chars, most) ==
    LET after[n \in 0 .. Len(chars)] ==
          IF n = 0 THEN t ELSE Write(after[n - 1], chars[n], most)
    IN  after[Len(chars)]

write_text_buffer(t, chars) == Written(t, chars, max_char_y + 1)

\* printf without its %s, character by character through
\* write_char_text_buffer, which scrolls one line earlier.
print(t, chars) == Written(t, chars, max_char_y)

\* printf of a text that ends its line.
print_line(t, chars) == Write(print(t, chars), NL, max_char_y)

Letters(n) == [i \in 1 .. n |-> Letter]

\* %t and its two digits.
Colour == <<Mark, Letter, Letter>>

\* %x: "0x" and the digits, through write_text_buffer.
term_render_hex(t, digits) == write_text_buffer(t, Letters(2 + digits))

\* draw_text_buffer's loop: the row and the column of the next glyph, the place
\* of the next character.
DrawGlyph(at, ch) ==
    IF at.skip > 0 THEN [at EXCEPT !.skip = @ - 1]
    ELSE IF ch = Mark THEN [at EXCEPT !.skip = 2]
    ELSE IF ch = NL THEN [at EXCEPT !.row = @ + 1, !.col = 0]
    ELSE IF at.col = max_char_x THEN [at EXCEPT !.row = @ + 1, !.col = 1]
    ELSE [at EXCEPT !.col = @ + 1]

RowsDrawn(buf) ==
    LET at[n \in 0 .. FirstEnd(buf, 0)] ==
          IF n = 0 THEN [row |-> 0, col |-> 0, skip |-> 0]
          ELSE DrawGlyph(at[n - 1], buf[n - 1])
    IN  at[FirstEnd(buf, 0)].row

\* draw_text_buffer, at the end of every line printed, erases what the user
\* has typed from user_chars.
Erased(chars) == [i \in Columns |-> IF i \in 2 .. (max_char_x - 1) THEN End
                                    ELSE chars[i]]

\* kernel_main's messages: plain, with a number, or in colour.
BootMessage(n) ==
    /\ ~term_ready /\ ~text.over
    /\ booted < MaxBoot
    /\ booted' = booted + 1
    /\ \/ text' = print_line(text, Letters(n))
       \/ \E d \in 1 .. MaxDigits :
             text' = print_line(term_render_hex(print(text, Letters(n)), d), <<>>)
       \/ text' = print_line(text, Colour \o Letters(n))
    /\ user_chars' = Erased(user_chars)
    /\ UNCHANGED <<user_char_index, typed, term_ready>>

start_terminal ==
    /\ ~term_ready
    /\ term_ready' = TRUE
    /\ UNCHANGED <<text, user_chars, user_char_index, typed, booted>>

-----------------------------------------------------------------------------
(* Keys.                                                                   *)

Erase == "bs"

\* The keys by the kind of their character; the shift mask picks one of two
\* characters of the same kind.
keycode_to_keysym(key) ==
    CASE key = "KEY_A"         -> Letter
      [] key = "KEY_SPACE"     -> Space
      [] key = "KEY_BACKSPACE" -> Erase
      [] key = "KEY_RETURN"    -> NL
      [] OTHER                 -> End

KeyCodes == {"KEY_A", "KEY_SPACE", "KEY_BACKSPACE", "KEY_RETURN", "KEY_SHIFT"}

Room == user_char_index # max_char_x

\* write_user_char for a character: it also shows up in the text buffer,
\* behind the text.
Typing(ch) ==
    /\ user_chars' = [user_chars EXCEPT ![user_char_index] = ch]
    /\ text' = Store(text, text.loc + user_char_index, ch)
    /\ user_char_index' = user_char_index + 1

\* terminal_loop, lines 464-465 and 469: a key that goes up, and a key without
\* a character, do nothing.
Pressed(key, release, ch) == ~release /\ keycode_to_keysym(key) = ch

Type(key, release, ch) ==
    /\ term_ready /\ ~text.over
    /\ Pressed(key, release, ch)
    /\ Len(typed) < MaxTyped
    /\ IF Room THEN Typing(ch) /\ typed' = Append(typed, ch)
       ELSE UNCHANGED <<text, user_chars, user_char_index, typed>>
    /\ UNCHANGED <<booted, term_ready>>

BugErasesThePrompt == user_char_index > 1

\* Line 368.
SomethingToErase == user_char_index > 2

Backspace(key, release) ==
    /\ term_ready /\ ~text.over
    /\ Pressed(key, release, Erase)
    /\ SomethingToErase
    /\ user_char_index' = user_char_index - 1
    /\ user_chars' = [user_chars EXCEPT ![user_char_index - 1] = Space]
    /\ typed' = IF typed = <<>> THEN typed ELSE Front(typed)
    /\ UNCHANGED <<text, booted, term_ready>>

\* The characters of user_chars up to the first 0.
Line(chars) ==
    LET n == Min({i \in Columns : chars[i] = End} \union {max_char_x + 1})
    IN  [i \in 1 .. n |-> chars[i - 1]]

\* The loop of parse_user_chars.
Command(chars) ==
    LET stops == {i \in Columns : i >= 2 /\ chars[i] \in {End, Space, NL}}
        n == Min(stops \union {max_char_x + 1})
    IN  [i \in 1 .. (n - 2) |-> chars[i + 1]]

\* parse_user_chars: a known command has a fixed answer, any other one is
\* repeated in it.  Every answer is one line.
Answers(t, command) ==
    {print_line(t, Letters(ReplyLength)),
     print_line(t, Colour \o Letters(ReplyLength)),
     print_line(write_text_buffer(print(t, Letters(UnknownLength \div 2)), command),
                Letters(UnknownLength - UnknownLength \div 2))}

\* terminal_loop, lines 470-477: the end of the line goes the way of all
\* characters first, and is lost if the line is full.
Return(key, release) ==
    LET chars == IF Room THEN [user_chars EXCEPT ![user_char_index] = NL]
                 ELSE user_chars
        shown == IF Room THEN Store(text, text.loc + user_char_index, NL)
                 ELSE text
    IN  /\ term_ready /\ ~text.over
        /\ Pressed(key, release, NL)
        /\ text' \in Answers(write_text_buffer(shown, Line(chars)),
                             Command(chars))
        /\ user_chars' = Erased(chars)
        /\ user_char_index' = 2
        /\ typed' = <<>>
        /\ UNCHANGED <<booted, term_ready>>

Next == \/ \E n \in BootLengths : BootMessage(n)
        \/ start_terminal
        \/ \E key \in KeyCodes, release \in BOOLEAN :
              \/ \E ch \in {Letter, Space} : Type(key, release, ch)
              \/ Backspace(key, release)
              \/ Return(key, release)

Spec == Init /\ [][Next]_vars

-----------------------------------------------------------------------------
(* Properties.                                                             *)

\* No line of a message, of the user or of an answer is longer than the screen
\* is wide; an answer may begin behind what the user has erased.
LinesFit ==
    /\ max_char_y >= 2
    /\ \A n \in BootLengths : n + 4 <= max_char_x /\ n + MaxDigits + 3 <= max_char_x
    /\ ReplyLength >= 1 /\ ReplyLength + 4 <= max_char_x
    /\ MaxTyped + ReplyLength + 3 <= max_char_x
    /\ UnknownLength >= 2 /\ MaxTyped + UnknownLength + 1 <= max_char_x

\* Types of the buffer, its counters and the line being edited; printing,
\* scrolling and echoing never write behind the end of the buffer as long as no
\* line is longer than the screen is wide.
TypeOK ==
    /\ text.buf \in [Places -> Characters]
    /\ text.loc \in Places
    /\ text.lines \in 0 .. max_char_y
    /\ ~text.over
    /\ user_chars \in [Columns -> Characters]
    /\ user_char_index \in 2 .. max_char_x
    /\ typed \in Seq({Letter, Space})
    /\ booted \in 0 .. MaxBoot
    /\ term_ready \in BOOLEAN

\* The buffer has no 0 before textbuf_loc, where draw_text_buffer and the
\* next scroll would stop: all text that was not scrolled away is drawn.
AllTextDrawn == \A i \in Places : i < text.loc => text.buf[i] # End

\* draw_user_chars puts the user's line into row cur_lines: the row right below
\* the text as draw_text_buffer has laid it out, whatever scrolled away.
PromptBelowText == text.lines = RowsDrawn(text.buf)

FirstWord(s) ==
    LET stops == {i \in DOMAIN s : s[i] = Space}
    IN  SubSeq(s, 1, Min(stops \union {Len(s) + 1}) - 1)

\* The command that parse_user_chars reads is the first word of the line as
\* the user has edited it, whatever was erased and typed again.
CommandIsTyped ==
    LET chars == IF Room THEN [user_chars EXCEPT ![user_char_index] = NL]
                 ELSE user_chars
    IN  Command(chars) = FirstWord(typed)
=============================================================================
