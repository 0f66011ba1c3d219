--------------------------- MODULE TerminalProofs ---------------------------
(***************************************************************************)
(* Proofs about the terminal, for a screen of any size: about the line the *)
(* user edits, and about the text buffer that is written, scrolled and     *)
(* drawn, for messages of any length that fit on a line.                   *)
(***************************************************************************)
EXTENDS Terminal, LeastElements, SequenceTheorems, TLAPS

\* The columns behind the prompt hold what the user has typed, and the last
\* column is never written.
LineInv ==
    /\ user_chars \in [Columns -> Characters]
    /\ user_char_index \in 2 .. max_char_x
    /\ typed \in Seq({Letter, Space})
    /\ Len(typed) + 2 = user_char_index
    /\ \A i \in 1 .. Len(typed) : user_chars[i + 1] = typed[i]
    /\ user_chars[max_char_x] = End
    /\ term_ready \in BOOLEAN
    /\ ~term_ready => typed = <<>>

LEMMA Constants ==
    /\ max_char_x \in Nat /\ max_char_x >= 3
    /\ 2 \in 2 .. max_char_x
    /\ Columns = 0 .. max_char_x
BY TerminalAssumption DEF Columns

LEMMA EmptyLine ==
    /\ <<>> \in Seq({Letter, Space}) /\ Len(<<>>) = 0
OBVIOUS

LEMMA LineInit ==
    ASSUME Init
    PROVE  LineInv
<1>1. term_ready \in BOOLEAN
  BY Zenon DEF Init
<1>2. /\ user_chars \in [Columns -> Characters] /\ user_chars[max_char_x] = End
      /\ user_char_index = 2 /\ typed = <<>>
  BY Constants DEF Init, Characters
<1> QED
  BY <1>1, <1>2, Constants, EmptyLine DEF LineInv

\* draw_text_buffer erases the line, but for the prompt and the last column.
LEMMA ErasedLine ==
    ASSUME NEW chars \in [Columns -> Characters], chars[max_char_x] = End
    PROVE  /\ Erased(chars) \in [Columns -> Characters]
           /\ Erased(chars)[max_char_x] = End
BY Constants DEF Erased, Characters

LEMMA LineStep ==
    ASSUME LineInv, [Next]_vars
    PROVE  LineInv'
<1> USE DEF LineInv
<1>1. ASSUME NEW n \in BootLengths, BootMessage(n)
      PROVE  LineInv'
  <2>1. /\ user_chars' = Erased(user_chars) /\ typed = <<>>
        /\ UNCHANGED <<user_char_index, typed, term_ready>>
    BY <1>1 DEF BootMessage
  <2> QED
    BY <2>1, ErasedLine, EmptyLine
<1>2. CASE start_terminal
  BY <1>2 DEF start_terminal
<1>3. ASSUME NEW key, NEW release, NEW ch \in {Letter, Space},
             Type(key, release, ch)
      PROVE  LineInv'
  <2>1. CASE Room
    <3>1. /\ user_chars' = [user_chars EXCEPT ![user_char_index] = ch]
          /\ user_char_index' = user_char_index + 1
          /\ typed' = Append(typed, ch) /\ term_ready' = term_ready /\ term_ready
      BY <1>3, <2>1 DEF Type, Typing
    <3>2. user_char_index \in Columns /\ user_char_index < max_char_x
      BY <2>1, Constants DEF Room
    <3>3. /\ typed' \in Seq({Letter, Space}) /\ Len(typed') = Len(typed) + 1
          /\ \A i \in 1 .. Len(typed) : typed'[i] = typed[i]
          /\ typed'[Len(typed) + 1] = ch
      BY <3>1
    <3>4. /\ user_chars' \in [Columns -> Characters]
          /\ user_chars'[user_char_index] = ch
          /\ \A i \in Columns : i # user_char_index =>
                user_chars'[i] = user_chars[i]
      BY <3>1, <3>2 DEF Characters
    <3>5. \A i \in 1 .. Len(typed') : user_chars'[i + 1] = typed'[i]
      BY <3>2, <3>3, <3>4, Constants
    <3> QED
      BY <3>1, <3>2, <3>3, <3>4, <3>5, Constants
  <2>2. CASE ~Room
    BY <1>3, <2>2 DEF Type
  <2> QED
    BY <2>1, <2>2
<1>4. ASSUME NEW key, NEW release, Backspace(key, release)
      PROVE  LineInv'
  <2>1. /\ user_char_index > 2 /\ user_char_index' = user_char_index - 1
        /\ user_chars' = [user_chars EXCEPT ![user_char_index - 1] = Space]
        /\ typed' = IF typed = <<>> THEN typed ELSE Front(typed)
        /\ term_ready' = term_ready /\ term_ready
    BY <1>4 DEF Backspace, SomethingToErase
  <2>2. Len(typed) >= 1 /\ typed # <<>>
    BY <2>1, EmptyLine, Constants
  <2>3. /\ typed' \in Seq({Letter, Space}) /\ Len(typed') = Len(typed) - 1
        /\ \A i \in 1 .. Len(typed') : typed'[i] = typed[i]
    <3> DEFINE n == Len(typed) - 1
    <3>1. typed' = SubSeq(typed, 1, n) /\ n \in Nat
      BY <2>1, <2>2 DEF Front
    <3>2. \A i \in 1 .. n : typed[i] \in {Letter, Space}
      OBVIOUS
    <3> HIDE DEF n
    <3>3. /\ typed' \in Seq({Letter, Space}) /\ Len(typed') = n
          /\ \A i \in 1 .. n : typed'[i] = typed[i]
      BY <3>1, <3>2
    <3> QED
      BY <3>3 DEF n
  <2>4. /\ user_chars' \in [Columns -> Characters]
        /\ \A i \in Columns : i # user_char_index - 1 =>
              user_chars'[i] = user_chars[i]
    BY <2>1, Constants DEF Characters
  <2>5. \A i \in 1 .. Len(typed') : user_chars'[i + 1] = typed'[i]
    BY <2>1, <2>3, <2>4, Constants
  <2> QED
    BY <2>1, <2>3, <2>4, <2>5, Constants
<1>5. ASSUME NEW key, NEW release, Return(key, release)
      PROVE  LineInv'
  <2> DEFINE chars == IF Room THEN [user_chars EXCEPT ![user_char_index] = NL]
                      ELSE user_chars
  <2>1. /\ user_chars' = Erased(chars) /\ user_char_index' = 2
        /\ typed' = <<>> /\ term_ready' = term_ready
    BY <1>5 DEF Return
  <2>2. chars \in [Columns -> Characters] /\ chars[max_char_x] = End
    BY Constants DEF Room, Characters
  <2> HIDE DEF chars
  <2> QED
    BY <2>1, <2>2, ErasedLine, EmptyLine, Constants
<1>6. CASE UNCHANGED vars
  BY <1>6 DEF vars
<1> QED
  BY <1>1, <1>2, <1>3, <1>4, <1>5, <1>6 DEF Next

LEMMA LineInvariance == Spec => []LineInv
BY LineInit, LineStep, PTL DEF Spec

\* The element a bounded CHOOSE of a least element finds.
LEMMA LeastIs ==
    ASSUME NEW S, S \subseteq Int, NEW m \in S, \A i \in S : m <= i
    PROVE  Min(S) = m
<1>1. Min(S) \in S /\ \A i \in S : Min(S) <= i
  BY DEF Min
<1>2. Min(S) \in Int /\ m \in Int /\ Min(S) <= m /\ m <= Min(S)
  BY <1>1
<1> QED
  BY <1>2

\* When return is pressed, parse_user_chars reads the first word of the line
\* the user has edited, whatever was erased and typed again.
THEOREM CommandsReadAsTyped == Spec => []CommandIsTyped
<1>1. ASSUME LineInv
      PROVE  CommandIsTyped
  <2> USE <1>1 DEF LineInv
  <2> DEFINE chars == IF Room THEN [user_chars EXCEPT ![user_char_index] = NL]
                      ELSE user_chars
             spaces == {i \in DOMAIN typed : typed[i] = Space}
             words == spaces \union {Len(typed) + 1}
             stops == {i \in Columns : i >= 2 /\ chars[i] \in {End, Space, NL}}
             ends == stops \union {max_char_x + 1}
  \* Where the user's line ends there is a character that ends a command.
  <2>1. /\ chars[user_char_index] \in {End, Space, NL}
        /\ \A i \in 1 .. Len(typed) : chars[i + 1] = typed[i]
    BY Constants DEF Room
  <2>2. PICK m \in words : \A i \in words : m <= i
    <3>1. words \subseteq Nat /\ words # {}
      OBVIOUS
    <3> QED
      BY <3>1, LeastElement
  <2>3. /\ m \in 1 .. (Len(typed) + 1)
        /\ m <= Len(typed) => typed[m] = Space
        /\ \A i \in 1 .. (m - 1) : typed[i] = Letter
    BY <2>2
  <2>4. Min(words) = m
    <3>1. words \subseteq Int
      OBVIOUS
    <3> QED
      BY <2>2, <3>1, LeastIs
  <2> HIDE DEF chars
  <2>5. m + 1 \in ends /\ \A i \in ends : m + 1 <= i
    <3>1. m + 1 \in Columns /\ m + 1 >= 2
      BY <2>3, Constants
    <3>2. chars[m + 1] \in {End, Space, NL}
      BY <2>1, <2>3
    <3>3. ASSUME NEW i \in Columns, i >= 2, chars[i] \in {End, Space, NL}
          PROVE  m + 1 <= i
      <4>1. ASSUME NEW j \in 1 .. (m - 1), i = j + 1
            PROVE  FALSE
        <5>1. chars[i] = Letter
          BY <2>1, <2>3, <4>1
        <5> QED
          BY <3>3, <5>1 DEF Letter, End, Space, NL
      <4>2. i - 1 \notin 1 .. (m - 1)
        BY <3>3, <4>1, Constants
      <4> QED
        BY <2>3, <3>3, <4>2, Constants
    <3>4. m + 1 <= max_char_x + 1
      BY <2>3, Constants
    <3> QED
      BY <3>1, <3>2, <3>3, <3>4
  <2>6. Min(ends) = m + 1
    <3>1. ends \subseteq Int
      BY Constants
    <3> QED
      BY <2>5, <3>1, LeastIs
  <2>7. Command(chars) = [i \in 1 .. (m - 1) |-> chars[i + 1]]
    BY <2>3, <2>6 DEF Command
  <2>8. FirstWord(typed) = SubSeq(typed, 1, m - 1)
    BY <2>4 DEF FirstWord
  <2>9. SubSeq(typed, 1, m - 1) = [i \in 1 .. (m - 1) |-> chars[i + 1]]
    BY <2>1, <2>3
  <2> QED
    BY <2>7, <2>8, <2>9 DEF CommandIsTyped, chars
<1> QED
  BY <1>1, LineInvariance, PTL

-----------------------------------------------------------------------------
(* The text buffer.                                                        *)

TextType == [buf : [Places -> Characters], loc : Int, lines : Int,
             over : BOOLEAN]

LEMMA PlacesAre == /\ max_char_x \in Nat /\ max_char_y \in Nat /\ Size \in Nat
                   /\ Places = 0 .. Size
BY TerminalAssumption DEF Size, Places

LEMMA PutFields ==
    ASSUME NEW t \in TextType, t.loc \in Places, NEW ch \in Characters
    PROVE  /\ Put(t, ch) \in TextType
           /\ Put(t, ch).buf = [t.buf EXCEPT ![t.loc] = ch]
           /\ Put(t, ch).loc = t.loc + 1
           /\ Put(t, ch).lines = t.lines
           /\ Put(t, ch).over = t.over
<1> DEFINE b == [t.buf EXCEPT ![t.loc] = ch]
           s == [t EXCEPT !.buf = b]
<1>1. Store(t, t.loc, ch) = s
  BY DEF Store, TextType
<1>2. b \in [Places -> Characters]
  BY DEF TextType
<1> HIDE DEF b
<1>3. s \in TextType /\ s.buf = b /\ s.loc = t.loc /\ s.lines = t.lines
  BY <1>2 DEF TextType
<1>4. s.over = t.over
  BY DEF TextType
<1>5. Put(t, ch) = [s EXCEPT !.loc = @ + 1]
  BY <1>1 DEF Put
<1> HIDE DEF s
<1>6. /\ Put(t, ch) \in TextType /\ Put(t, ch).buf = b
      /\ Put(t, ch).loc = t.loc + 1 /\ Put(t, ch).lines = t.lines
  BY <1>3, <1>5 DEF TextType
<1>7. Put(t, ch).over = t.over
  BY <1>3, <1>4, <1>5 DEF TextType
<1> QED
  BY <1>6, <1>7 DEF b

LEMMA CountedFields ==
    ASSUME NEW t \in TextType, NEW ch \in Characters
    PROVE  /\ Counted(t, ch) \in TextType
           /\ Counted(t, ch).buf = t.buf
           /\ Counted(t, ch).loc = t.loc
           /\ Counted(t, ch).lines = t.lines + (IF ch = NL THEN 1 ELSE 0)
           /\ Counted(t, ch).over = t.over
BY DEF Counted, TextType

LEMMA FirstEndIs ==
    ASSUME NEW buf, NEW i \in Int, NEW m \in Places, i <= m, buf[m] = End,
           \A j \in Places : i <= j /\ j < m => buf[j] # End
    PROVE  FirstEnd(buf, i) = m
<1> DEFINE ends == {j \in Places : j >= i /\ buf[j] = End}
<1>1. m \in ends /\ ends \subseteq Int /\ \A j \in ends : m <= j
  BY PlacesAre
<1>2. Min(ends) = m
  BY <1>1, LeastIs
<1> QED
  BY <1>1, <1>2 DEF FirstEnd

LEMMA EndFirstLineIs ==
    ASSUME NEW buf, NEW m \in 0 .. (max_char_x - 1), buf[m] = NL,
           \A j \in 0 .. (m - 1) : buf[j] # NL
    PROVE  EndFirstLine(buf) = m + 1
<1> DEFINE ends == {j \in 0 .. (max_char_x - 1) : buf[j] = NL}
<1>1. m \in ends /\ ends \subseteq Int /\ \A j \in ends : m <= j
  BY PlacesAre
<1>2. Min(ends) = m
  BY <1>1, LeastIs
<1> QED
  BY <1>1, <1>2 DEF EndFirstLine

\* No 0 before textbuf_loc, and nothing but 0 from there on.
Full(t) == \A i \in Places : i < t.loc => t.buf[i] # End
Clean(t) == \A i \in Places : t.loc <= i => t.buf[i] = End

\* The text without its first f characters.
Behind(t, f) == [i \in Places |-> IF i < t.loc - f THEN t.buf[i + f] ELSE End]

\* Scrolling takes the first line out.
LEMMA ScrollFields ==
    ASSUME NEW t \in TextType, NEW f \in 1 .. max_char_x,
           t.loc \in f .. Size, ~t.over, Full(t), Clean(t),
           t.buf[f - 1] = NL, \A j \in 0 .. (f - 2) : t.buf[j] # NL
    PROVE  LET s == scroll_text_buffer_down(t)
           IN  /\ s \in TextType
               /\ s.buf = Behind(t, f)
               /\ s.loc = t.loc - f
               /\ s.lines = t.lines - 1
               /\ ~s.over
<1> DEFINE first == EndFirstLine(t.buf)
           stop == FirstEnd(t.buf, first)
           moved == (IF stop < Size THEN stop ELSE Size) - first
           shifted == [i \in Places |-> IF i < moved THEN t.buf[i + first]
                                        ELSE t.buf[i]]
           clean == FirstEnd(shifted, moved)
           cleared == [i \in Places |-> IF i \in moved .. (clean - 1) THEN End
                                        ELSE shifted[i]]
           short == Shorter(t, first)
<1>1. /\ t.buf \in [Places -> Characters] /\ t.loc \in Places
      /\ f \in Nat /\ t.loc \in Int /\ t.lines \in Int
  BY PlacesAre DEF TextType
<1>2. first = f
  <2>1. f - 1 \in 0 .. (max_char_x - 1) /\ (f - 1) - 1 = f - 2 /\ (f - 1) + 1 = f
    BY PlacesAre
  <2> QED
    BY <2>1, EndFirstLineIs
<1>3. stop = t.loc
  BY <1>1, <1>2, FirstEndIs, PlacesAre DEF Full, Clean
<1> HIDE DEF first, stop
<1>4. moved = t.loc - f
  BY <1>1, <1>2, <1>3, PlacesAre
<1> HIDE DEF moved
<1>5. clean = t.loc
  <2>1. /\ shifted[t.loc] = End
        /\ \A j \in Places : moved <= j /\ j < t.loc => shifted[j] # End
    BY <1>1, <1>4, PlacesAre DEF Full, Clean
  <2> HIDE DEF shifted
  <2>2. moved \in Int /\ moved <= t.loc
    BY <1>1, <1>4
  <2> QED
    BY <1>1, <2>1, <2>2, FirstEndIs
<1> HIDE DEF clean
<1>6. cleared = Behind(t, f)
  BY <1>1, <1>2, <1>4, <1>5, PlacesAre DEF Behind, Clean
<1>7. Behind(t, f) \in [Places -> Characters]
  BY <1>1, PlacesAre DEF Behind, Characters
<1> HIDE DEF cleared
<1>8. /\ short \in TextType /\ short.loc = t.loc - f /\ short.lines = t.lines - 1
      /\ short.over = t.over
  <2> DEFINE less == [t EXCEPT !.lines = @ - 1]
  <2>1. /\ less \in TextType /\ less.loc = t.loc /\ less.lines = t.lines - 1
    BY <1>1 DEF TextType
  <2>2. less.over = t.over
    BY DEF TextType
  <2>3. short = [less EXCEPT !.loc = @ - f]
    BY <1>1, <1>2 DEF Shorter, TextType
  <2> HIDE DEF less, short
  <2>4. /\ short \in TextType /\ short.loc = t.loc - f /\ short.lines = t.lines - 1
    BY <1>1, <2>1, <2>3 DEF TextType
  <2>5. short.over = less.over
    BY <2>1, <2>3 DEF TextType
  <2> QED
    BY <2>2, <2>4, <2>5
<1> HIDE DEF short
<1>9. scroll_text_buffer_down(t)
        = [short EXCEPT !.buf = cleared, !.over = @ \/ clean > Size]
  BY DEF scroll_text_buffer_down, cleared, clean, moved, stop, first, short
<1>10. ~(short.over \/ clean > Size)
  BY <1>1, <1>5, <1>8, PlacesAre
<1>11. [short EXCEPT !.buf = cleared, !.over = @ \/ clean > Size]
         = [short EXCEPT !.buf = cleared, !.over = FALSE]
  BY <1>10
<1> DEFINE s == [short EXCEPT !.buf = cleared, !.over = FALSE]
<1>12. /\ s \in TextType /\ s.buf = cleared /\ s.loc = short.loc
       /\ s.lines = short.lines /\ ~s.over
  BY <1>6, <1>7, <1>8 DEF TextType
<1> QED
  BY <1>6, <1>8, <1>9, <1>11, <1>12

\* Where lines end: e[k] is the place behind the k-th end of a line, and no line
\* is longer than the screen is wide.
Stairs(e, n) ==
    /\ n \in Nat /\ e \in [0 .. n -> Nat] /\ e[0] = 0
    /\ \A k \in 1 .. n : e[k - 1] < e[k] /\ e[k] <= e[k - 1] + max_char_x

LEMMA StairsRise ==
    ASSUME NEW e, NEW n, Stairs(e, n)
    PROVE  \A j, k \in 0 .. n : j < k => e[j] < e[k]
<1> USE DEF Stairs
<1> SUFFICES ASSUME NEW j \in 0 .. n PROVE \A k \in 0 .. n : j < k => e[j] < e[k]
  OBVIOUS
<1> DEFINE T == {k \in 0 .. n : j < k /\ ~(e[j] < e[k])}
<1>1. SUFFICES ASSUME T # {} PROVE FALSE
  OBVIOUS
<1>2. PICK k \in T : \A i \in T : k <= i
  <2>1. T \subseteq Nat
    OBVIOUS
  <2> QED
    BY <1>1, <2>1, LeastElement
<1>3. k \in 1 .. n /\ j <= k - 1 /\ k - 1 \in 0 .. n /\ k - 1 \notin T
  BY <1>2
<1>4. j = k - 1 \/ e[j] < e[k - 1]
  BY <1>3
<1>5. e[k - 1] < e[k] /\ e[k - 1] \in Nat /\ e[k] \in Nat /\ e[j] \in Nat
  BY <1>3
<1>6. e[j] < e[k]
  <2>1. CASE j = k - 1
    BY <1>5, <2>1
  <2>2. CASE e[j] < e[k - 1]
    <3> HIDE DEF Stairs
    <3> QED
      BY <1>5, <2>2
  <2> QED
    BY <1>4, <2>1, <2>2
<1> QED
  BY <1>2, <1>6

LEMMA TimesStep ==
    ASSUME NEW k \in Nat, k >= 1
    PROVE  (k - 1) * max_char_x + max_char_x = k * max_char_x
BY PlacesAre

LEMMA TimesMonotone ==
    ASSUME NEW a \in Nat, NEW b \in Nat, a <= b
    PROVE  a * max_char_x <= b * max_char_x
<1>1. b - a \in Nat /\ (b - a) * max_char_x \in Nat
  BY PlacesAre
<1>2. b * max_char_x = a * max_char_x + (b - a) * max_char_x
  BY PlacesAre
<1>3. a * max_char_x \in Nat /\ b * max_char_x \in Nat
  BY PlacesAre
<1> QED
  BY <1>1, <1>2, <1>3

LEMMA StairsBound ==
    ASSUME NEW e, NEW n, Stairs(e, n)
    PROVE  \A k \in 0 .. n : e[k] <= k * max_char_x
<1> USE DEF Stairs
<1> DEFINE T == {k \in 0 .. n : ~(e[k] <= k * max_char_x)}
<1>1. SUFFICES ASSUME T # {} PROVE FALSE
  OBVIOUS
<1>2. PICK k \in T : \A i \in T : k <= i
  <2>1. T \subseteq Nat
    OBVIOUS
  <2> QED
    BY <1>1, <2>1, LeastElement
<1>3. CASE k = 0
  BY <1>2, <1>3, PlacesAre
<1>4. CASE k # 0
  <2>1. k \in 1 .. n /\ k - 1 \in 0 .. n /\ k - 1 \notin T /\ k \in Nat /\ k >= 1
    BY <1>2, <1>4
  <2>2. e[k - 1] <= (k - 1) * max_char_x /\ e[k] <= e[k - 1] + max_char_x
    BY <2>1
  <2>3. ~(e[k] <= k * max_char_x)
    BY <1>2
  <2>4. e[k] \in Nat /\ e[k - 1] \in Nat
    BY <2>1
  <2> DEFINE a == (k - 1) * max_char_x
             b == k * max_char_x
  <2>5. a \in Nat /\ b \in Nat /\ a + max_char_x = b
    BY <2>1, TimesStep, PlacesAre
  <2> HIDE DEF a, b
  <2>6. e[k - 1] <= a /\ ~(e[k] <= b)
    BY <2>2, <2>3 DEF a, b
  <2> QED
    BY <2>2, <2>4, <2>5, <2>6, PlacesAre
<1> QED
  BY <1>3, <1>4

\* With a line of the screen free, the text leaves room for one more line.
LEMMA RoomForALine ==
    ASSUME NEW e, NEW n, Stairs(e, n), n <= max_char_y - 1
    PROVE  e[n] + max_char_x <= Size
<1>1. /\ n \in Nat /\ n \in 0 .. n /\ e[n] \in Nat /\ max_char_y - 1 \in Nat
      /\ max_char_y \in Nat /\ max_char_y >= 1
  BY PlacesAre DEF Stairs
<1> DEFINE a == n * max_char_x
           b == (max_char_y - 1) * max_char_x
<1>2. e[n] <= a
  BY <1>1, StairsBound
<1>3. a <= b
  BY <1>1, TimesMonotone
<1>4. b + max_char_x = Size
  BY <1>1, TimesStep, PlacesAre DEF Size
<1>5. a \in Nat /\ b \in Nat
  BY <1>1, PlacesAre
<1> HIDE DEF a, b
<1> QED
  BY <1>1, <1>2, <1>3, <1>4, <1>5, PlacesAre

Ends(t, e) ==
    /\ Stairs(e, t.lines) /\ e[t.lines] <= t.loc
    /\ \A k \in 1 .. t.lines : t.buf[e[k] - 1] = NL
    /\ \A i \in Places : i < t.loc /\ t.buf[i] = NL =>
          \E k \in 1 .. t.lines : i = e[k] - 1

\* A colour escape is whole, and does not reach over the end of a line.
WholeEscapes(t) ==
    \A i \in Places : i < t.loc /\ t.buf[i] = Mark =>
        /\ i + 2 < t.loc
        /\ t.buf[i + 1] # NL /\ t.buf[i + 2] # NL

Draft(t, e) ==
    /\ t \in TextType /\ ~t.over /\ t.loc \in Places
    /\ Ends(t, e) /\ Full(t) /\ WholeEscapes(t)

\* The text of t with its first line scrolled away.
Lowered(e, n) == [k \in 0 .. (n - 1) |-> e[k + 1] - e[1]]

LEMMA FirstLine ==
    ASSUME NEW t, NEW e, Draft(t, e), t.lines >= 1
    PROVE  /\ e[1] \in 1 .. max_char_x /\ t.loc \in e[1] .. Size
           /\ t.buf[e[1] - 1] = NL
           /\ \A j \in 0 .. (e[1] - 2) : t.buf[j] # NL
<1>1. /\ Stairs(e, t.lines) /\ e[t.lines] <= t.loc /\ t.loc \in Places
      /\ \A k \in 1 .. t.lines : t.buf[e[k] - 1] = NL
      /\ \A i \in Places : i < t.loc /\ t.buf[i] = NL =>
            \E k \in 1 .. t.lines : i = e[k] - 1
  BY DEF Draft, Ends
<1>2. /\ t.lines \in Nat /\ 1 \in 1 .. t.lines /\ 1 \in 0 .. t.lines
      /\ t.lines \in 0 .. t.lines /\ t.lines \in 1 .. t.lines
      /\ \A k \in 0 .. t.lines : e[k] \in Nat
  BY <1>1 DEF Stairs
<1>3. e[1] \in 1 .. max_char_x
  BY <1>1, <1>2, PlacesAre DEF Stairs
<1>4. \A k \in 1 .. t.lines : e[1] <= e[k]
  <2>1. TAKE k \in 1 .. t.lines
  <2>2. k = 1 \/ (1 < k /\ k \in 0 .. t.lines)
    BY <1>2
  <2>3. 1 < k => e[1] < e[k]
    BY <1>1, <1>2, <2>2, StairsRise
  <2> QED
    BY <1>2, <2>2, <2>3
<1>5. t.loc \in e[1] .. Size
  BY <1>1, <1>2, <1>3, <1>4, PlacesAre
<1>6. ASSUME NEW j \in 0 .. (e[1] - 2), t.buf[j] = NL
      PROVE  FALSE
  <2>1. j \in Places /\ j < t.loc
    BY <1>3, <1>5, PlacesAre
  <2>2. PICK k \in 1 .. t.lines : j = e[k] - 1
    BY <1>1, <1>6, <2>1
  <2> QED
    BY <1>2, <1>3, <1>4, <2>2
<1> QED
  BY <1>1, <1>2, <1>3, <1>5, <1>6

LEMMA Scrolled ==
    ASSUME NEW t, NEW e, Draft(t, e), t.lines >= 1, Clean(t),
           NEW c \in TextType, c.buf = t.buf, c.loc = t.loc, ~c.over
    PROVE  LET s == scroll_text_buffer_down(c)
           IN  /\ s \in TextType
               /\ s.buf = Behind(t, e[1])
               /\ s.loc = t.loc - e[1]
               /\ s.lines = c.lines - 1
               /\ ~s.over
<1>1. /\ e[1] \in 1 .. max_char_x /\ c.loc \in e[1] .. Size
      /\ c.buf[e[1] - 1] = NL
      /\ \A j \in 0 .. (e[1] - 2) : c.buf[j] # NL
  BY FirstLine
<1>2. Full(c) /\ Clean(c)
  BY DEF Draft, Full, Clean
<1>3. Behind(c, e[1]) = Behind(t, e[1])
  BY DEF Behind
<1> DEFINE f == e[1]
<1> HIDE DEF f
<1>4. /\ f \in 1 .. max_char_x /\ c.loc \in f .. Size
      /\ c.buf[f - 1] = NL
      /\ \A j \in 0 .. (f - 2) : c.buf[j] # NL
  BY <1>1 DEF f
<1>5. LET s == scroll_text_buffer_down(c)
      IN  /\ s \in TextType
          /\ s.buf = Behind(c, f)
          /\ s.loc = c.loc - f
          /\ s.lines = c.lines - 1
          /\ ~s.over
  BY <1>2, <1>4, ScrollFields
<1> QED
  BY <1>3, <1>5 DEF f

LEMMA LoweredDraft ==
    ASSUME NEW t, NEW e, Draft(t, e), t.lines >= 1, Clean(t),
           NEW u \in TextType, u.buf = Behind(t, e[1]), u.loc = t.loc - e[1],
           u.lines = t.lines - 1, ~u.over
    PROVE  /\ Draft(u, Lowered(e, t.lines)) /\ Clean(u)
           /\ u.loc - Lowered(e, t.lines)[u.lines] = t.loc - e[t.lines]
<1> DEFINE f == e[1]
           n == t.lines
           g == Lowered(e, n)
<1>1. /\ Stairs(e, n) /\ e[n] <= t.loc /\ t.loc \in Places
      /\ \A k \in 1 .. n : t.buf[e[k] - 1] = NL
      /\ \A i \in Places : i < t.loc /\ t.buf[i] = NL =>
            \E k \in 1 .. n : i = e[k] - 1
  BY DEF Draft, Ends
<1>2. /\ n \in Nat /\ n >= 1
      /\ \A k \in 0 .. n : e[k] \in Nat
      /\ \A k \in 1 .. n : e[k - 1] < e[k] /\ e[k] <= e[k - 1] + max_char_x
  BY <1>1 DEF Stairs
<1>3. f \in 1 .. max_char_x /\ t.loc \in f .. Size
  BY FirstLine
<1>4. \A k \in 1 .. n : f <= e[k]
  <2>1. TAKE k \in 1 .. n
  <2>2. k = 1 \/ (1 < k /\ k \in 0 .. n /\ 1 \in 0 .. n)
    BY <1>2
  <2>3. 1 < k => e[1] < e[k]
    BY <1>1, <2>2, StairsRise
  <2> QED
    BY <1>2, <2>2, <2>3
<1> HIDE DEF f, n
<1>5. /\ \A k \in 0 .. (n - 1) : g[k] = e[k + 1] - f
      /\ g = [k \in 0 .. (n - 1) |-> e[k + 1] - f]
  BY DEF Lowered, f
<1> HIDE DEF g
<1>6. /\ u.loc \in Places /\ u.loc \in Int /\ u.loc = t.loc - f /\ u.lines = n - 1
      /\ t.loc \in Int /\ f \in Nat
  BY <1>1, <1>3, PlacesAre DEF f, n
<1>7. \A i \in Places : /\ u.buf[i] = IF i < u.loc THEN t.buf[i + f] ELSE End
                        /\ i < u.loc => i + f \in Places /\ i + f < t.loc
  BY <1>3, <1>6, PlacesAre DEF Behind, f
<1>8. Clean(u) /\ Full(u) /\ WholeEscapes(u)
  <2>1. Clean(u)
    BY <1>6, <1>7, PlacesAre DEF Clean
  <2>2. Full(u)
    BY <1>7 DEF Full, Draft
  <2>3. ASSUME NEW i \in Places, i < u.loc, u.buf[i] = Mark
        PROVE  i + 2 < u.loc /\ u.buf[i + 1] # NL /\ u.buf[i + 2] # NL
    <3>1. /\ (i + f) + 2 < t.loc
          /\ t.buf[(i + f) + 1] # NL /\ t.buf[(i + f) + 2] # NL
      BY <1>7, <2>3 DEF Draft, WholeEscapes
    <3>2. /\ i + 2 < u.loc /\ i + 1 < u.loc /\ i + 1 \in Places /\ i + 2 \in Places
          /\ (i + f) + 1 = (i + 1) + f /\ (i + f) + 2 = (i + 2) + f
      BY <1>6, <3>1, PlacesAre
    <3> QED
      BY <1>7, <3>1, <3>2
  <2> QED
    BY <2>1, <2>2, <2>3 DEF WholeEscapes
<1>9. Stairs(g, n - 1)
  <2>1. /\ n - 1 \in Nat /\ 0 \in 0 .. (n - 1) /\ e[0 + 1] = f
        /\ \A k \in 0 .. (n - 1) : k + 1 \in 1 .. n /\ e[k + 1] \in Nat
    BY <1>2 DEF f
  <2>2. g \in [0 .. (n - 1) -> Nat]
    <3>1. \A k \in 0 .. (n - 1) : e[k + 1] - f \in Nat
      BY <1>4, <1>6, <2>1
    <3> QED
      BY <1>5, <3>1
  <2>3. g[0] = 0
    BY <1>5, <1>6, <2>1
  <2>4. ASSUME NEW k \in 1 .. (n - 1)
        PROVE  g[k - 1] < g[k] /\ g[k] <= g[k - 1] + max_char_x
    <3>1. /\ k \in 0 .. (n - 1) /\ k - 1 \in 0 .. (n - 1) /\ (k - 1) + 1 = k
          /\ k + 1 \in 1 .. n /\ (k + 1) - 1 = k /\ k \in 0 .. n /\ k + 1 \in 0 .. n
      BY <1>2
    <3>2. g[k - 1] = e[k] - f /\ g[k] = e[k + 1] - f
      BY <1>5, <3>1
    <3>3. e[k] < e[k + 1] /\ e[k + 1] <= e[k] + max_char_x
      BY <1>2, <3>1
    <3>4. e[k] \in Nat /\ e[k + 1] \in Nat
      BY <1>2, <3>1
    <3> QED
      BY <1>6, <3>2, <3>3, <3>4, PlacesAre
  <2> QED
    BY <2>1, <2>2, <2>3, <2>4 DEF Stairs
<1>10. /\ g[n - 1] <= u.loc
       /\ u.loc - g[n - 1] = t.loc - e[n]
  <2>1. n - 1 \in 0 .. (n - 1) /\ (n - 1) + 1 = n /\ e[n] \in Nat
    BY <1>2
  <2>2. g[n - 1] = e[n] - f
    BY <1>5, <2>1
  <2> QED
    BY <1>1, <1>6, <2>1, <2>2
<1>11. ASSUME NEW k \in 1 .. (n - 1)
       PROVE  u.buf[g[k] - 1] = NL
  <2>1. k \in 0 .. (n - 1) /\ k + 1 \in 1 .. n /\ k + 1 \in 0 .. n /\ n \in 0 .. n
    BY <1>2
  <2>2. k + 1 = n \/ k + 1 < n
    BY <2>1, <1>2
  <2>3. e[k + 1] <= e[n] /\ e[k + 1] \in Nat /\ e[n] \in Nat
    BY <1>1, <1>2, <2>1, <2>2, StairsRise
  <2>4. g[k] = e[k + 1] - f /\ g[k] \in Nat /\ g[k] >= 1
    <3>1. g[0] = 0 /\ 0 \in 0 .. (n - 1) /\ 0 < k
      BY <1>9, <2>1, <1>2 DEF Stairs
    <3>2. g[0] < g[k]
      BY <1>9, <2>1, <3>1, StairsRise
    <3>3. g[k] \in Nat
      BY <1>9, <2>1 DEF Stairs
    <3> QED
      BY <1>5, <2>1, <3>1, <3>2, <3>3
  <2> DEFINE i == g[k] - 1
  <2>5. i \in Places /\ i < u.loc /\ i + f = e[k + 1] - 1
    <3> DEFINE a == e[k + 1]
               b == e[n]
    <3>1. b <= t.loc /\ a <= b /\ a \in Nat /\ b \in Nat /\ g[k] = a - f
      BY <1>1, <2>3, <2>4
    <3>2. t.loc \in Int /\ u.loc \in 0 .. Size /\ u.loc = t.loc - f /\ f \in Nat
      BY <1>6, PlacesAre
    <3> HIDE DEF a, b
    <3>3. i = (a - f) - 1 /\ i \in Int /\ i >= 0 /\ i < t.loc - f
      BY <2>4, <3>1, <3>2
    <3>4. i + f = a - 1
      BY <3>1, <3>2, <3>3
    <3>5. i < u.loc
      BY <3>2, <3>3
    <3>6. i \in 0 .. Size
      BY <3>2, <3>3, <3>5, PlacesAre
    <3> QED
      BY <3>4, <3>5, <3>6, PlacesAre DEF a
  <2>6. t.buf[i + f] = NL
    BY <1>1, <2>1, <2>5
  <2> HIDE DEF i
  <2>7. u.buf[i] = NL
    BY <1>7, <2>5, <2>6
  <2> QED
    BY <2>7 DEF i
<1>12. ASSUME NEW i \in Places, i < u.loc, u.buf[i] = NL
       PROVE  \E k \in 1 .. (n - 1) : i = g[k] - 1
  <2>1. i + f \in Places /\ i + f < t.loc /\ t.buf[i + f] = NL
    BY <1>7, <1>12
  <2>2. PICK k \in 1 .. n : i + f = e[k] - 1
    BY <1>1, <2>1
  <2>3. k # 1
    BY <1>6, <2>2, PlacesAre DEF f
  <2>4. k - 1 \in 1 .. (n - 1) /\ k - 1 \in 0 .. (n - 1) /\ (k - 1) + 1 = k
        /\ e[k] \in Nat
    BY <1>2, <2>3
  <2>5. g[k - 1] = e[k] - f
    BY <1>5, <2>4
  <2>6. i = g[k - 1] - 1
    BY <1>6, <2>2, <2>4, <2>5, PlacesAre
  <2> QED
    BY <2>4, <2>6
<1>13. Ends(u, g)
  BY <1>6, <1>9, <1>10, <1>11, <1>12 DEF Ends
<1> QED
  BY <1>6, <1>8, <1>10, <1>13 DEF Draft, g, n

\* r is t with chars behind the text.
Appended(t, chars, r) ==
    /\ r \in TextType /\ ~r.over
    /\ r.loc = t.loc + Len(chars)
    /\ \A i \in Places : r.buf[i] = IF t.loc <= i /\ i < r.loc
                                    THEN chars[(i - t.loc) + 1] ELSE t.buf[i]

LEMMA AppendedClean ==
    ASSUME NEW t, NEW chars, NEW r, Appended(t, chars, r),
           t.loc \in Nat, Len(chars) \in Nat,
           \A i \in Places : t.loc + Len(chars) <= i => t.buf[i] = End
    PROVE  Clean(r)
BY PlacesAre DEF Appended, Clean

\* Characters that end no line, with whole colour escapes.
Body(chars) ==
    /\ chars \in Seq({Letter, Space, Mark})
    /\ \A i \in 1 .. Len(chars) : chars[i] = Mark => i + 2 <= Len(chars)

LEMMA AppendedBody ==
    ASSUME NEW t, NEW e, Draft(t, e), NEW chars, Body(chars),
           NEW r, Appended(t, chars, r), r.lines = t.lines, r.loc <= Size
    PROVE  Draft(r, e)
<1>1. /\ t.loc \in Nat /\ Len(chars) \in Nat /\ r.loc = t.loc + Len(chars)
      /\ r.loc \in Places /\ t.lines \in Nat
  BY PlacesAre DEF Draft, Body, Appended, Ends, Stairs
<1>2. /\ \A i \in Places : i < t.loc => r.buf[i] = t.buf[i]
      /\ \A i \in Places : t.loc <= i /\ i < r.loc =>
            /\ (i - t.loc) + 1 \in 1 .. Len(chars)
            /\ r.buf[i] = chars[(i - t.loc) + 1]
  BY <1>1, PlacesAre DEF Appended
<1>3. \A j \in 1 .. Len(chars) : chars[j] \in {Letter, Space, Mark}
  BY DEF Body
<1>4. \A i \in Places : t.loc <= i /\ i < r.loc =>
          r.buf[i] # NL /\ r.buf[i] # End
  BY <1>2, <1>3 DEF Letter, Space, Mark, NL, End
<1>5. Full(r)
  BY <1>1, <1>2, <1>4, PlacesAre DEF Full, Draft
<1>6. ASSUME NEW i \in Places, i < r.loc, r.buf[i] = Mark
      PROVE  i + 2 < r.loc /\ r.buf[i + 1] # NL /\ r.buf[i + 2] # NL
  <2>1. CASE i < t.loc
    <3>1. i + 2 < t.loc /\ t.buf[i + 1] # NL /\ t.buf[i + 2] # NL
      BY <1>2, <1>6, <2>1 DEF Draft, WholeEscapes
    <3>2. i + 1 \in Places /\ i + 2 \in Places /\ i + 1 < t.loc /\ i + 2 < r.loc
      BY <1>1, <3>1, PlacesAre
    <3> QED
      BY <1>2, <3>1, <3>2
  <2>2. CASE t.loc <= i
    <3>1. /\ (i - t.loc) + 1 \in 1 .. Len(chars) /\ chars[(i - t.loc) + 1] = Mark
      BY <1>2, <1>6, <2>2
    <3>2. ((i - t.loc) + 1) + 2 <= Len(chars)
      BY <3>1 DEF Body
    <3>3. /\ i + 2 < r.loc /\ i + 1 < r.loc /\ i + 1 \in Places /\ i + 2 \in Places
          /\ t.loc <= i + 1 /\ t.loc <= i + 2
      BY <1>1, <2>2, <3>2, PlacesAre
    <3> QED
      BY <1>4, <3>3
  <2> QED
    BY <1>1, <2>1, <2>2, PlacesAre
<1>7. Ends(r, e)
  <2>1. /\ Stairs(e, r.lines) /\ e[r.lines] <= r.loc
    <3>1. e[t.lines] \in Nat /\ e[t.lines] <= t.loc /\ Stairs(e, t.lines)
      BY <1>1 DEF Draft, Ends, Stairs
    <3> QED
      BY <1>1, <3>1
  <2>2. ASSUME NEW k \in 1 .. r.lines
        PROVE  r.buf[e[k] - 1] = NL
    <3>1. /\ k \in 0 .. t.lines /\ 0 \in 0 .. t.lines /\ 0 < k
          /\ t.lines \in 0 .. t.lines /\ (k = t.lines \/ k < t.lines)
      BY <1>1
    <3>2. Stairs(e, t.lines) /\ e[0] = 0 /\ e[t.lines] <= t.loc
      BY DEF Draft, Ends, Stairs
    <3>3. e[0] < e[k] /\ (k < t.lines => e[k] < e[t.lines])
      BY <3>1, <3>2, StairsRise
    <3>4. e[k] \in Nat /\ e[t.lines] \in Nat
      BY <3>1, <3>2 DEF Stairs
    <3>5. e[k] - 1 \in Places /\ e[k] - 1 < t.loc
      BY <1>1, <3>1, <3>2, <3>3, <3>4, PlacesAre
    <3>6. t.buf[e[k] - 1] = NL
      BY DEF Draft, Ends
    <3> QED
      BY <1>2, <3>5, <3>6
  <2>3. ASSUME NEW i \in Places, i < r.loc, r.buf[i] = NL
        PROVE  \E k \in 1 .. r.lines : i = e[k] - 1
    <3>1. i < t.loc /\ t.buf[i] = NL
      BY <1>1, <1>2, <1>4, <2>3, PlacesAre
    <3> QED
      BY <3>1 DEF Draft, Ends
  <2> QED
    BY <2>1, <2>2, <2>3 DEF Ends
<1> QED
  BY <1>1, <1>5, <1>6, <1>7 DEF Draft, Appended, WholeEscapes

\* A line of its own that ends at the m-th character.
Ending(chars, m) ==
    /\ chars \in Seq({Letter, Space, NL}) /\ m \in 1 .. Len(chars)
    /\ \A i \in 1 .. Len(chars) : chars[i] = NL <=> i = m

LEMMA AppendedLine ==
    ASSUME NEW t, NEW e, Draft(t, e), NEW chars, NEW m, Ending(chars, m),
           NEW r, Appended(t, chars, r), r.lines = t.lines + 1, r.loc <= Size,
           t.loc + m <= e[t.lines] + max_char_x
    PROVE  \E g : Draft(r, g) /\ g[r.lines] = t.loc + m
<1> DEFINE n == t.lines
           g == [k \in 0 .. (n + 1) |-> IF k <= n THEN e[k] ELSE t.loc + m]
<1>1. /\ t.loc \in Nat /\ Len(chars) \in Nat /\ r.loc = t.loc + Len(chars)
      /\ r.loc \in Places /\ n \in Nat /\ m \in Nat /\ m >= 1 /\ m <= Len(chars)
      /\ r.lines = n + 1
  BY PlacesAre DEF Draft, Ending, Appended, Ends, Stairs
<1>2. /\ \A i \in Places : i < t.loc => r.buf[i] = t.buf[i]
      /\ \A i \in Places : t.loc <= i /\ i < r.loc =>
            /\ (i - t.loc) + 1 \in 1 .. Len(chars)
            /\ r.buf[i] = chars[(i - t.loc) + 1]
  <2>1. t.loc \in Nat /\ Len(chars) \in Nat /\ r.loc = t.loc + Len(chars)
    BY <1>1
  <2> HIDE DEF n
  <2> QED
    BY <2>1, PlacesAre DEF Appended
<1>3. \A j \in 1 .. Len(chars) : chars[j] \in {Letter, Space, NL}
  BY DEF Ending
<1>4. \A i \in Places : t.loc <= i /\ i < r.loc =>
          r.buf[i] # Mark /\ r.buf[i] # End
  BY <1>2, <1>3 DEF Letter, Space, Mark, NL, End
<1>5. Full(r)
  BY <1>1, <1>2, <1>4, PlacesAre DEF Full, Draft
<1>6. ASSUME NEW i \in Places, i < r.loc, r.buf[i] = Mark
      PROVE  i + 2 < r.loc /\ r.buf[i + 1] # NL /\ r.buf[i + 2] # NL
  <2>1. i < t.loc
    BY <1>1, <1>4, <1>6, PlacesAre
  <2>2. i + 2 < t.loc /\ t.buf[i + 1] # NL /\ t.buf[i + 2] # NL
    BY <1>2, <1>6, <2>1 DEF Draft, WholeEscapes
  <2>3. i + 1 \in Places /\ i + 2 \in Places /\ i + 1 < t.loc /\ i + 2 < r.loc
    BY <1>1, <2>2, PlacesAre
  <2> QED
    BY <1>2, <2>2, <2>3
<1>7. /\ Stairs(e, n) /\ e[n] <= t.loc /\ n \in 0 .. n /\ e[n] \in Nat
      /\ \A k \in 0 .. n : e[k] \in Nat
      /\ \A k \in 1 .. n : e[k - 1] < e[k] /\ e[k] <= e[k - 1] + max_char_x
      /\ e[0] = 0
  <2>1. Stairs(e, n) /\ e[n] <= t.loc
    BY DEF Draft, Ends
  <2> HIDE DEF n
  <2> QED
    BY <2>1 DEF Stairs
<1> HIDE DEF n
<1>8. /\ \A k \in 0 .. n : g[k] = e[k]
      /\ g[n + 1] = t.loc + m
  BY <1>1
<1>9. g \in [0 .. (n + 1) -> Nat]
  BY <1>1, <1>7
<1>10. t.loc + m <= e[n] + max_char_x
  BY DEF n
<1> HIDE DEF g
<1>11. Stairs(g, n + 1)
  <2>1. ASSUME NEW k \in 1 .. (n + 1)
        PROVE  g[k - 1] < g[k] /\ g[k] <= g[k - 1] + max_char_x
    <3>1. CASE k <= n
      <4>1. k \in 1 .. n /\ k - 1 \in 0 .. n /\ k \in 0 .. n
        BY <1>1, <3>1
      <4> QED
        BY <1>7, <1>8, <4>1
    <3>2. CASE ~(k <= n)
      <4>1. k = n + 1 /\ k - 1 = n /\ k - 1 \in 0 .. n
        BY <1>1, <3>2
      <4>2. g[k - 1] = e[n] /\ g[k] = t.loc + m
        BY <1>8, <4>1
      <4> QED
        BY <1>1, <1>7, <1>10, <4>2, PlacesAre
    <3> QED
      BY <3>1, <3>2
  <2>2. n + 1 \in Nat /\ g[0] = 0
    BY <1>1, <1>7, <1>8
  <2> QED
    BY <1>9, <2>1, <2>2 DEF Stairs
<1>12. ASSUME NEW k \in 1 .. (n + 1)
       PROVE  r.buf[g[k] - 1] = NL
  <2>1. CASE k <= n
    <3>1. /\ k \in 1 .. n /\ k \in 0 .. n /\ 0 \in 0 .. n /\ 0 < k
          /\ (k = n \/ k < n)
      BY <1>1, <2>1
    <3>2. e[0] < e[k] /\ (k < n => e[k] < e[n])
      BY <1>7, <3>1, StairsRise
    <3>3. e[k] - 1 \in Places /\ e[k] - 1 < t.loc
      <4>1. /\ e[k] \in Nat /\ e[n] \in Nat /\ e[n] <= t.loc /\ e[0] = 0
            /\ t.loc \in Places
        BY <1>7, <3>1 DEF Draft
      <4>2. e[k] <= e[n] /\ e[k] >= 1
        BY <3>1, <3>2, <4>1
      <4> QED
        BY <4>1, <4>2, PlacesAre
    <3>4. t.buf[e[k] - 1] = NL
      BY <3>1 DEF Draft, Ends, n
    <3> QED
      BY <1>2, <1>8, <3>1, <3>3, <3>4
  <2>2. CASE ~(k <= n)
    <3>1. k = n + 1 /\ g[k] = t.loc + m
      BY <1>1, <1>8, <2>2
    <3> DEFINE i == (t.loc + m) - 1
    <3>2. /\ i \in Places /\ t.loc <= i /\ i < r.loc /\ (i - t.loc) + 1 = m
      BY <1>1, PlacesAre
    <3> HIDE DEF i
    <3>3. r.buf[i] = chars[m]
      BY <1>2, <3>2
    <3>4. chars[m] = NL
      BY DEF Ending
    <3> QED
      BY <3>1, <3>3, <3>4 DEF i
  <2> QED
    BY <2>1, <2>2
<1>13. ASSUME NEW i \in Places, i < r.loc, r.buf[i] = NL
       PROVE  \E k \in 1 .. (n + 1) : i = g[k] - 1
  <2>1. CASE i < t.loc
    <3>1. PICK k \in 1 .. n : i = e[k] - 1
      BY <1>2, <1>13, <2>1 DEF Draft, Ends, n
    <3>2. k \in 1 .. (n + 1) /\ k \in 0 .. n
      BY <1>1
    <3> QED
      BY <1>8, <3>1, <3>2
  <2>2. CASE t.loc <= i
    <3>1. (i - t.loc) + 1 = m
      BY <1>2, <1>13, <2>2 DEF Ending
    <3>2. i = g[n + 1] - 1 /\ n + 1 \in 1 .. (n + 1)
      BY <1>1, <1>8, <3>1, PlacesAre
    <3> QED
      BY <3>2
  <2> QED
    BY <1>1, <2>1, <2>2, PlacesAre
<1>14. g[n + 1] <= r.loc
  BY <1>1, <1>8
<1>15. Ends(r, g)
  BY <1>1, <1>11, <1>12, <1>13, <1>14 DEF Ends
<1>16. Draft(r, g)
  BY <1>1, <1>5, <1>6, <1>15 DEF Draft, Appended, WholeEscapes
<1> QED
  BY <1>1, <1>8, <1>16

\* f[n] is the text after n turns of the loop.
Turns(f, t, chars, most, len) ==
    f = [n \in 0 .. len |-> IF n = 0 THEN t
                            ELSE Write(f[n - 1], chars[n], most)]

\* The recursion of Written has a solution.
LEMMA TurnsExist ==
    ASSUME NEW t, NEW chars, NEW most, NEW len \in Nat
    PROVE  \E f : Turns(f, t, chars, most, len)
<1> DEFINE T == {m \in Nat : ~ \E f : Turns(f, t, chars, most, m)}
<1>1. SUFFICES ASSUME T # {} PROVE FALSE
  OBVIOUS
<1>2. PICK m \in T : \A i \in T : m <= i
  BY <1>1, LeastElement
<1>3. CASE m = 0
  <2> DEFINE f == [n \in 0 .. 0 |-> t]
  <2>1. f = [n \in 0 .. 0 |-> IF n = 0 THEN t
                              ELSE Write(f[n - 1], chars[n], most)]
    OBVIOUS
  <2>2. Turns(f, t, chars, most, 0)
    BY <2>1 DEF Turns
  <2> QED
    BY <1>2, <1>3, <2>2
<1>4. CASE m # 0
  <2>1. m \in Nat /\ m - 1 \in Nat /\ m - 1 \notin T
    BY <1>2, <1>4
  <2>2. PICK f : Turns(f, t, chars, most, m - 1)
    BY <2>1
  <2>3. /\ f[0] = t
        /\ \A n \in 1 .. (m - 1) : f[n] = Write(f[n - 1], chars[n], most)
    BY <2>1, <2>2 DEF Turns
  <2> DEFINE g == [n \in 0 .. m |-> IF n < m THEN f[n]
                                    ELSE Write(f[m - 1], chars[m], most)]
  <2>4. \A n \in 0 .. m : g[n] = IF n = 0 THEN t
                                 ELSE Write(g[n - 1], chars[n], most)
    <3>1. g[0] = t
      BY <2>1, <2>3
    <3>2. ASSUME NEW n \in 1 .. (m - 1)
          PROVE  g[n] = Write(g[n - 1], chars[n], most)
      <4>1. g[n] = f[n] /\ g[n - 1] = f[n - 1]
        BY <2>1
      <4> QED
        BY <2>3, <4>1
    <3>3. g[m] = Write(g[m - 1], chars[m], most)
      <4>1. g[m - 1] = f[m - 1] /\ g[m] = Write(f[m - 1], chars[m], most)
        BY <2>1
      <4> QED
        BY <4>1
    <3> HIDE DEF g
    <3>4. \A n \in 0 .. m : n = 0 \/ n \in 1 .. (m - 1) \/ n = m
      BY <2>1
    <3> QED
      BY <2>1, <3>1, <3>2, <3>3, <3>4
  <2>5. g = [n \in 0 .. m |-> g[n]]
    OBVIOUS
  <2> HIDE DEF g
  <2>6. Turns(g, t, chars, most, m)
    BY <2>4, <2>5, Zenon DEF Turns
  <2> QED
    BY <1>2, <2>6
<1> QED
  BY <1>3, <1>4

LEMMA WrittenTurns ==
    ASSUME NEW t, NEW chars, NEW most, Len(chars) \in Nat
    PROVE  \E f : /\ Written(t, chars, most) = f[Len(chars)]
                  /\ f[0] = t
                  /\ \A n \in 1 .. Len(chars) :
                        f[n] = Write(f[n - 1], chars[n], most)
<1> DEFINE after[n \in 0 .. Len(chars)] ==
              IF n = 0 THEN t ELSE Write(after[n - 1], chars[n], most)
<1>1. PICK g : Turns(g, t, chars, most, Len(chars))
  BY TurnsExist
<1>2. Written(t, chars, most) = after[Len(chars)]
  BY Zenon DEF Written
<1>3. Turns(after, t, chars, most, Len(chars))
  BY <1>1, Zenon DEF Turns
<1> HIDE DEF after
<1>4. /\ after[0] = t
      /\ \A n \in 1 .. Len(chars) :
            after[n] = Write(after[n - 1], chars[n], most)
  BY <1>3 DEF Turns
<1> QED
  BY <1>2, <1>4

\* A character for which there is no need to scroll.
LEMMA WriteFields ==
    ASSUME NEW t \in TextType, t.loc \in Places, NEW ch \in Characters,
           NEW most \in Int, t.lines + (IF ch = NL THEN 1 ELSE 0) < most
    PROVE  LET r == Write(t, ch, most)
           IN  /\ r \in TextType
               /\ r.buf = [t.buf EXCEPT ![t.loc] = ch]
               /\ r.loc = t.loc + 1
               /\ r.lines = t.lines + (IF ch = NL THEN 1 ELSE 0)
               /\ r.over = t.over
<1> DEFINE c == Counted(t, ch)
<1>1. /\ c \in TextType /\ c.buf = t.buf /\ c.loc = t.loc /\ c.over = t.over
      /\ c.lines = t.lines + (IF ch = NL THEN 1 ELSE 0)
  BY CountedFields
<1>2. t.lines \in Int
  BY DEF TextType
<1>3. Write(t, ch, most) = Put(c, ch)
  <2>1. ~(c.lines >= most)
    BY <1>1, <1>2
  <2> QED
    BY <2>1 DEF Write
<1> HIDE DEF c
<1>4. /\ Put(c, ch) \in TextType
      /\ Put(c, ch).buf = [c.buf EXCEPT ![c.loc] = ch]
      /\ Put(c, ch).loc = c.loc + 1
      /\ Put(c, ch).lines = c.lines
      /\ Put(c, ch).over = c.over
  BY <1>1, PutFields
<1> QED
  BY <1>1, <1>3, <1>4

\* The text t and n of the characters, of which the m-th ends a line.
Partial(t, chars, m, r, n) ==
    /\ r \in TextType /\ ~r.over
    /\ r.loc = t.loc + n
    /\ r.lines = t.lines + (IF m <= n THEN 1 ELSE 0)
    /\ \A i \in Places : r.buf[i] = IF t.loc <= i /\ i < t.loc + n
                                    THEN chars[(i - t.loc) + 1] ELSE t.buf[i]

\* There is room for the characters behind t.
Fits(t, chars, m, most) ==
    /\ t \in TextType /\ ~t.over /\ t.loc \in Nat /\ most \in Int
    /\ chars \in Seq(Characters) /\ m \in 1 .. (Len(chars) + 1)
    /\ \A i \in 1 .. Len(chars) : chars[i] = NL <=> i = m
    /\ t.loc + Len(chars) <= Size
    /\ t.lines + (IF m <= Len(chars) THEN 1 ELSE 0) < most

LEMMA PartialStep ==
    ASSUME NEW t, NEW chars, NEW m, NEW most, Fits(t, chars, m, most),
           NEW n \in 1 .. Len(chars), NEW r, Partial(t, chars, m, r, n - 1)
    PROVE  Partial(t, chars, m, Write(r, chars[n], most), n)
<1> DEFINE ch == chars[n]
           w == Write(r, ch, most)
<1>1. /\ Len(chars) \in Nat /\ ch \in Characters /\ t.loc \in Nat /\ m \in Nat
      /\ t.lines \in Int /\ most \in Int /\ n \in Nat /\ (ch = NL <=> n = m)
  BY DEF Fits, TextType
<1>2. /\ r \in TextType /\ ~r.over /\ r.loc = (t.loc + n) - 1
      /\ r.lines = t.lines + (IF m <= n - 1 THEN 1 ELSE 0)
  BY <1>1 DEF Partial
<1>3. r.loc \in Places
  <2>1. t.loc + Len(chars) <= Size
    BY DEF Fits
  <2> HIDE DEF ch
  <2> QED
    BY <1>1, <1>2, <2>1, PlacesAre
<1>4. /\ r.lines + (IF ch = NL THEN 1 ELSE 0) = t.lines + (IF m <= n THEN 1 ELSE 0)
      /\ r.lines + (IF ch = NL THEN 1 ELSE 0) < most
  <2>1. t.lines + (IF m <= Len(chars) THEN 1 ELSE 0) < most
    BY DEF Fits
  <2> HIDE DEF ch
  <2> QED
    BY <1>1, <1>2, <2>1
<1> HIDE DEF ch
<1>5. /\ w \in TextType /\ w.buf = [r.buf EXCEPT ![r.loc] = ch]
      /\ w.loc = r.loc + 1 /\ w.over = r.over
      /\ w.lines = r.lines + (IF ch = NL THEN 1 ELSE 0)
  BY <1>1, <1>2, <1>3, <1>4, WriteFields
<1> HIDE DEF w
<1>6. w.loc = t.loc + n /\ ~w.over /\ w.lines = t.lines + (IF m <= n THEN 1 ELSE 0)
  BY <1>1, <1>2, <1>4, <1>5
<1>7. ASSUME NEW i \in Places
      PROVE  w.buf[i] = IF t.loc <= i /\ i < t.loc + n
                        THEN chars[(i - t.loc) + 1] ELSE t.buf[i]
  <2>1. r.buf[i] = IF t.loc <= i /\ i < t.loc + (n - 1)
                   THEN chars[(i - t.loc) + 1] ELSE t.buf[i]
    BY DEF Partial
  <2>2. CASE i = r.loc
    <3>1. w.buf[i] = ch
      BY <1>2, <1>3, <1>5, <2>2 DEF TextType
    <3>2. (i - t.loc) + 1 = n /\ t.loc <= i /\ i < t.loc + n
      <4>1. /\ t.loc \in Nat /\ n \in Nat /\ n >= 1 /\ i = (t.loc + n) - 1
        BY <1>1, <1>2, <2>2
      <4> QED
        BY <4>1
    <3> QED
      BY <3>1, <3>2 DEF ch
  <2>3. CASE i # r.loc
    <3>1. w.buf[i] = r.buf[i]
      BY <1>2, <1>3, <1>5, <2>3 DEF TextType
    <3>2. t.loc <= i /\ i < t.loc + n <=> t.loc <= i /\ i < t.loc + (n - 1)
      <4>1. /\ t.loc \in Nat /\ n \in Nat /\ i \in Nat /\ i # (t.loc + n) - 1
        BY <1>1, <1>2, <2>3, PlacesAre
      <4> QED
        BY <4>1
    <3> QED
      BY <2>1, <3>1, <3>2
  <2> QED
    BY <2>2, <2>3
<1> QED
  BY <1>5, <1>6, <1>7 DEF Partial, w, ch

LEMMA WrittenPartial ==
    ASSUME NEW t, NEW u, NEW chars, NEW m, NEW most, Fits(u, chars, m, most),
           \/ u = t
           \/ /\ Len(chars) >= 1
              /\ Partial(u, chars, m, Write(t, chars[1], most), 1)
    PROVE  Partial(u, chars, m, Written(t, chars, most), Len(chars))
<1>1. Len(chars) \in Nat
  BY DEF Fits
<1>2. PICK f : /\ Written(t, chars, most) = f[Len(chars)]
               /\ f[0] = t
               /\ \A n \in 1 .. Len(chars) :
                     f[n] = Write(f[n - 1], chars[n], most)
  BY <1>1, WrittenTurns
<1>3. u = t => Partial(u, chars, m, f[0], 0)
  BY <1>2, PlacesAre DEF Partial, Fits, TextType
<1>4. Len(chars) >= 1 => Partial(u, chars, m, f[1], 1)
  <2> SUFFICES ASSUME Len(chars) >= 1 PROVE Partial(u, chars, m, f[1], 1)
    OBVIOUS
  <2>1. 1 \in 1 .. Len(chars) /\ 1 - 1 = 0
    BY <1>1
  <2>2. f[1] = Write(t, chars[1], most)
    BY <1>2, <2>1
  <2>3. CASE u = t
    BY <1>2, <1>3, <2>1, <2>2, <2>3, PartialStep
  <2> QED
    BY <2>2, <2>3
<1> DEFINE T == {n \in 1 .. Len(chars) : ~Partial(u, chars, m, f[n], n)}
<1>5. CASE T # {}
  <2>1. PICK n \in T : \A i \in T : n <= i
    <3>1. T \subseteq Nat
      OBVIOUS
    <3> QED
      BY <1>5, <3>1, LeastElement
  <2>2. n # 1
    BY <1>1, <1>4, <2>1
  <2>3. n \in 1 .. Len(chars) /\ n - 1 \in 1 .. Len(chars) /\ n - 1 \notin T
    BY <1>1, <2>1, <2>2
  <2>4. Partial(u, chars, m, f[n - 1], n - 1)
    BY <2>3
  <2>5. Partial(u, chars, m, f[n], n)
    BY <1>2, <2>3, <2>4, PartialStep
  <2> QED
    BY <2>1, <2>5
<1>6. CASE T = {}
  <2>1. CASE Len(chars) = 0
    BY <1>2, <1>3, <2>1
  <2>2. CASE Len(chars) >= 1
    BY <1>1, <1>2, <1>6, <2>2
  <2> QED
    BY <1>1, <2>1, <2>2
<1> QED
  BY <1>5, <1>6

-----------------------------------------------------------------------------
(* Messages.                                                               *)

\* The text, with p characters in its last line.
InLine(t, p) ==
    /\ Clean(t) /\ p \in Nat
    /\ \E e : Draft(t, e) /\ t.loc = e[t.lines] + p

LEMMA DraftTypes ==
    ASSUME NEW t, NEW e, Draft(t, e)
    PROVE  /\ t \in TextType /\ ~t.over /\ t.loc \in Places /\ t.loc \in Nat
           /\ t.lines \in Nat /\ Stairs(e, t.lines) /\ e[t.lines] \in Nat
<1>1. t \in TextType /\ ~t.over /\ t.loc \in Places /\ Stairs(e, t.lines)
  BY DEF Draft, Ends
<1>2. t.lines \in Nat /\ t.loc \in Nat /\ t.lines \in 0 .. t.lines
  BY <1>1, PlacesAre DEF Stairs
<1> QED
  BY <1>1, <1>2 DEF Stairs

LEMMA BodyTypes ==
    ASSUME NEW chars, Body(chars)
    PROVE  /\ chars \in Seq(Characters) /\ Len(chars) \in Nat
           /\ \A i \in 1 .. Len(chars) : chars[i] # NL /\ chars[i] \in Characters
<1>1. /\ chars \in Seq({Letter, Space, Mark}) /\ Len(chars) \in Nat
  BY DEF Body
<1>2. {Letter, Space, Mark} \subseteq Characters /\ NL \notin {Letter, Space, Mark}
  BY DEF Characters, Letter, Space, Mark, NL
<1>3. \A i \in 1 .. Len(chars) : chars[i] \in {Letter, Space, Mark}
  BY <1>1
<1>4. chars \in Seq(Characters)
  BY <1>1, <1>2
<1> QED
  BY <1>1, <1>2, <1>3, <1>4

\* A part of a line is written to u, possibly after a scroll from t.
Onto(t, u, p, chars, most) ==
    /\ InLine(u, p) /\ u.lines <= max_char_y - 1
    /\ Body(chars) /\ p + Len(chars) <= max_char_x
    /\ most \in {max_char_y, max_char_y + 1}
    /\ \/ u = t
       \/ /\ Len(chars) >= 1
          /\ Write(t, chars[1], most) = Write(u, chars[1], most)

LEMMA BodyOnto ==
    ASSUME NEW t, NEW u, NEW p, NEW chars, NEW most, Onto(t, u, p, chars, most)
    PROVE  /\ InLine(Written(t, chars, most), p + Len(chars))
           /\ Written(t, chars, most).lines = u.lines
<1> USE DEF Onto
<1> DEFINE m == Len(chars) + 1
           r == Written(t, chars, most)
<1>1. PICK e : Draft(u, e) /\ u.loc = e[u.lines] + p
  BY DEF InLine
<1>2. /\ u \in TextType /\ ~u.over /\ u.loc \in Nat /\ u.lines \in Nat
      /\ Stairs(e, u.lines) /\ e[u.lines] \in Nat
  BY <1>1, DraftTypes
<1>3. /\ chars \in Seq(Characters) /\ Len(chars) \in Nat /\ p \in Nat
      /\ \A i \in 1 .. Len(chars) : chars[i] # NL
  BY BodyTypes DEF InLine
<1>4. u.loc + Len(chars) <= Size
  <2>1. e[u.lines] + max_char_x <= Size
    BY <1>2, RoomForALine
  <2> QED
    BY <1>1, <1>2, <1>3, <2>1, PlacesAre
<1>5. Fits(u, chars, m, most)
  <2>1. /\ m \in 1 .. (Len(chars) + 1) /\ ~(m <= Len(chars))
        /\ \A i \in 1 .. Len(chars) : chars[i] = NL <=> i = m
    BY <1>3
  <2>2. most \in Int /\ u.lines + 0 < most
    BY <1>2, PlacesAre
  <2> HIDE DEF m
  <2> QED
    BY <1>2, <1>3, <1>4, <2>1, <2>2 DEF Fits
<1>6. Partial(u, chars, m, r, Len(chars))
  <2>1. CASE u = t
    BY <1>5, <2>1, WrittenPartial
  <2>2. CASE Len(chars) >= 1 /\ Write(t, chars[1], most) = Write(u, chars[1], most)
    <3>1. 1 \in 1 .. Len(chars) /\ ~(m <= 1 - 1) /\ 1 - 1 = 0
      BY <1>3, <2>2
    <3>2. \A i \in Places : ~(u.loc <= i /\ i < u.loc + 0)
      BY <1>2, PlacesAre
    <3>3. Partial(u, chars, m, u, 1 - 1)
      BY <1>2, <3>1, <3>2 DEF Partial
    <3>4. Partial(u, chars, m, Write(u, chars[1], most), 1)
      BY <1>5, <3>1, <3>3, PartialStep
    <3> QED
      BY <1>5, <2>2, <3>4, WrittenPartial
  <2> QED
    BY <2>1, <2>2
<1> HIDE DEF r
<1>7. /\ Appended(u, chars, r) /\ r.lines = u.lines /\ r.loc = u.loc + Len(chars)
  <2>1. ~(m <= Len(chars))
    BY <1>3
  <2>2. /\ r \in TextType /\ ~r.over /\ r.loc = u.loc + Len(chars)
        /\ r.lines = u.lines
    BY <1>2, <1>6, <2>1 DEF Partial
  <2>3. \A i \in Places : r.buf[i] = IF u.loc <= i /\ i < r.loc
                                     THEN chars[(i - u.loc) + 1] ELSE u.buf[i]
    BY <1>6, <2>2 DEF Partial
  <2> QED
    BY <2>2, <2>3 DEF Appended
<1>8. Draft(r, e)
  BY <1>1, <1>4, <1>7, AppendedBody
<1>9. Clean(r)
  <2>1. \A i \in Places : u.loc + Len(chars) <= i => u.buf[i] = End
    BY <1>2, <1>3, PlacesAre DEF InLine, Clean
  <2> QED
    BY <1>2, <1>3, <1>7, <2>1, AppendedClean
<1>10. r.loc = e[r.lines] + (p + Len(chars)) /\ p + Len(chars) \in Nat
  BY <1>1, <1>2, <1>3, <1>7
<1> QED
  BY <1>7, <1>8, <1>9, <1>10 DEF InLine, r

\* A part of a line leaves room for the prompt: printf scrolls before it, if
\* the screen is full.
LEMMA WriteBody ==
    ASSUME NEW t, NEW p, InLine(t, p), NEW chars, Body(chars),
           p + Len(chars) <= max_char_x,
           NEW most \in {max_char_y, max_char_y + 1}, max_char_y >= 2,
           \/ t.lines <= max_char_y - 1
           \/ t.lines = max_char_y /\ most = max_char_y /\ Len(chars) >= 1
    PROVE  /\ InLine(Written(t, chars, most), p + Len(chars))
           /\ Written(t, chars, most).lines <= max_char_y - 1
<1>1. CASE t.lines <= max_char_y - 1
  <2>1. Onto(t, t, p, chars, most)
    BY <1>1 DEF Onto
  <2> QED
    BY <1>1, <2>1, BodyOnto
<1>2. CASE t.lines = max_char_y /\ most = max_char_y /\ Len(chars) >= 1
  <2>1. PICK e : Draft(t, e) /\ t.loc = e[t.lines] + p
    BY DEF InLine
  <2>2. /\ t \in TextType /\ ~t.over /\ t.loc \in Nat /\ t.lines \in Nat
        /\ e[t.lines] \in Nat /\ t.lines >= 1 /\ p \in Nat
    BY <1>2, <2>1, DraftTypes DEF InLine
  <2> DEFINE ch == chars[1]
             u == scroll_text_buffer_down(t)
             g == Lowered(e, t.lines)
  <2>3. ch # NL /\ ch \in Characters
    BY <1>2, BodyTypes
  <2>4. /\ u \in TextType /\ u.buf = Behind(t, e[1]) /\ u.loc = t.loc - e[1]
        /\ u.lines = t.lines - 1 /\ ~u.over
    BY <2>1, <2>2, Scrolled DEF InLine
  <2> HIDE DEF u, ch
  <2>5. Draft(u, g) /\ Clean(u) /\ u.loc - g[u.lines] = t.loc - e[t.lines]
    BY <2>1, <2>2, <2>4, LoweredDraft DEF InLine
  <2>6. InLine(u, p) /\ u.lines <= max_char_y - 1
    <3>1. u.loc \in Nat /\ g[u.lines] \in Nat
      BY <2>5, DraftTypes
    <3> HIDE DEF g
    <3>2. u.loc = g[u.lines] + p
      <4> DEFINE a == e[t.lines]
                 b == g[u.lines]
      <4>1. /\ a \in Nat /\ b \in Nat /\ p \in Nat /\ u.loc \in Nat
            /\ u.loc - b = t.loc - a /\ t.loc = a + p
        BY <2>1, <2>2, <2>5, <3>1
      <4> HIDE DEF a, b
      <4>2. u.loc = b + p
        BY <4>1
      <4> QED
        BY <4>2 DEF b
    <3> QED
      BY <1>2, <2>2, <2>4, <2>5, <3>2, PlacesAre DEF InLine
  <2>7. Write(t, ch, most) = Write(u, ch, most)
    <3>1. Counted(t, ch) = t /\ Counted(u, ch) = u
      BY <2>3 DEF Counted
    <3>2. t.lines >= most /\ ~(u.lines >= most)
      BY <1>2, <2>2, <2>4, PlacesAre
    <3> QED
      BY <3>1, <3>2 DEF Write, u
  <2>8. Write(t, chars[1], most) = Write(u, chars[1], most)
    BY <2>7 DEF ch
  <2>9. Onto(t, u, p, chars, most)
    BY <1>2, <2>6, <2>8 DEF Onto
  <2> QED
    BY <2>6, <2>9, BodyOnto
<1> QED
  BY <1>1, <1>2

\* The end of a line, after which the prompt has its line on the screen.
LEMMA EndLine ==
    ASSUME NEW t, NEW p, InLine(t, p), p + 1 <= max_char_x, max_char_y >= 2,
           t.lines <= max_char_y - 1
    PROVE  /\ InLine(Write(t, NL, max_char_y), 0)
           /\ Write(t, NL, max_char_y).lines <= max_char_y - 1
<1> DEFINE r == Write(t, NL, max_char_y)
           chars == <<NL>>
<1>1. PICK e : Draft(t, e) /\ t.loc = e[t.lines] + p
  BY DEF InLine
<1>2. /\ t \in TextType /\ ~t.over /\ t.loc \in Nat /\ t.lines \in Nat
      /\ Stairs(e, t.lines) /\ e[t.lines] \in Nat /\ p \in Nat /\ Clean(t)
  BY <1>1, DraftTypes DEF InLine
<1>3. NL \in Characters /\ Ending(chars, 1) /\ Len(chars) = 1
  BY DEF Characters, Ending
\* It is enough to find the text u to which the end of the line is added.
<1>4. ASSUME NEW u, NEW g, Draft(u, g), Clean(u), u.loc = g[u.lines] + p,
             u.lines <= max_char_y - 1,
             r \in TextType, ~r.over, r.lines = u.lines + 1, r.loc = u.loc + 1,
             r.buf = [u.buf EXCEPT ![u.loc] = NL], r.lines <= max_char_y - 1
      PROVE  InLine(r, 0)
  <2> HIDE DEF r
  <2>1. /\ u \in TextType /\ u.loc \in Nat /\ u.lines \in Nat /\ u.loc \in Places
        /\ Stairs(g, u.lines) /\ g[u.lines] \in Nat
    BY <1>4, DraftTypes
  <2>2. r.loc <= Size
    <3>1. g[u.lines] + max_char_x <= Size
      BY <1>4, <2>1, RoomForALine
    <3> QED
      BY <1>2, <1>4, <2>1, <3>1, PlacesAre
  <2>3. Appended(u, chars, r)
    <3>1. ASSUME NEW i \in Places
          PROVE  r.buf[i] = IF u.loc <= i /\ i < r.loc
                            THEN chars[(i - u.loc) + 1] ELSE u.buf[i]
      <4>1. r.buf[i] = IF i = u.loc THEN NL ELSE u.buf[i]
        BY <1>4, <2>1 DEF TextType
      <4>2. u.loc <= i /\ i < r.loc <=> i = u.loc
        BY <1>4, <2>1, PlacesAre
      <4>3. i = u.loc => chars[(i - u.loc) + 1] = NL
        BY <2>1
      <4> QED
        BY <4>1, <4>2, <4>3
    <3> QED
      BY <1>3, <1>4, <3>1 DEF Appended
  <2>4. u.loc + 1 <= g[u.lines] + max_char_x
    BY <1>2, <1>4, <2>1, PlacesAre
  <2>5. PICK h : Draft(r, h) /\ h[r.lines] = u.loc + 1
    BY <1>3, <1>4, <2>2, <2>3, <2>4, AppendedLine
  <2>6. Clean(r)
    <3>1. \A i \in Places : u.loc + Len(chars) <= i => u.buf[i] = End
      BY <1>3, <1>4, <2>1, PlacesAre DEF Clean
    <3> QED
      BY <1>3, <2>1, <2>3, <3>1, AppendedClean
  <2>7. r.loc = h[r.lines] + 0
    BY <1>4, <2>1, <2>5
  <2> QED
    BY <2>5, <2>6, <2>7 DEF InLine
<1>5. CASE t.lines + 1 <= max_char_y - 1
  <2>1. t.loc \in Places /\ max_char_y \in Int /\ t.lines + 1 < max_char_y
    BY <1>1, <1>2, <1>5, PlacesAre DEF Draft
  <2>2. /\ r \in TextType /\ r.buf = [t.buf EXCEPT ![t.loc] = NL]
        /\ r.loc = t.loc + 1 /\ r.lines = t.lines + 1 /\ r.over = t.over
    BY <1>2, <1>3, <2>1, WriteFields
  <2> HIDE DEF r
  <2>3. InLine(r, 0)
    BY <1>1, <1>2, <1>4, <1>5, <2>2
  <2> QED
    BY <1>5, <2>2, <2>3 DEF r
<1>6. CASE ~(t.lines + 1 <= max_char_y - 1)
  <2>1. t.lines = max_char_y - 1 /\ t.lines >= 1
    BY <1>2, <1>6, PlacesAre
  <2> DEFINE c == Counted(t, NL)
             s == scroll_text_buffer_down(c)
             u == [s EXCEPT !.lines = t.lines - 1]
             g == Lowered(e, t.lines)
  <2>2. /\ c \in TextType /\ c.buf = t.buf /\ c.loc = t.loc /\ c.over = t.over
        /\ c.lines = t.lines + 1
    BY <1>2, <1>3, CountedFields
  <2>3. r = Put(s, NL)
    <3>1. c.lines >= max_char_y
      BY <2>1, <2>2, PlacesAre
    <3> QED
      BY <3>1 DEF Write
  <2> HIDE DEF c, r
  <2>4. /\ s \in TextType /\ s.buf = Behind(t, e[1]) /\ s.loc = t.loc - e[1]
        /\ s.lines = c.lines - 1 /\ ~s.over
    BY <1>1, <1>2, <2>1, <2>2, Scrolled
  <2> HIDE DEF s
  <2>5. /\ u \in TextType /\ u.buf = s.buf /\ u.loc = s.loc
        /\ u.lines = t.lines - 1
    BY <1>2, <2>4 DEF TextType
  <2>6. ~u.over
    BY <2>4 DEF TextType
  <2> HIDE DEF u
  <2>7. Draft(u, g) /\ Clean(u) /\ u.loc - g[u.lines] = t.loc - e[t.lines]
    BY <1>1, <1>2, <2>1, <2>4, <2>5, <2>6, LoweredDraft
  <2>8. u.loc \in Nat /\ u.loc \in Places /\ u.lines \in Nat /\ g[u.lines] \in Nat
    BY <2>7, DraftTypes
  <2> HIDE DEF g
  <2>9. u.loc = g[u.lines] + p
    BY <1>1, <1>2, <2>7, <2>8
  <2>10. /\ r \in TextType /\ r.buf = [s.buf EXCEPT ![s.loc] = NL]
         /\ r.loc = s.loc + 1 /\ r.lines = s.lines /\ r.over = s.over
    BY <1>3, <2>3, <2>4, <2>5, <2>8, PutFields
  <2>11. /\ r.buf = [u.buf EXCEPT ![u.loc] = NL] /\ r.loc = u.loc + 1
         /\ r.lines = u.lines + 1 /\ ~r.over /\ r.lines <= max_char_y - 1
         /\ u.lines <= max_char_y - 1
    BY <1>2, <2>1, <2>2, <2>4, <2>5, <2>10, PlacesAre
  <2>12. InLine(r, 0)
    BY <1>4, <2>7, <2>9, <2>10, <2>11
  <2> QED
    BY <2>11, <2>12 DEF r
<1> QED
  BY <1>5, <1>6

\* A whole line, or the rest of one.
LEMMA PrintLine ==
    ASSUME NEW t, NEW p, InLine(t, p), NEW chars, Body(chars),
           (p + Len(chars)) + 1 <= max_char_x, max_char_y >= 2,
           \/ t.lines <= max_char_y - 1
           \/ t.lines = max_char_y /\ Len(chars) >= 1
    PROVE  /\ InLine(print_line(t, chars), 0)
           /\ print_line(t, chars).lines <= max_char_y - 1
<1> DEFINE w == Written(t, chars, max_char_y)
           q == p + Len(chars)
<1>1. Len(chars) \in Nat /\ p \in Nat
  BY BodyTypes DEF InLine
<1>2. q <= max_char_x /\ q + 1 <= max_char_x /\ q \in Nat
  BY <1>1, PlacesAre
<1>3. InLine(w, q) /\ w.lines <= max_char_y - 1
  BY <1>2, WriteBody
<1>4. print_line(t, chars) = Write(w, NL, max_char_y)
  BY DEF print_line, print
<1> HIDE DEF w, q
<1> QED
  BY <1>2, <1>3, <1>4, EndLine

LEMMA LettersBody ==
    ASSUME NEW n \in Nat
    PROVE  Body(Letters(n)) /\ Len(Letters(n)) = n
<1>1. /\ Letters(n) \in Seq({Letter, Space, Mark}) /\ Len(Letters(n)) = n
      /\ \A i \in 1 .. n : Letters(n)[i] = Letter
  BY DEF Letters
<1> QED
  BY <1>1 DEF Body, Letter, Mark

LEMMA ColouredBody ==
    ASSUME NEW n \in Nat
    PROVE  Body(Colour \o Letters(n)) /\ Len(Colour \o Letters(n)) = n + 3
<1> DEFINE c == Colour \o Letters(n)
<1>1. /\ Letters(n) \in Seq({Letter, Space, Mark}) /\ Len(Letters(n)) = n
      /\ \A i \in 1 .. n : Letters(n)[i] = Letter
  BY DEF Letters
<1>2. Colour \in Seq({Letter, Space, Mark}) /\ Len(Colour) = 3
      /\ Colour[2] = Letter /\ Colour[3] = Letter
  BY DEF Colour
<1>3. /\ c \in Seq({Letter, Space, Mark}) /\ Len(c) = n + 3
      /\ \A i \in 1 .. (n + 3) : c[i] = IF i <= 3 THEN Colour[i]
                                        ELSE Letters(n)[i - 3]
  <2> DEFINE S == {Letter, Space, Mark}
             a == Colour
             b == Letters(n)
  <2>1. a \in Seq(S) /\ b \in Seq(S) /\ Len(a) = 3 /\ Len(b) = n
    BY <1>1, <1>2
  <2> HIDE DEF S, a, b
  <2>2. /\ a \o b \in Seq(S) /\ Len(a \o b) = Len(a) + Len(b)
        /\ \A i \in 1 .. Len(a) + Len(b) :
              (a \o b)[i] = IF i <= Len(a) THEN a[i] ELSE b[i - Len(a)]
    BY <2>1, ConcatProperties
  <2>3. /\ Len(a \o b) = n + 3
        /\ \A i \in 1 .. (n + 3) : (a \o b)[i] = IF i <= 3 THEN a[i] ELSE b[i - 3]
    BY <2>1, <2>2
  <2> QED
    BY <2>2, <2>3 DEF S, a, b
<1> HIDE DEF c
<1>4. ASSUME NEW i \in 1 .. (n + 3), i # 1
      PROVE  c[i] = Letter
  <2>1. i = 2 \/ i = 3 \/ (~(i <= 3) /\ i - 3 \in 1 .. n)
    BY <1>4
  <2> QED
    BY <1>1, <1>2, <1>3, <2>1
<1>5. \A i \in 1 .. Len(c) : c[i] = Mark => i + 2 <= Len(c)
  <2>1. TAKE i \in 1 .. Len(c)
  <2>2. CASE i = 1
    BY <1>3, <2>2
  <2>3. CASE i # 1
    <3>1. c[i] = Letter
      BY <1>3, <1>4, <2>3
    <3> QED
      BY <3>1 DEF Letter, Mark
  <2> QED
    BY <2>2, <2>3
<1> QED
  BY <1>3, <1>5 DEF Body, c

LEMMA EmptyBody == Body(<<>>) /\ Len(<<>>) = 0
BY DEF Body

LEMMA StoreFields ==
    ASSUME NEW t \in TextType, NEW i \in Places, NEW ch \in Characters
    PROVE  /\ Store(t, i, ch) \in TextType
           /\ Store(t, i, ch).buf = [t.buf EXCEPT ![i] = ch]
           /\ Store(t, i, ch).loc = t.loc
           /\ Store(t, i, ch).lines = t.lines
           /\ Store(t, i, ch).over = t.over
<1> DEFINE b == [t.buf EXCEPT ![i] = ch]
           s == [t EXCEPT !.buf = b]
<1>1. Store(t, i, ch) = s
  BY DEF Store, TextType
<1>2. b \in [Places -> Characters]
  BY DEF TextType
<1> HIDE DEF b
<1>3. s \in TextType /\ s.buf = b /\ s.loc = t.loc /\ s.lines = t.lines
  BY <1>2 DEF TextType
<1>4. s.over = t.over
  BY DEF TextType
<1> QED
  BY <1>1, <1>3, <1>4 DEF b

\* What is behind the text does not matter to it.
LEMMA SameDraft ==
    ASSUME NEW t, NEW e, Draft(t, e), NEW u \in TextType, ~u.over,
           u.loc = t.loc, u.lines = t.lines,
           \A i \in Places : i < t.loc => u.buf[i] = t.buf[i]
    PROVE  Draft(u, e)
<1>1. /\ t.loc \in Places /\ t.loc \in Nat /\ t.lines \in Nat
      /\ Stairs(e, t.lines) /\ e[t.lines] \in Nat /\ e[t.lines] <= t.loc
  BY DraftTypes DEF Draft, Ends
<1>2. Full(u)
  BY DEF Draft, Full
<1>3. WholeEscapes(u)
  <2>1. ASSUME NEW i \in Places, i < u.loc, u.buf[i] = Mark
        PROVE  i + 2 < u.loc /\ u.buf[i + 1] # NL /\ u.buf[i + 2] # NL
    <3>1. i + 2 < t.loc /\ t.buf[i + 1] # NL /\ t.buf[i + 2] # NL
      BY <2>1 DEF Draft, WholeEscapes
    <3>2. i + 1 \in Places /\ i + 2 \in Places /\ i + 1 < t.loc
      BY <1>1, <3>1, PlacesAre
    <3> QED
      BY <3>1, <3>2
  <2> QED
    BY <2>1 DEF WholeEscapes
<1>4. ASSUME NEW k \in 1 .. t.lines
      PROVE  u.buf[e[k] - 1] = NL
  <2>1. /\ k \in 0 .. t.lines /\ 0 \in 0 .. t.lines /\ 0 < k
        /\ t.lines \in 0 .. t.lines /\ (k = t.lines \/ k < t.lines)
    BY <1>1
  <2>2. e[0] < e[k] /\ (k < t.lines => e[k] < e[t.lines])
    BY <1>1, <2>1, StairsRise
  <2>3. e[0] = 0 /\ e[k] \in Nat
    BY <1>1, <2>1 DEF Stairs
  <2>4. e[k] - 1 \in Places /\ e[k] - 1 < t.loc
    BY <1>1, <2>1, <2>2, <2>3, PlacesAre
  <2>5. t.buf[e[k] - 1] = NL
    BY DEF Draft, Ends
  <2> QED
    BY <2>4, <2>5
<1>5. Ends(u, e)
  <2>1. \A i \in Places : i < u.loc /\ u.buf[i] = NL =>
           \E k \in 1 .. u.lines : i = e[k] - 1
    BY DEF Draft, Ends
  <2> QED
    BY <1>1, <1>4, <2>1 DEF Ends
<1> QED
  BY <1>1, <1>2, <1>3, <1>5 DEF Draft

-----------------------------------------------------------------------------
(* The text and the user's line.                                           *)

\* The user has reached column h of the line: nothing was typed into the
\* columns from there on, and nothing shows behind it in the text buffer.
Echo(t, chars, h) ==
    /\ h \in 2 .. (MaxTyped + 2)
    /\ \A i \in Columns : IF i < h THEN chars[i] \in {Letter, Space}
                          ELSE chars[i] = End
    /\ \A i \in Places : t.loc <= i /\ t.buf[i] # End =>
          t.loc + 2 <= i /\ i < t.loc + h

\* Between two operations the text ends with a line, and a line of the screen
\* is left to the prompt.
TextInv ==
    /\ booted \in 0 .. MaxBoot
    /\ text.lines <= max_char_y - 1
    /\ \E e : Draft(text, e) /\ text.loc = e[text.lines]
    /\ \E h : Echo(text, user_chars, h) /\ user_char_index <= h
    /\ ~term_ready => user_chars[2] = End

LEMMA TextInit ==
    ASSUME LinesFit, Init
    PROVE  TextInv
<1> DEFINE e == [k \in 0 .. 0 |-> 0]
           none == [i \in Places |-> End]
<1>1. text = [buf |-> none, loc |-> 0, lines |-> 0, over |-> FALSE]
  BY DEF Init
<1>2. none \in [Places -> Characters] /\ \A i \in Places : none[i] = End
  BY DEF Characters
<1> HIDE DEF none
<1>3. /\ text \in TextType /\ text.buf = none /\ text.loc = 0 /\ text.lines = 0
      /\ ~text.over
  BY <1>1, <1>2 DEF TextType
<1>4. 0 \in Places /\ \A i \in Places : ~(i < 0)
  BY PlacesAre
<1>5. Ends(text, e)
  <2>1. Stairs(e, 0) /\ e[0] <= 0
    BY DEF Stairs
  <2> HIDE DEF e
  <2> QED
    BY <1>3, <1>4, <2>1 DEF Ends
<1>6. Draft(text, e) /\ text.loc = e[text.lines]
  <2>1. text.loc = e[text.lines]
    BY <1>3
  <2> HIDE DEF e
  <2> QED
    BY <1>3, <1>4, <1>5, <2>1 DEF Draft, Full, WholeEscapes
<1>7. Echo(text, user_chars, 2)
  <2>1. 2 \in 2 .. (MaxTyped + 2)
    BY TerminalAssumption
  <2>2. \A i \in Columns : IF i < 2 THEN user_chars[i] \in {Letter, Space}
                           ELSE user_chars[i] = End
    BY Constants DEF Init
  <2> QED
    BY <1>2, <1>3, <2>1, <2>2 DEF Echo
<1>8. /\ booted \in 0 .. MaxBoot /\ user_char_index <= 2
      /\ text.lines <= max_char_y - 1 /\ user_chars[2] = End
  BY <1>3, Constants, PlacesAre, TerminalAssumption DEF Init, LinesFit
<1> QED
  BY <1>6, <1>7, <1>8 DEF TextInv

\* What both operations that print leave behind.
LEMMA Printed ==
    ASSUME NEW t, InLine(t, 0), t.lines <= max_char_y - 1,
           NEW chars, NEW h, NEW u, Echo(u, chars, h),
           NEW line \in [Columns -> Characters], line[max_char_x] = End,
           line[0] \in {Letter, Space}, line[1] \in {Letter, Space}
    PROVE  /\ \E e : Draft(t, e) /\ t.loc = e[t.lines]
           /\ Echo(t, Erased(line), 2)
           /\ Erased(line)[2] = End
<1>1. \E e : Draft(t, e) /\ t.loc = e[t.lines]
  <2>1. PICK e : Draft(t, e) /\ t.loc = e[t.lines] + 0
    BY DEF InLine
  <2> QED
    BY <2>1, DraftTypes
<1>2. \A i \in Columns : IF i < 2 THEN Erased(line)[i] \in {Letter, Space}
                         ELSE Erased(line)[i] = End
  <2>1. TAKE i \in Columns
  <2>2. i = 0 \/ i = 1 \/ i \in 2 .. (max_char_x - 1) \/ i = max_char_x
    BY Constants
  <2>3. Erased(line)[i] = IF i \in 2 .. (max_char_x - 1) THEN End ELSE line[i]
    BY DEF Erased
  <2> QED
    BY <2>2, <2>3, Constants
<1>3. Erased(line)[2] = End
  BY <1>2, Constants
<1>4. 2 \in 2 .. (MaxTyped + 2)
  BY TerminalAssumption
<1> QED
  BY <1>1, <1>2, <1>3, <1>4 DEF Echo, InLine, Clean

LEMMA PromptKept ==
    ASSUME NEW t, NEW chars, NEW h, Echo(t, chars, h)
    PROVE  chars[0] \in {Letter, Space} /\ chars[1] \in {Letter, Space}
BY Constants, TerminalAssumption DEF Echo

LEMMA BootText ==
    ASSUME LinesFit, LineInv, TextInv, NEW n \in BootLengths, BootMessage(n)
    PROVE  TextInv'
<1>1. PICK h : Echo(text, user_chars, h) /\ user_char_index <= h
  BY DEF TextInv
<1>2. PICK e : Draft(text, e) /\ text.loc = e[text.lines]
  BY DEF TextInv
<1>3. h = 2
  BY <1>1, Constants, TerminalAssumption
     DEF BootMessage, TextInv, Echo, Letter, Space, End
<1>4. InLine(text, 0)
  <2>1. Clean(text)
    BY <1>1, <1>2, <1>3, DraftTypes, PlacesAre DEF Echo, Clean
  <2> QED
    BY <1>2, <2>1, DraftTypes DEF InLine
<1>5. /\ n \in Nat /\ max_char_y >= 2 /\ n + 4 <= max_char_x
      /\ n + MaxDigits + 3 <= max_char_x /\ MaxDigits \in Nat
      /\ text.lines <= max_char_y - 1
  BY TerminalAssumption DEF LinesFit, TextInv
<1>6. InLine(text', 0) /\ text'.lines <= max_char_y - 1
  <2>1. CASE text' = print_line(text, Letters(n))
    <3>1. (0 + Len(Letters(n))) + 1 <= max_char_x
      BY <1>5, LettersBody, Constants
    <3> QED
      BY <1>4, <1>5, <2>1, <3>1, LettersBody, PrintLine
  <2>2. CASE text' = print_line(text, Colour \o Letters(n))
    <3>1. (0 + Len(Colour \o Letters(n))) + 1 <= max_char_x
      BY <1>5, ColouredBody, Constants
    <3> QED
      BY <1>4, <1>5, <2>2, <3>1, ColouredBody, PrintLine
  <2>3. ASSUME NEW d \in 1 .. MaxDigits,
               text' = print_line(term_render_hex(print(text, Letters(n)), d), <<>>)
        PROVE  InLine(text', 0) /\ text'.lines <= max_char_y - 1
    <3> DEFINE a == print(text, Letters(n))
               b == term_render_hex(a, d)
    <3>1. d \in Nat /\ 2 + d \in Nat /\ d <= MaxDigits
      BY <1>5
    <3>2. InLine(a, n) /\ a.lines <= max_char_y - 1
      <4>1. 0 + Len(Letters(n)) = n /\ 0 + Len(Letters(n)) <= max_char_x
        BY <1>5, LettersBody, Constants
      <4>2. /\ InLine(Written(text, Letters(n), max_char_y), 0 + Len(Letters(n)))
            /\ Written(text, Letters(n), max_char_y).lines <= max_char_y - 1
        BY <1>4, <1>5, <4>1, LettersBody, WriteBody
      <4> QED
        BY <4>1, <4>2 DEF print
    <3> HIDE DEF a
    <3>3. InLine(b, n + (2 + d)) /\ b.lines <= max_char_y - 1
      <4>1. Len(Letters(2 + d)) = 2 + d /\ Body(Letters(2 + d))
        BY <3>1, LettersBody
      <4>2. n + Len(Letters(2 + d)) <= max_char_x
        BY <1>5, <3>1, <4>1, Constants
      <4>3. /\ InLine(Written(a, Letters(2 + d), max_char_y + 1),
                      n + Len(Letters(2 + d)))
            /\ Written(a, Letters(2 + d), max_char_y + 1).lines <= max_char_y - 1
        BY <1>5, <3>2, <4>1, <4>2, WriteBody
      <4> QED
        BY <4>1, <4>3 DEF term_render_hex, write_text_buffer
    <3> HIDE DEF b
    <3>4. text' = print_line(b, <<>>)
      BY <2>3 DEF a, b
    <3>5. ((n + (2 + d)) + Len(<<>>)) + 1 <= max_char_x
      BY <1>5, <3>1, EmptyBody, Constants
    <3> QED
      BY <1>5, <3>3, <3>4, <3>5, EmptyBody, PrintLine
  <2> QED
    BY <2>1, <2>2, <2>3 DEF BootMessage
<1>7. /\ user_chars \in [Columns -> Characters] /\ user_chars[max_char_x] = End
      /\ user_char_index = 2
  BY <1>1, <1>3, Constants DEF LineInv
<1>8. /\ \E g : Draft(text', g) /\ text'.loc = g[text'.lines]
      /\ Echo(text', Erased(user_chars), 2)
      /\ Erased(user_chars)[2] = End
  BY <1>1, <1>6, <1>7, PromptKept, Printed
<1>9. /\ user_chars' = Erased(user_chars) /\ user_char_index' = user_char_index
      /\ booted' = booted + 1 /\ booted < MaxBoot /\ booted \in 0 .. MaxBoot
  BY DEF BootMessage, TextInv
<1>10. booted' \in 0 .. MaxBoot
  BY <1>9, TerminalAssumption
<1>11. Echo(text, user_chars, 2)' /\ user_char_index' <= 2
  BY <1>7, <1>8, <1>9 DEF Echo
<1> QED
  BY <1>6, <1>8, <1>9, <1>10, <1>11 DEF TextInv

LEMMA TypeText ==
    ASSUME LinesFit, LineInv, TextInv, NEW key, NEW release,
           NEW ch \in {Letter, Space}, Type(key, release, ch)
    PROVE  TextInv'
<1>1. PICK h : Echo(text, user_chars, h) /\ user_char_index <= h
  BY DEF TextInv
<1>2. PICK e : Draft(text, e) /\ text.loc = e[text.lines]
  BY DEF TextInv
<1>3. /\ text \in TextType /\ ~text.over /\ text.loc \in Nat /\ text.lines \in Nat
      /\ Stairs(e, text.lines)
  BY <1>2, DraftTypes
<1>4. /\ user_char_index \in Nat /\ user_char_index >= 2 /\ MaxTyped \in Nat
      /\ Len(typed) + 2 = user_char_index /\ Len(typed) < MaxTyped
      /\ Len(typed) \in Nat /\ MaxTyped + 4 <= max_char_x
  <2>1. /\ MaxTyped \in Nat /\ ReplyLength \in Nat /\ ReplyLength >= 1
        /\ MaxTyped + ReplyLength + 3 <= max_char_x
    BY TerminalAssumption DEF LinesFit
  <2> QED
    BY <2>1, Constants DEF LineInv, Type
<1>5. Room
  BY <1>4, Constants DEF Room
<1> DEFINE i == text.loc + user_char_index
<1>6. i \in Places /\ text.loc <= i
  <2>1. text.loc + max_char_x <= Size
    BY <1>2, <1>3, RoomForALine DEF TextInv
  <2> QED
    BY <1>3, <1>4, <2>1, PlacesAre
<1>7. /\ text' = Store(text, i, ch)
      /\ user_chars' = [user_chars EXCEPT ![user_char_index] = ch]
      /\ user_char_index' = user_char_index + 1
      /\ UNCHANGED <<booted, term_ready>> /\ term_ready
  BY <1>5 DEF Type, Typing
<1>8. ch \in Characters /\ ch # End
  BY DEF Characters, Letter, Space, End
<1>9. /\ text' \in TextType /\ text'.buf = [text.buf EXCEPT ![i] = ch]
      /\ text'.loc = text.loc /\ text'.lines = text.lines
      /\ text'.over = text.over
  BY <1>3, <1>6, <1>7, <1>8, StoreFields
<1> HIDE DEF i
<1>10. \A j \in Places : text'.buf[j] = IF j = i THEN ch ELSE text.buf[j]
  BY <1>3, <1>6, <1>9 DEF TextType
<1>11. Draft(text', e)
  <2>1. \A j \in Places : j < text.loc => text'.buf[j] = text.buf[j]
    BY <1>3, <1>6, <1>10, PlacesAre
  <2>2. ~text'.over
    BY <1>3, <1>9
  <2> QED
    BY <1>2, <1>9, <2>1, <2>2, SameDraft
<1> DEFINE g == IF user_char_index < h THEN h ELSE user_char_index + 1
<1>12. /\ g \in 2 .. (MaxTyped + 2) /\ user_char_index + 1 <= g /\ g \in Nat
       /\ h <= g /\ h \in Nat
       /\ h < g => h = user_char_index /\ g = h + 1
  BY <1>1, <1>4 DEF Echo
<1> HIDE DEF g
<1>13. ASSUME NEW j \in Columns
       PROVE  IF j < g THEN user_chars'[j] \in {Letter, Space}
              ELSE user_chars'[j] = End
  <2>1. user_chars'[j] = IF j = user_char_index THEN ch ELSE user_chars[j]
    BY <1>7 DEF LineInv
  <2>2. IF j < h THEN user_chars[j] \in {Letter, Space} ELSE user_chars[j] = End
    BY <1>1 DEF Echo
  <2>3. CASE j = user_char_index
    BY <1>4, <1>12, <2>1, <2>3
  <2>4. CASE j # user_char_index
    <3>1. j < g <=> j < h
      BY <1>4, <1>12, <2>4, Constants
    <3> QED
      BY <2>1, <2>2, <2>4, <3>1
  <2> QED
    BY <2>3, <2>4
<1>14. ASSUME NEW j \in Places, text.loc <= j, text'.buf[j] # End
       PROVE  text.loc + 2 <= j /\ j < text.loc + g
  <2>1. CASE j = i
    BY <1>3, <1>4, <1>12, <2>1 DEF i
  <2>2. CASE j # i
    <3>1. text.loc + 2 <= j /\ j < text.loc + h
      BY <1>1, <1>10, <1>14, <2>2 DEF Echo
    <3> QED
      BY <1>3, <1>12, <3>1, PlacesAre
  <2> QED
    BY <2>1, <2>2
<1>15. Echo(text', user_chars', g)
  BY <1>9, <1>12, <1>13, <1>14 DEF Echo
<1>16. user_char_index' <= g /\ text'.loc = e[text'.lines]
  BY <1>2, <1>7, <1>9, <1>12
<1>17. booted' \in 0 .. MaxBoot /\ text'.lines <= max_char_y - 1 /\ term_ready'
  BY <1>7, <1>9 DEF TextInv
<1> QED
  BY <1>11, <1>15, <1>16, <1>17 DEF TextInv

LEMMA BackspaceText ==
    ASSUME LineInv, TextInv, NEW key, NEW release, Backspace(key, release)
    PROVE  TextInv'
<1>1. PICK h : Echo(text, user_chars, h) /\ user_char_index <= h
  BY DEF TextInv
<1>2. /\ user_char_index > 2 /\ user_char_index' = user_char_index - 1
      /\ user_chars' = [user_chars EXCEPT ![user_char_index - 1] = Space]
      /\ UNCHANGED <<text, booted, term_ready>> /\ term_ready
  BY DEF Backspace, SomethingToErase
<1>3. h \in Nat /\ user_char_index \in Nat
  BY <1>1, Constants, TerminalAssumption DEF LineInv, Echo
<1>4. ASSUME NEW j \in Columns
      PROVE  IF j < h THEN user_chars'[j] \in {Letter, Space}
             ELSE user_chars'[j] = End
  <2>1. user_chars'[j] = IF j = user_char_index - 1 THEN Space ELSE user_chars[j]
    BY <1>2 DEF LineInv
  <2>2. j = user_char_index - 1 => j < h
    BY <1>1, <1>2, <1>3
  <2> QED
    BY <1>1, <2>1, <2>2 DEF Echo
<1>5. Echo(text', user_chars', h)
  BY <1>1, <1>2, <1>4 DEF Echo
<1>6. user_char_index' <= h
  BY <1>1, <1>2, <1>3
<1>7. \E e : Draft(text', e) /\ text'.loc = e[text'.lines]
  BY <1>2 DEF TextInv
<1> QED
  BY <1>2, <1>5, <1>6, <1>7 DEF TextInv

LEMMA ShiftedSequence ==
    ASSUME NEW S, NEW n \in Nat, NEW c, \A i \in 1 .. n : c[i - 1] \in S
    PROVE  /\ [i \in 1 .. n |-> c[i - 1]] \in Seq(S)
           /\ Len([i \in 1 .. n |-> c[i - 1]]) = n
OBVIOUS

\* The line that return writes: up to the column g the user has reached.
Returned(h, chars, g) ==
    /\ Echo(text, user_chars, h) /\ user_char_index <= h
    /\ chars = [user_chars EXCEPT ![user_char_index] = NL]
    /\ g = IF user_char_index < h THEN h ELSE user_char_index + 1

LEMMA ReturnedLine ==
    ASSUME LinesFit, LineInv, NEW h, NEW chars, NEW g, Returned(h, chars, g)
    PROVE  /\ Line(chars) = [i \in 1 .. g |-> chars[i - 1]]
           /\ Len(Line(chars)) = g
           /\ Ending(Line(chars), user_char_index + 1)
           /\ g \in Nat /\ g <= MaxTyped + 3 /\ h <= g /\ user_char_index + 1 <= g
           /\ h < g => g = user_char_index + 1
<1>1. /\ user_char_index \in Nat /\ user_char_index >= 2 /\ MaxTyped \in Nat
      /\ MaxTyped + 4 <= max_char_x /\ h \in Nat /\ h <= MaxTyped + 2
      /\ h >= 2 /\ max_char_x \in Nat
  <2>1. /\ MaxTyped \in Nat /\ ReplyLength \in Nat /\ ReplyLength >= 1
        /\ MaxTyped + ReplyLength + 3 <= max_char_x
    BY TerminalAssumption DEF LinesFit
  <2> QED
    BY <2>1, Constants DEF LineInv, Echo, Returned
<1>2. /\ g \in Nat /\ g <= MaxTyped + 3 /\ h <= g /\ user_char_index + 1 <= g
      /\ h < g => g = user_char_index + 1
  BY <1>1 DEF Returned
<1>3. /\ user_char_index \in Columns /\ g \in Columns
      /\ \A i \in Columns : chars[i] = IF i = user_char_index THEN NL
                                       ELSE user_chars[i]
  BY <1>1, <1>2, Constants DEF LineInv, Returned
<1>4. /\ chars[g] = End
      /\ \A i \in Columns : i < g => chars[i] \in {Letter, Space, NL}
      /\ \A i \in Columns : i < g => (chars[i] = NL <=> i = user_char_index)
  <2>1. g # user_char_index /\ ~(g < h)
    BY <1>1, <1>2
  <2>2. chars[g] = End
    BY <1>3, <2>1 DEF Echo, Returned
  <2>3. ASSUME NEW i \in Columns, i < g, i # user_char_index
        PROVE  chars[i] \in {Letter, Space}
    <3>1. i < h
      <4>1. user_char_index <= h
        BY DEF Returned
      <4> QED
        BY <1>1, <1>2, <2>3, <4>1, Constants
    <3> QED
      BY <1>3, <2>3, <3>1 DEF Echo, Returned
  <2>4. NL \notin {Letter, Space}
    BY DEF NL, Letter, Space
  <2> QED
    BY <1>3, <2>2, <2>3, <2>4
<1> DEFINE ends == {i \in Columns : chars[i] = End} \union {max_char_x + 1}
<1>5. Min(ends) = g
  <2>1. g \in ends /\ ends \subseteq Int
    BY <1>3, <1>4, Constants
  <2>2. ASSUME NEW i \in ends
        PROVE  g <= i
    <3>1. CASE i = max_char_x + 1
      BY <1>1, <1>2, <3>1
    <3>2. CASE i \in Columns /\ chars[i] = End
      <4>1. End \notin {Letter, Space, NL}
        BY DEF End, Letter, Space, NL
      <4>2. ~(i < g)
        BY <1>4, <3>2, <4>1
      <4> QED
        BY <1>2, <3>2, <4>2, Constants
    <3> QED
      BY <3>1, <3>2
  <2> HIDE DEF ends
  <2> QED
    BY <2>1, <2>2, LeastIs
<1>6. Line(chars) = [i \in 1 .. g |-> chars[i - 1]]
  BY <1>5 DEF Line
<1>7. /\ Line(chars) \in Seq({Letter, Space, NL}) /\ Len(Line(chars)) = g
      /\ \A i \in 1 .. g : Line(chars)[i] = NL <=> i = user_char_index + 1
  <2>1. \A i \in 1 .. g : i - 1 \in Columns /\ i - 1 < g
    BY <1>1, <1>2, Constants
  <2>2. \A i \in 1 .. g : chars[i - 1] \in {Letter, Space, NL}
    BY <1>4, <2>1
  <2>3. /\ Line(chars) \in Seq({Letter, Space, NL}) /\ Len(Line(chars)) = g
        /\ \A i \in 1 .. g : Line(chars)[i] = chars[i - 1]
    BY <1>2, <1>6, <2>2, ShiftedSequence
  <2>4. \A i \in 1 .. g : chars[i - 1] = NL <=> i - 1 = user_char_index
    BY <1>4, <2>1
  <2>5. \A i \in 1 .. g : i - 1 = user_char_index <=> i = user_char_index + 1
    BY <1>1, <1>2
  <2> QED
    BY <2>3, <2>4, <2>5
<1>8. user_char_index + 1 \in 1 .. g
  BY <1>1, <1>2
<1> QED
  BY <1>2, <1>6, <1>7, <1>8 DEF Ending

\* The command that is repeated in an answer is a part of the line.
LEMMA CommandBody ==
    ASSUME LineInv, NEW chars, NEW k \in Columns, k >= 2, chars[k] = NL,
           \A i \in Columns : i < k => chars[i] \in {Letter, Space}
    PROVE  Body(Command(chars)) /\ Len(Command(chars)) <= k - 2
<1> DEFINE stops == {i \in Columns : i >= 2 /\ chars[i] \in {End, Space, NL}}
           all == stops \union {max_char_x + 1}
<1>1. k \in all /\ all \subseteq Nat /\ all \subseteq Int
  BY Constants
<1>2. PICK n \in all : \A i \in all : n <= i
  BY <1>1, LeastElement
<1>3. Min(all) = n
  BY <1>1, <1>2, LeastIs
<1>4. n \in Nat /\ n <= k /\ n >= 2 /\ k \in Nat
  BY <1>1, <1>2, Constants
<1>5. Command(chars) = [i \in 1 .. (n - 2) |-> chars[i + 1]]
  BY <1>3 DEF Command
<1>6. ASSUME NEW i \in 1 .. (n - 2)
      PROVE  chars[i + 1] = Letter
  <2>1. i + 1 \in Columns /\ i + 1 < k /\ i + 1 >= 2 /\ ~(n <= i + 1)
    BY <1>4, Constants
  <2>2. i + 1 \notin all
    BY <1>2, <2>1
  <2>3. chars[i + 1] \notin {End, Space, NL}
    BY <2>1, <2>2
  <2> QED
    BY <2>1, <2>3
<1>7. Letter # Mark
  BY DEF Letter, Mark
<1>8. n - 2 \in Nat
  BY <1>4
<1>9. /\ Command(chars) \in Seq({Letter, Space, Mark}) /\ Len(Command(chars)) = n - 2
      /\ \A i \in 1 .. (n - 2) : Command(chars)[i] = Letter
  <2> DEFINE m == n - 2
  <2>1. m \in Nat /\ \A i \in 1 .. m : chars[i + 1] = Letter
    BY <1>6, <1>8
  <2>2. Command(chars) = [i \in 1 .. m |-> chars[i + 1]]
    BY <1>5
  <2> HIDE DEF m
  <2>3. /\ Command(chars) \in Seq({Letter, Space, Mark}) /\ Len(Command(chars)) = m
        /\ \A i \in 1 .. m : Command(chars)[i] = Letter
    BY <2>1, <2>2
  <2> QED
    BY <2>3 DEF m
<1>10. Body(Command(chars))
  BY <1>7, <1>9 DEF Body
<1> QED
  BY <1>4, <1>9, <1>10

\* An answer behind p characters that the user had erased.
LEMMA Answered ==
    ASSUME LinesFit, NEW t, NEW p, InLine(t, p), t.lines <= max_char_y,
           NEW command, Body(command),
           p = 0 \/ p <= MaxTyped - 1, p + Len(command) <= MaxTyped,
           NEW a \in Answers(t, command)
    PROVE  InLine(a, 0) /\ a.lines <= max_char_y - 1
<1>1. /\ MaxTyped \in Nat /\ ReplyLength \in Nat /\ UnknownLength \in Nat
      /\ max_char_y >= 2 /\ ReplyLength >= 1 /\ UnknownLength >= 2
      /\ MaxTyped + ReplyLength + 3 <= max_char_x
      /\ ReplyLength + 4 <= max_char_x
      /\ MaxTyped + UnknownLength + 1 <= max_char_x /\ p \in Nat
      /\ max_char_x \in Nat /\ max_char_y \in Nat
  BY TerminalAssumption, PlacesAre DEF LinesFit, InLine
<1>2. t.lines <= max_char_y - 1 \/ t.lines = max_char_y
  <2>1. t.lines \in Nat
    BY DraftTypes DEF InLine
  <2> QED
    BY <1>1, <2>1
<1>3. CASE a = print_line(t, Letters(ReplyLength))
  <2>1. /\ (p + Len(Letters(ReplyLength))) + 1 <= max_char_x
        /\ Len(Letters(ReplyLength)) >= 1 /\ Body(Letters(ReplyLength))
    BY <1>1, LettersBody
  <2> QED
    BY <1>1, <1>2, <1>3, <2>1, PrintLine
<1>4. CASE a = print_line(t, Colour \o Letters(ReplyLength))
  <2> DEFINE c == Colour \o Letters(ReplyLength)
  <2>1. Len(c) = ReplyLength + 3 /\ Body(c)
    BY <1>1, ColouredBody
  <2> HIDE DEF c
  <2>2. (p + Len(c)) + 1 <= max_char_x /\ Len(c) >= 1
    BY <1>1, <2>1
  <2>3. a = print_line(t, c)
    BY <1>4 DEF c
  <2> QED
    BY <1>1, <1>2, <2>1, <2>2, <2>3, PrintLine
<1>5. CASE a = print_line(write_text_buffer(print(t, Letters(UnknownLength \div 2)),
                                            command),
                          Letters(UnknownLength - UnknownLength \div 2))
  <2> DEFINE m == UnknownLength \div 2
             n == UnknownLength - m
             u == print(t, Letters(m))
             w == write_text_buffer(u, command)
             l == Len(command)
  <2>1. m \in Nat /\ m >= 1 /\ n \in Nat /\ m + n = UnknownLength
    BY <1>1
  <2>2. l \in Nat
    BY BodyTypes
  <2>3. a = print_line(w, Letters(n))
    BY <1>5
  <2> HIDE DEF m, n, l
  <2>4. Len(Letters(m)) = m /\ Body(Letters(m)) /\ Len(Letters(n)) = n
        /\ Body(Letters(n))
    BY <2>1, LettersBody
  <2>5. InLine(u, p + m) /\ u.lines <= max_char_y - 1
    <3>1. p + Len(Letters(m)) <= max_char_x /\ Len(Letters(m)) >= 1
      BY <1>1, <2>1, <2>4
    <3>2. /\ InLine(Written(t, Letters(m), max_char_y), p + Len(Letters(m)))
          /\ Written(t, Letters(m), max_char_y).lines <= max_char_y - 1
      BY <1>1, <1>2, <2>4, <3>1, WriteBody
    <3> QED
      BY <2>4, <3>2 DEF print
  <2> HIDE DEF u
  <2>6. p + l <= MaxTyped
    BY DEF l
  <2>7. InLine(w, (p + m) + l) /\ w.lines <= max_char_y - 1
    <3>1. (p + m) + l <= max_char_x
      BY <1>1, <2>1, <2>2, <2>6
    <3>2. (p + m) + Len(command) <= max_char_x
      BY <3>1 DEF l
    <3>3. /\ InLine(Written(u, command, max_char_y + 1), (p + m) + Len(command))
          /\ Written(u, command, max_char_y + 1).lines <= max_char_y - 1
      BY <1>1, <2>5, <3>2, WriteBody
    <3> QED
      BY <3>3 DEF write_text_buffer, l
  <2> HIDE DEF w
  <2>8. (((p + m) + l) + Len(Letters(n))) + 1 <= max_char_x
    BY <1>1, <2>1, <2>2, <2>4, <2>6
  <2> QED
    BY <1>1, <2>3, <2>4, <2>7, <2>8, PrintLine
<1> QED
  BY <1>3, <1>4, <1>5 DEF Answers

LEMMA ReturnText ==
    ASSUME LinesFit, LineInv, TextInv, NEW key, NEW release,
           Return(key, release)
    PROVE  TextInv'
<1> DEFINE k == user_char_index
           chars == [user_chars EXCEPT ![k] = NL]
           shown == Store(text, text.loc + k, NL)
           line == Line(chars)
           r == write_text_buffer(shown, line)
<1>1. PICK h : Echo(text, user_chars, h) /\ k <= h
  BY DEF TextInv
<1>2. PICK e : Draft(text, e) /\ text.loc = e[text.lines]
  BY DEF TextInv
<1>3. /\ text \in TextType /\ ~text.over /\ text.loc \in Nat /\ text.lines \in Nat
      /\ Stairs(e, text.lines) /\ text.lines <= max_char_y - 1
  BY <1>2, DraftTypes DEF TextInv
<1>4. /\ k \in Nat /\ k >= 2 /\ MaxTyped \in Nat /\ k <= MaxTyped + 2
      /\ MaxTyped + 4 <= max_char_x /\ max_char_x \in Nat /\ max_char_y \in Nat
      /\ k \in Columns
  <2>1. /\ MaxTyped \in Nat /\ ReplyLength \in Nat /\ ReplyLength >= 1
        /\ MaxTyped + ReplyLength + 3 <= max_char_x
    BY TerminalAssumption DEF LinesFit
  <2>2. h <= MaxTyped + 2 /\ h \in Nat
    BY <1>1, <2>1 DEF Echo
  <2> QED
    BY <1>1, <2>1, <2>2, Constants, PlacesAre DEF LineInv
<1>5. Room
  BY <1>4 DEF Room
<1>6. /\ text' \in Answers(r, Command(chars)) /\ user_chars' = Erased(chars)
      /\ user_char_index' = 2 /\ UNCHANGED <<booted, term_ready>> /\ term_ready
  BY <1>5 DEF Return
<1> DEFINE g == IF k < h THEN h ELSE k + 1
           i == text.loc + k
<1>7. /\ line = [j \in 1 .. g |-> chars[j - 1]] /\ Len(line) = g
      /\ Ending(line, k + 1)
      /\ g \in Nat /\ g <= MaxTyped + 3 /\ h <= g /\ k + 1 <= g
      /\ h < g => g = k + 1
  <2>1. Returned(h, chars, g)
    BY <1>1 DEF Returned
  <2> HIDE DEF g, chars
  <2> QED
    BY <2>1, ReturnedLine
<1>8. /\ chars \in [Columns -> Characters] /\ chars[max_char_x] = End
      /\ chars[k] = NL /\ \A j \in Columns : j # k => chars[j] = user_chars[j]
  BY <1>4, Constants DEF LineInv, Characters
<1> HIDE DEF g, line, chars
<1>9. text.loc + max_char_x <= Size
  BY <1>2, <1>3, RoomForALine
<1>10. i \in Places /\ text.loc <= i
  BY <1>3, <1>4, <1>9, PlacesAre
<1>11. NL \in Characters
  BY DEF Characters
<1>12. /\ shown \in TextType /\ shown.buf = [text.buf EXCEPT ![i] = NL]
       /\ shown.loc = text.loc /\ shown.lines = text.lines
       /\ shown.over = text.over
  BY <1>3, <1>10, <1>11, StoreFields
<1> HIDE DEF shown
<1>13. \A j \in Places : shown.buf[j] = IF j = i THEN NL ELSE text.buf[j]
  BY <1>3, <1>10, <1>12 DEF TextType
<1>14. Draft(shown, e) /\ ~shown.over
  <2>1. \A j \in Places : j < text.loc => shown.buf[j] = text.buf[j]
    BY <1>3, <1>10, <1>13, PlacesAre
  <2>2. ~shown.over
    BY <1>3, <1>12
  <2> QED
    BY <1>2, <1>12, <2>1, <2>2, SameDraft
<1>15. Fits(shown, line, k + 1, max_char_y + 1)
  <2>1. line \in Seq({Letter, Space, NL}) /\ k + 1 \in 1 .. Len(line)
        /\ \A j \in 1 .. Len(line) : line[j] = NL <=> j = k + 1
    BY <1>7 DEF Ending
  <2>2. {Letter, Space, NL} \subseteq Characters
    BY DEF Characters
  <2>3. line \in Seq(Characters)
    BY <2>1, <2>2
  <2>4. /\ k + 1 <= Len(line) /\ k + 1 \in 1 .. (Len(line) + 1)
        /\ shown.loc + Len(line) <= Size
        /\ max_char_y + 1 \in Int /\ shown.lines + 1 < max_char_y + 1
        /\ shown.loc \in Nat
    <3> DEFINE a == shown.loc
    <3>1. /\ a \in Nat /\ Len(line) \in Nat /\ Len(line) <= MaxTyped + 3
          /\ k + 1 <= Len(line) /\ shown.lines \in Nat
          /\ shown.lines <= max_char_y - 1 /\ a + max_char_x <= Size
      BY <1>3, <1>7, <1>9, <1>12
    <3> HIDE DEF a
    <3>2. a + Len(line) <= Size
      BY <1>4, <3>1, PlacesAre
    <3>3. /\ k + 1 \in 1 .. (Len(line) + 1) /\ max_char_y + 1 \in Int
          /\ shown.lines + 1 < max_char_y + 1
      BY <1>4, <3>1
    <3> QED
      BY <3>1, <3>2, <3>3 DEF a
  <2> QED
    BY <1>12, <1>14, <2>1, <2>3, <2>4 DEF Fits
<1>16. Partial(shown, line, k + 1, r, Len(line))
  BY <1>15, WrittenPartial DEF write_text_buffer
<1> HIDE DEF r
<1>17. /\ Appended(shown, line, r) /\ r.lines = text.lines + 1
       /\ r.loc = text.loc + g
  <2>1. k + 1 <= Len(line)
    BY <1>7
  <2>2. /\ r \in TextType /\ ~r.over /\ r.loc = shown.loc + Len(line)
        /\ r.lines = shown.lines + 1
    BY <1>16, <2>1 DEF Partial
  <2>3. \A j \in Places : r.buf[j] = IF shown.loc <= j /\ j < r.loc
                                     THEN line[(j - shown.loc) + 1] ELSE shown.buf[j]
    BY <1>16, <2>2 DEF Partial
  <2> QED
    BY <1>7, <1>12, <2>2, <2>3 DEF Appended
<1>18. PICK f : Draft(r, f) /\ f[r.lines] = shown.loc + (k + 1)
  <2>1. r.loc <= Size
    BY <1>3, <1>4, <1>7, <1>9, <1>17, PlacesAre
  <2>2. shown.loc + (k + 1) <= e[shown.lines] + max_char_x
    BY <1>2, <1>3, <1>4, <1>12
  <2>3. r.lines = shown.lines + 1
    BY <1>12, <1>17
  <2> QED
    BY <1>7, <1>14, <1>17, <2>1, <2>2, <2>3, AppendedLine
<1>19. Clean(r)
  <2>1. ASSUME NEW j \in Places, shown.loc + Len(line) <= j
        PROVE  shown.buf[j] = End
    <3>1. j # i /\ ~(j < text.loc + h) /\ text.loc <= j
      <4>1. h \in Nat /\ j \in Nat /\ text.loc + g <= j
        BY <1>1, <1>7, <1>12, <2>1, <1>4, PlacesAre DEF Echo
      <4> QED
        BY <1>3, <1>4, <1>7, <4>1
    <3>2. text.buf[j] = End
      BY <1>1, <3>1 DEF Echo
    <3> QED
      BY <1>13, <3>1, <3>2
  <2>2. shown.loc \in Nat /\ Len(line) \in Nat
    BY <1>3, <1>7, <1>12
  <2> QED
    BY <1>17, <2>1, <2>2, AppendedClean
<1> DEFINE p == g - (k + 1)
<1>20. InLine(r, p) /\ r.lines <= max_char_y
  <2>1. p \in Nat
    BY <1>4, <1>7
  <2>2. r.loc = f[r.lines] + p
    BY <1>3, <1>4, <1>7, <1>12, <1>17, <1>18
  <2>3. r.lines <= max_char_y
    BY <1>3, <1>4, <1>17
  <2> QED
    BY <1>18, <1>19, <2>1, <2>2, <2>3 DEF InLine
<1>21. Body(Command(chars)) /\ Len(Command(chars)) <= k - 2
  <2>1. ASSUME NEW j \in Columns, j < k
        PROVE  chars[j] \in {Letter, Space}
    <3>1. j < h /\ j # k
      BY <1>1, <1>4, <2>1, Constants DEF Echo
    <3> QED
      BY <1>1, <1>8, <3>1 DEF Echo
  <2> QED
    BY <1>4, <1>8, <2>1, CommandBody
<1>22. (p = 0 \/ p <= MaxTyped - 1) /\ p + Len(Command(chars)) <= MaxTyped
  <2> DEFINE l == Len(Command(chars))
  <2>1. l \in Nat /\ l <= k - 2
    BY <1>21, BodyTypes
  <2> HIDE DEF l
  <2>2. (p = 0 \/ p <= MaxTyped - 1) /\ p + l <= MaxTyped
    <3>1. h \in Nat /\ h <= MaxTyped + 2
      BY <1>1, <1>4 DEF Echo
    <3> QED
      BY <1>4, <1>7, <2>1, <3>1
  <2> QED
    BY <2>2 DEF l
<1> HIDE DEF p
<1>23. InLine(text', 0) /\ text'.lines <= max_char_y - 1
  BY <1>6, <1>20, <1>21, <1>22, Answered
<1>24. chars[0] \in {Letter, Space} /\ chars[1] \in {Letter, Space}
  BY <1>1, <1>4, <1>8, PromptKept, Constants
<1>25. /\ \E f1 : Draft(text', f1) /\ text'.loc = f1[text'.lines]
       /\ Echo(text', Erased(chars), 2)
  BY <1>1, <1>8, <1>23, <1>24, Printed
<1>26. Echo(text, user_chars, 2)' /\ user_char_index' <= 2
  BY <1>6, <1>25 DEF Echo
<1>27. booted' \in 0 .. MaxBoot /\ term_ready'
  BY <1>6 DEF TextInv
<1> QED
  BY <1>23, <1>25, <1>26, <1>27 DEF TextInv

LEMMA TextStep ==
    ASSUME LinesFit, LineInv, TextInv, [Next]_vars
    PROVE  TextInv'
<1>1. ASSUME NEW n \in BootLengths, BootMessage(n)
      PROVE  TextInv'
  BY <1>1, BootText
<1>2. CASE start_terminal
  <2>1. /\ UNCHANGED <<text, user_chars, user_char_index, booted>>
        /\ term_ready'
    BY <1>2 DEF start_terminal
  <2> QED
    BY <2>1 DEF TextInv
<1>3. ASSUME NEW key, NEW release, NEW ch \in {Letter, Space},
             Type(key, release, ch)
      PROVE  TextInv'
  BY <1>3, TypeText
<1>4. ASSUME NEW key, NEW release, Backspace(key, release)
      PROVE  TextInv'
  BY <1>4, BackspaceText
<1>5. ASSUME NEW key, NEW release, Return(key, release)
      PROVE  TextInv'
  BY <1>5, ReturnText
<1>6. CASE UNCHANGED vars
  <2>1. /\ text' = text /\ user_chars' = user_chars /\ booted' = booted
        /\ user_char_index' = user_char_index /\ term_ready' = term_ready
    BY <1>6 DEF vars
  <2> QED
    BY <2>1 DEF TextInv
<1> QED
  BY <1>1, <1>2, <1>3, <1>4, <1>5, <1>6 DEF Next

LEMMA TextInvariance == LinesFit => (Spec => []TextInv)
<1> SUFFICES ASSUME LinesFit PROVE Spec => []TextInv
  OBVIOUS
<1>1. Init => TextInv
  BY TextInit
<1>2. LineInv /\ TextInv /\ [Next]_vars => TextInv'
  BY TextStep
<1> QED
  BY <1>1, <1>2, LineInvariance, PTL DEF Spec

\* Printing, scrolling and echoing keep the counters in their range and never
\* write behind the end of the buffer, for every size of the screen on which
\* the lines fit.
THEOREM TextStaysInBuffer == LinesFit => (Spec => []TypeOK)
<1>1. LineInv /\ TextInv => TypeOK
  <2> SUFFICES ASSUME LineInv, TextInv PROVE TypeOK
    OBVIOUS
  <2>1. PICK e : Draft(text, e)
    BY DEF TextInv
  <2>2. /\ text \in TextType /\ ~text.over /\ text.loc \in Places
        /\ text.lines \in Nat /\ text.lines <= max_char_y - 1
    BY <2>1, DraftTypes DEF TextInv
  <2>3. text.buf \in [Places -> Characters] /\ text.lines \in 0 .. max_char_y
    BY <2>2, PlacesAre DEF TextType
  <2> QED
    BY <2>2, <2>3 DEF TypeOK, LineInv, TextInv
<1> QED
  BY <1>1, LineInvariance, TextInvariance, PTL

\* Scrolling and the echo of what was typed and erased leave no 0 in the text:
\* draw_text_buffer shows all of it.
THEOREM AllTextIsDrawn == LinesFit => (Spec => []AllTextDrawn)
<1>1. TextInv => AllTextDrawn
  BY DEF TextInv, Draft, Full, AllTextDrawn
<1> QED
  BY <1>1, TextInvariance, PTL

-----------------------------------------------------------------------------
(* Drawing.                                                                *)

\* f[n] is where the loop of draw_text_buffer is before place n.
Drawing(f, buf, len) ==
    f = [n \in 0 .. len |-> IF n = 0 THEN [row |-> 0, col |-> 0, skip |-> 0]
                            ELSE DrawGlyph(f[n - 1], buf[n - 1])]

\* The recursion of RowsDrawn has a solution.
LEMMA DrawingExists ==
    ASSUME NEW buf, NEW len \in Nat
    PROVE  \E f : Drawing(f, buf, len)
<1> DEFINE start == [row |-> 0, col |-> 0, skip |-> 0]
           T == {m \in Nat : ~ \E f : Drawing(f, buf, m)}
<1>1. SUFFICES ASSUME T # {} PROVE FALSE
  OBVIOUS
<1>2. PICK m \in T : \A i \in T : m <= i
  BY <1>1, LeastElement
<1>3. CASE m = 0
  <2> DEFINE f == [n \in 0 .. 0 |-> start]
  <2> HIDE DEF start
  <2>1. f = [n \in 0 .. 0 |-> IF n = 0 THEN start
                              ELSE DrawGlyph(f[n - 1], buf[n - 1])]
    OBVIOUS
  <2>2. Drawing(f, buf, 0)
    BY <2>1, Zenon DEF Drawing, start
  <2> QED
    BY <1>2, <1>3, <2>2
<1>4. CASE m # 0
  <2>1. m \in Nat /\ m - 1 \in Nat /\ m - 1 \notin T
    BY <1>2, <1>4
  <2>2. PICK f : Drawing(f, buf, m - 1)
    BY <2>1
  <2>3. f = [n \in 0 .. (m - 1) |-> IF n = 0 THEN start
                                    ELSE DrawGlyph(f[n - 1], buf[n - 1])]
    BY <2>2, Zenon DEF Drawing
  <2> HIDE DEF start
  <2>4. /\ f[0] = start
        /\ \A n \in 1 .. (m - 1) : f[n] = DrawGlyph(f[n - 1], buf[n - 1])
    BY <2>1, <2>3
  <2> DEFINE g == [n \in 0 .. m |-> IF n < m THEN f[n]
                                    ELSE DrawGlyph(f[m - 1], buf[m - 1])]
  <2>5. \A n \in 0 .. m : g[n] = IF n = 0 THEN start
                                 ELSE DrawGlyph(g[n - 1], buf[n - 1])
    <3>1. g[0] = start
      BY <2>1, <2>4
    <3>2. ASSUME NEW n \in 1 .. (m - 1)
          PROVE  g[n] = DrawGlyph(g[n - 1], buf[n - 1])
      <4>1. g[n] = f[n] /\ g[n - 1] = f[n - 1]
        BY <2>1
      <4> QED
        BY <2>4, <4>1
    <3>3. g[m] = DrawGlyph(g[m - 1], buf[m - 1])
      <4>1. g[m - 1] = f[m - 1] /\ g[m] = DrawGlyph(f[m - 1], buf[m - 1])
        BY <2>1
      <4> QED
        BY <4>1
    <3> HIDE DEF g
    <3>4. \A n \in 0 .. m : n = 0 \/ n \in 1 .. (m - 1) \/ n = m
      BY <2>1
    <3> QED
      BY <2>1, <3>1, <3>2, <3>3, <3>4
  <2>6. g = [n \in 0 .. m |-> g[n]]
    OBVIOUS
  <2> HIDE DEF g
  <2>7. Drawing(g, buf, m)
    BY <2>5, <2>6, Zenon DEF Drawing, start
  <2> QED
    BY <1>2, <2>7
<1> QED
  BY <1>3, <1>4

LEMMA RowsDrawnIs ==
    ASSUME NEW buf, FirstEnd(buf, 0) \in Nat
    PROVE  \E f : /\ RowsDrawn(buf) = f[FirstEnd(buf, 0)].row
                  /\ f[0] = [row |-> 0, col |-> 0, skip |-> 0]
                  /\ \A n \in 1 .. FirstEnd(buf, 0) :
                        f[n] = DrawGlyph(f[n - 1], buf[n - 1])
<1> DEFINE len == FirstEnd(buf, 0)
           start == [row |-> 0, col |-> 0, skip |-> 0]
           at[n \in 0 .. len] ==
              IF n = 0 THEN [row |-> 0, col |-> 0, skip |-> 0]
              ELSE DrawGlyph(at[n - 1], buf[n - 1])
<1>1. PICK g : Drawing(g, buf, len)
  BY DrawingExists
<1>2. RowsDrawn(buf) = at[len].row
  BY Zenon DEF RowsDrawn
<1>3. Drawing(at, buf, len)
  BY <1>1, Zenon DEF Drawing
<1> HIDE DEF at
<1>4. at = [n \in 0 .. len |-> IF n = 0 THEN start
                               ELSE DrawGlyph(at[n - 1], buf[n - 1])]
  BY <1>3, Zenon DEF Drawing
<1> HIDE DEF start
<1>5. /\ at[0] = start
      /\ \A n \in 1 .. len : at[n] = DrawGlyph(at[n - 1], buf[n - 1])
  BY <1>4
<1> QED
  BY <1>2, <1>5 DEF start

GlyphType == [row : Nat, col : Nat, skip : Nat]

LEMMA DrawGlyphFields ==
    ASSUME NEW a \in GlyphType, NEW ch
    PROVE  LET b == DrawGlyph(a, ch)
           IN  /\ b \in GlyphType
               /\ a.skip > 0 => /\ b.row = a.row /\ b.col = a.col
                                /\ b.skip = a.skip - 1
               /\ a.skip = 0 /\ ch = Mark => /\ b.row = a.row /\ b.col = a.col
                                             /\ b.skip = 2
               /\ a.skip = 0 /\ ch # Mark => b.skip = 0
               /\ a.skip = 0 /\ ch = NL => b.row = a.row + 1 /\ b.col = 0
               /\ /\ a.skip = 0 /\ ch # Mark /\ ch # NL /\ a.col < max_char_x
                  => b.row = a.row /\ b.col = a.col + 1
<1>1. a.row \in Nat /\ a.col \in Nat /\ a.skip \in Nat /\ max_char_x \in Nat
  BY PlacesAre DEF GlyphType
<1>2. Mark # NL
  BY DEF Mark, NL
<1>3. CASE a.skip > 0
  <2>1. DrawGlyph(a, ch) = [a EXCEPT !.skip = @ - 1]
    BY <1>3 DEF DrawGlyph
  <2> QED
    BY <1>1, <1>3, <2>1 DEF GlyphType
<1>4. CASE a.skip = 0 /\ ch = Mark
  <2>1. DrawGlyph(a, ch) = [a EXCEPT !.skip = 2]
    BY <1>4 DEF DrawGlyph
  <2> QED
    BY <1>1, <1>2, <1>4, <2>1 DEF GlyphType
<1>5. CASE a.skip = 0 /\ ch = NL
  <2>1. DrawGlyph(a, ch) = [a EXCEPT !.row = @ + 1, !.col = 0]
    BY <1>2, <1>5 DEF DrawGlyph
  <2> DEFINE c == [a EXCEPT !.row = @ + 1]
  <2>2. c \in GlyphType /\ c.row = a.row + 1 /\ c.skip = a.skip
    BY <1>1 DEF GlyphType
  <2>3. DrawGlyph(a, ch) = [c EXCEPT !.col = 0]
    BY <2>1 DEF GlyphType
  <2> HIDE DEF c
  <2>4. /\ DrawGlyph(a, ch) \in GlyphType /\ DrawGlyph(a, ch).row = c.row
        /\ DrawGlyph(a, ch).col = 0 /\ DrawGlyph(a, ch).skip = c.skip
    BY <2>2, <2>3 DEF GlyphType
  <2> QED
    BY <2>2, <2>4, <1>1, <1>2, <1>5, <2>1 DEF GlyphType
<1>6. CASE a.skip = 0 /\ ch # Mark /\ ch # NL /\ a.col = max_char_x
  <2>1. DrawGlyph(a, ch) = [a EXCEPT !.row = @ + 1, !.col = 1]
    BY <1>6 DEF DrawGlyph
  <2> DEFINE c == [a EXCEPT !.row = @ + 1]
  <2>2. c \in GlyphType /\ c.row = a.row + 1 /\ c.skip = a.skip
    BY <1>1 DEF GlyphType
  <2>3. DrawGlyph(a, ch) = [c EXCEPT !.col = 1]
    BY <2>1 DEF GlyphType
  <2> HIDE DEF c
  <2>4. /\ DrawGlyph(a, ch) \in GlyphType /\ DrawGlyph(a, ch).row = c.row
        /\ DrawGlyph(a, ch).col = 1 /\ DrawGlyph(a, ch).skip = c.skip
    BY <2>2, <2>3 DEF GlyphType
  <2> QED
    BY <2>2, <2>4, <1>1, <1>6, <2>1 DEF GlyphType
<1>7. CASE a.skip = 0 /\ ch # Mark /\ ch # NL /\ a.col # max_char_x
  <2>1. DrawGlyph(a, ch) = [a EXCEPT !.col = @ + 1]
    BY <1>7 DEF DrawGlyph
  <2> QED
    BY <1>1, <1>7, <2>1 DEF GlyphType
<1> QED
  BY <1>1, <1>3, <1>4, <1>5, <1>6, <1>7

\* Before place n the loop is in the row of the line that n belongs to, not
\* behind the column that n has in it, and skips no end of a line.
InRow(t, e, a, n) ==
    /\ a \in GlyphType /\ a.row <= t.lines
    /\ e[a.row] <= n /\ (a.row < t.lines => n < e[a.row + 1])
    /\ e[a.row] + a.col <= n
    /\ \A j \in Nat : n <= j /\ j < n + a.skip => t.buf[j] # NL

LEMMA InRowStep ==
    ASSUME NEW t, NEW e, Draft(t, e), t.loc = e[t.lines],
           NEW n \in 1 .. t.loc, NEW a, InRow(t, e, a, n - 1)
    PROVE  InRow(t, e, DrawGlyph(a, t.buf[n - 1]), n)
<1> DEFINE r == a.row
           ch == t.buf[n - 1]
           b == DrawGlyph(a, ch)
<1> SUFFICES InRow(t, e, b, n)
  OBVIOUS
<1>1. /\ t.loc \in Nat /\ t.loc \in Places /\ t.lines \in Nat /\ Stairs(e, t.lines)
      /\ \A k \in 0 .. t.lines : e[k] \in Nat
      /\ n \in Nat /\ n - 1 \in Nat /\ n - 1 \in Places /\ n - 1 < t.loc
  <2>1. /\ t.loc \in Nat /\ t.loc \in Places /\ t.lines \in Nat
        /\ Stairs(e, t.lines)
    BY DraftTypes
  <2> QED
    BY <2>1, PlacesAre DEF Stairs
<1>2. /\ r \in Nat /\ a.col \in Nat /\ a.skip \in Nat /\ r \in 0 .. t.lines
      /\ a \in GlyphType /\ e[r] <= n - 1 /\ e[r] \in Nat
      /\ (r < t.lines => n - 1 < e[r + 1])
      /\ e[r] + a.col <= n - 1
      /\ \A j \in Nat : n - 1 <= j /\ j < (n - 1) + a.skip => t.buf[j] # NL
  <2>1. r \in Nat /\ a.col \in Nat /\ a.skip \in Nat /\ r <= t.lines
    BY DEF InRow, GlyphType
  <2>2. r \in 0 .. t.lines
    BY <1>1, <2>1
  <2> QED
    BY <1>1, <2>1, <2>2 DEF InRow
<1>3. r < t.lines
  <2>1. t.lines \in 0 .. t.lines
    BY <1>1
  <2>2. r # t.lines
    BY <1>1, <1>2, <2>1
  <2> QED
    BY <1>1, <1>2, <2>2
<1>4. /\ r + 1 \in 0 .. t.lines /\ r + 1 \in 1 .. t.lines /\ (r + 1) - 1 = r
      /\ e[r + 1] \in Nat /\ n - 1 < e[r + 1]
  BY <1>1, <1>2, <1>3
<1>5. /\ t.buf[e[r + 1] - 1] = NL /\ e[r + 1] <= e[r] + max_char_x
  <2>1. t.buf[e[r + 1] - 1] = NL
    BY <1>4 DEF Draft, Ends
  <2>2. e[(r + 1) - 1] < e[r + 1] /\ e[r + 1] <= e[(r + 1) - 1] + max_char_x
    BY <1>1, <1>4 DEF Stairs
  <2> QED
    BY <1>4, <2>1, <2>2
<1>6. ch # NL => n < e[r + 1]
  <2>1. n <= e[r + 1]
    BY <1>1, <1>4
  <2>2. n = e[r + 1] => ch = NL
    BY <1>5
  <2> HIDE DEF ch
  <2> QED
    BY <1>1, <1>4, <2>1, <2>2
<1> HIDE DEF ch, r
<1>7. /\ b \in GlyphType
      /\ a.skip > 0 => b.row = a.row /\ b.col = a.col /\ b.skip = a.skip - 1
      /\ a.skip = 0 /\ ch = Mark => b.row = a.row /\ b.col = a.col /\ b.skip = 2
      /\ a.skip = 0 /\ ch # Mark => b.skip = 0
      /\ a.skip = 0 /\ ch = NL => b.row = a.row + 1 /\ b.col = 0
      /\ a.skip = 0 /\ ch # Mark /\ ch # NL /\ a.col < max_char_x
            => b.row = a.row /\ b.col = a.col + 1
  BY <1>2, DrawGlyphFields
<1>8. a.row = r
  BY DEF r
<1> HIDE DEF b
<1>9. ASSUME ch # NL, b.row = r, b.col <= a.col + 1,
             \A j \in Nat : n <= j /\ j < n + b.skip => t.buf[j] # NL
      PROVE  InRow(t, e, b, n)
  <2>1. b.col \in Nat
    BY <1>7 DEF GlyphType
  <2>2. e[r] + b.col <= n /\ e[r] <= n
    BY <1>1, <1>2, <1>9, <2>1
  <2> QED
    BY <1>3, <1>6, <1>7, <1>9, <2>2, <1>1, <1>2 DEF InRow
<1>10. CASE a.skip > 0
  <2>1. ch # NL
    BY <1>1, <1>2, <1>10 DEF ch
  <2>2. \A j \in Nat : n <= j /\ j < n + b.skip => t.buf[j] # NL
    <3>1. b.skip = a.skip - 1
      BY <1>7, <1>10
    <3> QED
      BY <1>1, <1>2, <3>1
  <2>3. b.row = r /\ b.col <= a.col + 1
    BY <1>2, <1>7, <1>8, <1>10
  <2> QED
    BY <1>9, <2>1, <2>2, <2>3
<1>11. CASE a.skip = 0 /\ ch = Mark
  <2>1. ch # NL
    BY <1>11 DEF Mark, NL
  <2>2. t.buf[(n - 1) + 1] # NL /\ t.buf[(n - 1) + 2] # NL
    BY <1>1, <1>11 DEF Draft, WholeEscapes, ch
  <2>3. \A j \in Nat : n <= j /\ j < n + b.skip => t.buf[j] # NL
    <3>1. b.skip = 2 /\ (n - 1) + 1 = n /\ (n - 1) + 2 = n + 1
      BY <1>1, <1>7, <1>11
    <3>2. \A j \in Nat : n <= j /\ j < n + b.skip => j = n \/ j = n + 1
      BY <1>1, <3>1
    <3> QED
      BY <2>2, <3>1, <3>2
  <2>4. b.row = r /\ b.col <= a.col + 1
    BY <1>2, <1>7, <1>8, <1>11
  <2> QED
    BY <1>9, <2>1, <2>3, <2>4
<1>12. CASE a.skip = 0 /\ ch # Mark /\ ch # NL
  <2>1. a.col < max_char_x
    BY <1>1, <1>2, <1>4, <1>5, <1>6, <1>12, PlacesAre
  <2>2. b.row = r /\ b.col = a.col + 1 /\ b.skip = 0
    BY <1>7, <1>8, <1>12, <2>1
  <2>3. \A j \in Nat : ~(n <= j /\ j < n + b.skip)
    BY <1>1, <2>2
  <2>4. b.col <= a.col + 1
    BY <1>2, <2>2
  <2> QED
    BY <1>9, <1>12, <2>2, <2>3, <2>4
<1>13. CASE a.skip = 0 /\ ch = NL
  <2>1. b.row = r + 1 /\ b.col = 0 /\ b.skip = 0
    <3>1. ch # Mark
      BY <1>13 DEF Mark, NL
    <3> QED
      BY <1>7, <1>8, <1>13, <3>1
  <2>2. PICK k \in 1 .. t.lines : n - 1 = e[k] - 1
    BY <1>1, <1>13 DEF Draft, Ends, ch
  <2>3. k \in 0 .. t.lines /\ e[k] \in Nat /\ e[k] = n
    BY <1>1, <2>2
  <2>4. e[r + 1] = n
    <3>1. ~(k < r + 1)
      <4>1. k < r + 1 => k = r \/ k < r
        BY <1>2, <2>3
      <4>2. k < r => e[k] < e[r]
        BY <1>1, <1>2, <2>3, StairsRise
      <4> QED
        BY <1>1, <1>2, <2>3, <4>1, <4>2
    <3>2. ~(r + 1 < k)
      <4>1. r + 1 < k => e[r + 1] < e[k]
        BY <1>1, <1>4, <2>3, StairsRise
      <4> QED
        BY <1>1, <1>4, <2>3, <4>1
    <3>3. k = r + 1
      BY <1>2, <2>3, <3>1, <3>2
    <3> QED
      BY <2>3, <3>3
  <2>5. r + 1 < t.lines => n < e[(r + 1) + 1]
    <3>1. r + 1 < t.lines => (r + 1) + 1 \in 0 .. t.lines /\ r + 1 < (r + 1) + 1
      BY <1>1, <1>2
    <3>2. r + 1 < t.lines => e[r + 1] < e[(r + 1) + 1]
      BY <1>1, <1>4, <3>1, StairsRise
    <3> QED
      BY <2>4, <3>2
  <2>6. /\ e[b.row] <= n /\ e[b.row] + b.col <= n /\ b.row <= t.lines
        /\ b.row < t.lines => n < e[b.row + 1]
        /\ \A j \in Nat : ~(n <= j /\ j < n + b.skip)
    BY <1>1, <1>3, <1>2, <2>1, <2>4, <2>5
  <2> QED
    BY <1>7, <2>6 DEF InRow
<1> QED
  BY <1>2, <1>10, <1>11, <1>12, <1>13

\* The rows that draw_text_buffer fills are the lines that cur_lines counts.
LEMMA RowsAreLines ==
    ASSUME NEW t, NEW e, Draft(t, e), t.loc = e[t.lines], t.buf[t.loc] = End
    PROVE  t.lines = RowsDrawn(t.buf)
<1>1. /\ t.loc \in Nat /\ t.loc \in Places /\ t.lines \in Nat /\ Stairs(e, t.lines)
      /\ Full(t)
  BY DraftTypes DEF Draft
<1>2. FirstEnd(t.buf, 0) = t.loc
  BY <1>1, FirstEndIs DEF Full
<1>3. PICK f : /\ RowsDrawn(t.buf) = f[t.loc].row
               /\ f[0] = [row |-> 0, col |-> 0, skip |-> 0]
               /\ \A n \in 1 .. t.loc : f[n] = DrawGlyph(f[n - 1], t.buf[n - 1])
  BY <1>1, <1>2, RowsDrawnIs
<1>4. InRow(t, e, f[0], 0)
  <2>1. f[0] \in GlyphType /\ f[0].row = 0 /\ f[0].col = 0 /\ f[0].skip = 0
    BY <1>3 DEF GlyphType
  <2>2. e[0] = 0 /\ (0 < t.lines => 1 \in 0 .. t.lines /\ 0 \in 0 .. t.lines)
    BY <1>1 DEF Stairs
  <2>3. 0 < t.lines => e[0] < e[1]
    BY <1>1, <2>2, StairsRise
  <2> QED
    BY <1>1, <2>1, <2>2, <2>3 DEF InRow
<1> DEFINE T == {n \in 0 .. t.loc : ~InRow(t, e, f[n], n)}
<1>5. T = {}
  <2>1. SUFFICES ASSUME T # {} PROVE FALSE
    OBVIOUS
  <2>2. PICK n \in T : \A i \in T : n <= i
    <3>1. T \subseteq Nat
      BY <1>1
    <3> QED
      BY <2>1, <3>1, LeastElement
  <2>3. n # 0
    BY <1>4, <2>2
  <2>4. n \in 1 .. t.loc /\ n - 1 \in 0 .. t.loc /\ n - 1 \notin T
    BY <1>1, <2>2, <2>3
  <2>5. InRow(t, e, f[n - 1], n - 1)
    BY <2>4
  <2>6. InRow(t, e, f[n], n)
    <3>1. InRow(t, e, DrawGlyph(f[n - 1], t.buf[n - 1]), n)
      BY <2>4, <2>5, InRowStep
    <3> QED
      BY <1>3, <2>4, <3>1
  <2> QED
    BY <2>2, <2>6
<1>6. InRow(t, e, f[t.loc], t.loc)
  BY <1>1, <1>5
<1> DEFINE r == f[t.loc].row
<1>7. r \in Nat /\ r <= t.lines /\ (r < t.lines => t.loc < e[r + 1])
  BY <1>6 DEF InRow, GlyphType
<1> HIDE DEF r
<1>8. ~(r < t.lines)
  <2>1. SUFFICES ASSUME r < t.lines PROVE FALSE
    OBVIOUS
  <2>2. /\ r + 1 \in 0 .. t.lines /\ t.lines \in 0 .. t.lines
        /\ (r + 1 = t.lines \/ r + 1 < t.lines)
    BY <1>1, <1>7, <2>1
  <2>3. r + 1 < t.lines => e[r + 1] < e[t.lines]
    BY <1>1, <2>2, StairsRise
  <2>4. e[r + 1] \in Nat /\ e[t.lines] \in Nat
    BY <1>1, <2>2 DEF Stairs
  <2> QED
    BY <1>7, <2>1, <2>2, <2>3, <2>4
<1> QED
  BY <1>1, <1>3, <1>7, <1>8 DEF r

\* draw_user_chars puts the prompt into the row right below the text that
\* draw_text_buffer has drawn, whatever was scrolled away.
THEOREM PromptIsBelowText == LinesFit => (Spec => []PromptBelowText)
<1>1. TextInv => PromptBelowText
  <2> SUFFICES ASSUME TextInv PROVE PromptBelowText
    OBVIOUS
  <2>1. PICK e : Draft(text, e) /\ text.loc = e[text.lines]
    BY DEF TextInv
  <2>2. text.loc \in Places /\ text.loc \in Nat
    BY <2>1, DraftTypes
  <2>3. text.buf[text.loc] = End
    BY <2>2 DEF TextInv, Echo
  <2> QED
    BY <2>1, <2>3, RowsAreLines DEF PromptBelowText
<1> QED
  BY <1>1, TextInvariance, PTL
=============================================================================
