------------------------------- MODULE Keyboard -------------------------------
(***************************************************************************)
(* What the interactive sender of commands makes of the keys that are      *)
(* typed (escape_buffer in                                                 *)
(* utilities/command_sender/src/interactive/interactive_fd.cpp): reads     *)
(* that end anywhere, commands of several characters, numbers in front of  *)
(* a jump, and the two lines of a search.  The commands wait in to_write   *)
(* until the socket takes them.                                            *)
(*                                                                         *)
(* A key is the tuple of the characters that the terminal sends for it.    *)
(* int_commands are a few of the real ones, in their order; a command that *)
(* is sent is its number and its argument.  Left out: the key that quits,  *)
(* the cursor, and characters of more than one byte.                       *)
(***************************************************************************)
EXTENDS Integers, Sequences, SequencesExt

CONSTANTS
  int_commands, find_set, jmp,  \* the commands, and which of them take arguments
  Digit, DigitValue,            \* the digits
  Esc, Bracket, EndOfEscape,    \* escape sequences
  Newline, Backspace,
  Keys, max_keys, max_fast,     \* bounds: what is typed, and if some is read at once
  mod,                          \* 100000000
  name_size                     \* the longest name in a pattern

KeyboardAssumption ==
  /\ find_set \in DOMAIN int_commands /\ jmp \in DOMAIN int_commands
  /\ \A i \in DOMAIN int_commands : i < find_set => i < jmp
  /\ mod \in Nat \ {0} /\ name_size \in Nat /\ {max_keys, max_fast} \subseteq Nat
  /\ DigitValue \in [Digit -> 0 .. 9]

VARIABLES
  keys, unread,          \* all keys typed, and the characters not yet read
  slow,                  \* no read had characters of two keys
  chars,                 \* cmd_from_stdin
  number,
  status,                \* of the escape sequence in a search
  need_continue, pattern,  \* the line of the search, 1 or 2, and both lines
  to_write, polled,      \* polled: fd is registered for EPOLLOUT, too
  taken                  \* history: what the socket took

typing == <<keys, unread, slow>>
finder == <<status, need_continue, pattern>>
vars   == <<typing, chars, number, finder, to_write, polled, taken>>

\* What a pass works on.
State == [chars |-> chars, number |-> number, status |-> status,
          line |-> need_continue, pattern |-> pattern, sent |-> <<>>]

NoPattern == << <<>>, <<>> >>

(***************************************************************************)
(* search_input                                                            *)
(***************************************************************************)
\* Whether check_escape_sequence takes the character, and what it waits for then.
Escaped(s, c) ==
  IF c = Esc THEN "escape"
  ELSE IF s.status = "escape" THEN IF c = Bracket THEN "open_sb" ELSE "none"
  ELSE IF s.status = "open_sb" /\ c \in EndOfEscape THEN "none"
  ELSE s.status

Skipped(s, c) == c = Esc \/ s.status # "none"

WithLine(s, text) == [s EXCEPT !.pattern[s.line] = text]

Name(text) == SubSeq(text, 1, IF Len(text) < name_size THEN Len(text) ELSE name_size)

Edited(s, c) ==
  LET text == s.pattern[s.line] IN
  IF c = Backspace
    THEN IF text # <<>> THEN WithLine(s, Front(text))
         ELSE [s EXCEPT !.line = IF s.line = 2 THEN 1 ELSE s.line]
  ELSE IF Len(text) < 3 * name_size THEN WithLine(s, Append(text, c)) ELSE s

Searched(s) ==
  [s EXCEPT !.line = 0, !.pattern = NoPattern,
            !.sent = Append(s.sent, <<find_set, Name(s.pattern[1]), Name(s.pattern[2])>>)]

RECURSIVE search_input(_)
search_input(s) ==
  IF s.chars = <<>> \/ s.line = 0 THEN s
  ELSE LET c == Head(s.chars)
           r == [s EXCEPT !.chars = Tail(s.chars), !.status = Escaped(s, c)]
       IN search_input(
            IF Skipped(s, c) THEN r
            ELSE IF c # Newline THEN Edited(r, c)
            ELSE IF s.line = 1 THEN [r EXCEPT !.line = 2] ELSE Searched(r))

(***************************************************************************)
(* is_in_expected                                                          *)
(***************************************************************************)
WithDigit(n, c) == (n % mod) * 10 + DigitValue[c]

RECURSIVE read_number(_)
read_number(s) ==
  IF s.chars # <<>> /\ Head(s.chars) \in Digit
    THEN read_number([s EXCEPT !.chars = Tail(s.chars),
                               !.number = WithDigit(s.number, Head(s.chars))])
    ELSE s

\* std::mismatch
Common(a, b) ==
  CHOOSE n \in 0 .. Len(b) :
    /\ n <= Len(a) /\ \A i \in 1 .. n : a[i] = b[i]
    /\ n = Len(a) \/ n = Len(b) \/ a[n + 1] # b[n + 1]

KeepsNumber(s) == s.number                          \* mutant: the number is kept
Reset(s) == 0

Sent(s, i) ==
  [s EXCEPT !.number = Reset(s),
            !.sent = Append(s.sent, IF i = jmp THEN <<i, s.number>> ELSE <<i>>)]

\* From command i on, each is compared with what begins here.  The end is
\* "begun" if what is left may be the beginning of a command.
Ended(s, end) == [s |-> s, end |-> end]

RECURSIVE match(_, _)
match(i, s) ==
  IF i > Len(int_commands) \/ s.chars = <<>> THEN Ended(s, "none")
  ELSE LET n       == Common(s.chars, int_commands[i])
           matched == n = Len(int_commands[i])
           rest    == [s EXCEPT !.chars = SubSeq(s.chars, n + 1, Len(s.chars))]
           after   == IF matched THEN Sent(rest, i) ELSE s
       IN IF matched /\ i = find_set
            THEN Ended(search_input([rest EXCEPT !.number = 0, !.line = 1]), "search")
          ELSE IF n = Len(s.chars) THEN Ended(after, "begun")
          ELSE match(IF matched /\ i < find_set THEN i ELSE i + 1, after)

\* put: passes until nothing that is left can be used.
RECURSIVE put(_)
put(s) ==
  LET m == IF s.line # 0 THEN Ended(search_input(s), "search")
           ELSE match(1, read_number(s))
  IN CASE m.end = "search" -> IF m.s.line = 0 THEN put(m.s) ELSE m.s
       [] m.end = "begun"  -> m.s
       [] m.end = "none"   ->
            IF m.s.chars = <<>> THEN m.s
            ELSE put([m.s EXCEPT !.chars = Tail(m.s.chars), !.number = 0])

(***************************************************************************)
(* process                                                                 *)
(***************************************************************************)
Press ==
  /\ Len(keys) < IF slow /\ unread = <<>> THEN max_keys ELSE max_fast
  /\ \E k \in Keys : keys' = Append(keys, k) /\ unread' = unread \o k
  /\ slow' = (slow /\ unread = <<>>)
  /\ UNCHANGED <<chars, number, finder, to_write, polled, taken>>

Read ==
  \E n \in 1 .. Len(unread) :
    LET s == put([State EXCEPT !.chars = chars \o SubSeq(unread, 1, n)]) IN
    /\ unread' = SubSeq(unread, n + 1, Len(unread))
    /\ chars' = s.chars /\ number' = s.number
    /\ status' = s.status /\ need_continue' = s.line /\ pattern' = s.pattern
    /\ to_write' = to_write \o s.sent
    /\ polled' = (polled \/ (to_write = <<>> /\ s.sent # <<>>))
    /\ UNCHANGED <<keys, slow, taken>>

\* The socket takes some of it.
Write ==
  /\ polled
  /\ \E n \in 0 .. Len(to_write) :
       /\ taken' = taken \o SubSeq(to_write, 1, n)
       /\ to_write' = SubSeq(to_write, n + 1, Len(to_write))
       /\ polled' = (n # Len(to_write))
  /\ UNCHANGED <<typing, chars, number, finder>>

First == <<0>>                                      \* send_info, to begin with

Init ==
  /\ keys = <<>> /\ unread = <<>> /\ slow = TRUE
  /\ chars = <<>> /\ number = 0
  /\ status = "none" /\ need_continue = 0 /\ pattern = NoPattern
  /\ to_write = <<First>> /\ polled = TRUE /\ taken = <<>>

Next == Press \/ Read \/ Write

Spec == Init /\ [][Next]_vars

(***************************************************************************)
(* Properties.  What the keys mean, one after the other: half says that a  *)
(* jump has been begun.                                                    *)
(***************************************************************************)
\* What waits for more characters is the beginning of a command.
TypeOK ==
  /\ \E i \in DOMAIN int_commands : IsPrefix(chars, int_commands[i])
  /\ number \in 0 .. mod * 10 - 1
  /\ status \in {"none", "escape", "open_sb"} /\ need_continue \in 0 .. 2
  /\ \A line \in 1 .. 2 : Len(pattern[line]) <= 3 * name_size
  /\ slow \in BOOLEAN /\ polled \in BOOLEAN

Half(c) == SubSeq(c, 1, 1)

Meaning == [number |-> 0, half |-> FALSE, line |-> 0, pattern |-> NoPattern, sent |-> <<>>]

InSearch(m, k) ==
  LET text == m.pattern[m.line] IN
  CASE k = <<Newline>> /\ m.line = 1 -> [m EXCEPT !.line = 2]
    [] k = <<Newline>> /\ m.line = 2 ->
         [m EXCEPT !.line = 0, !.pattern = NoPattern,
                   !.sent = Append(@, <<find_set, Name(m.pattern[1]), Name(m.pattern[2])>>)]
    [] k = <<Backspace>> ->
         IF text = <<>> THEN [m EXCEPT !.line = 1] ELSE [m EXCEPT !.pattern[m.line] = Front(text)]
    [] Head(k) = Esc -> m
    [] OTHER -> IF Len(text) = 3 * name_size THEN m ELSE [m EXCEPT !.pattern[m.line] = text \o k]

Means(m, k) ==
  IF m.line # 0 THEN InSearch(m, k)
  ELSE IF Head(k) \in Digit
    THEN [m EXCEPT !.half = FALSE,
                   !.number = WithDigit(IF m.half THEN 0 ELSE m.number, Head(k))]
  ELSE IF k = Half(int_commands[jmp])
    THEN IF m.half THEN [m EXCEPT !.half = FALSE, !.number = 0,
                                  !.sent = Append(@, <<jmp, m.number>>)]
         ELSE [m EXCEPT !.half = TRUE]
  ELSE IF k = int_commands[find_set] THEN [m EXCEPT !.half = FALSE, !.number = 0, !.line = 1]
  ELSE IF \E i \in DOMAIN int_commands : int_commands[i] = k
    THEN [m EXCEPT !.half = FALSE, !.number = 0,
                   !.sent = Append(@, <<CHOOSE i \in DOMAIN int_commands : int_commands[i] = k>>)]
  ELSE [m EXCEPT !.half = FALSE, !.number = 0]

Meant == FoldLeft(Means, Meaning, keys).sent

\* When every key is read before the next one is typed, in however many reads, the
\* player is sent the commands that the keys mean, each once and with the number or
\* the names typed for it; and what waits is always polled for.
SentAsTyped ==
  /\ slow /\ unread = <<>> => taken \o to_write = <<First>> \o Meant
  /\ to_write # <<>> => polled
=============================================================================
