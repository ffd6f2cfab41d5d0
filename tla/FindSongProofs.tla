---------------------------- MODULE FindSongProofs ----------------------------
(***************************************************************************)
(* The search in a name, for every pattern and every name: what it reads   *)
(* lies in the pattern and in the name, and it finds the pattern if and    *)
(* only if that occurs in the name.                                        *)
(***************************************************************************)
EXTENDS FindSong, SequenceTheorems, TLAPS

(***************************************************************************)
(* The first l characters of the pattern, at the end of the first n of s,  *)
(* which is the name or the pattern itself.                                *)
(***************************************************************************)
Ends(l, s, n) ==
  /\ l \in 0 .. n
  /\ \A k \in 1 .. l : substr[k] = s[(n - l) + k]

\* What stands at the end of what stands at an end stands at that end.
LEMMA EndOfEnd ==
  ASSUME NEW s, NEW n \in Nat, NEW p \in Nat, NEW b \in Nat,
         Ends(p, s, n), Ends(b, substr, p)
  PROVE  Ends(b, s, n)
  <1>1. p <= n /\ b <= p
    BY DEF Ends
  <1>2. ASSUME NEW k \in 1 .. b
        PROVE  substr[k] = s[(n - b) + k]
    <2> DEFINE j == (p - b) + k
    <2>1. j \in 1 .. p /\ (n - p) + j = (n - b) + k
      BY <1>1
    <2>2. substr[k] = substr[j]
      BY DEF Ends
    <2>3. substr[j] = s[(n - p) + j]
      BY <2>1 DEF Ends
    <2> QED
      BY <2>1, <2>2, <2>3
  <1> QED
    BY <1>1, <1>2 DEF Ends

\* Of two that stand at an end, the shorter one stands at the end of the longer.
LEMMA ShorterEnd ==
  ASSUME NEW s, NEW n \in Nat, NEW p \in Nat, NEW b \in Nat,
         Ends(p, s, n), Ends(b, s, n), b <= p
  PROVE  Ends(b, substr, p)
  <1>1. p <= n
    BY DEF Ends
  <1>2. ASSUME NEW k \in 1 .. b
        PROVE  substr[k] = substr[(p - b) + k]
    <2> DEFINE j == (p - b) + k
    <2>1. j \in 1 .. p /\ (n - p) + j = (n - b) + k
      BY <1>1
    <2>2. substr[j] = s[(n - p) + j]
      BY <2>1 DEF Ends
    <2>3. substr[k] = s[(n - b) + k]
      BY DEF Ends
    <2> QED
      BY <2>1, <2>2, <2>3
  <1> QED
    BY <1>2 DEF Ends

\* One character more.
LEMMA LongerEnd ==
  ASSUME NEW s, NEW n \in Nat, NEW l \in Nat
  PROVE  Ends(l + 1, s, n + 1) <=> Ends(l, s, n) /\ substr[l + 1] = s[n + 1]
  <1>1. \A k \in Int : ((n + 1) - (l + 1)) + k = (n - l) + k
    OBVIOUS
  <1>2. l + 1 \in 0 .. n + 1 <=> l \in 0 .. n
    OBVIOUS
  <1>3. ASSUME Ends(l + 1, s, n + 1)
        PROVE  Ends(l, s, n) /\ substr[l + 1] = s[n + 1]
    <2>1. \A k \in 1 .. l + 1 : substr[k] = s[(n - l) + k]
      BY <1>1, <1>3 DEF Ends
    <2>2. l + 1 \in 1 .. l + 1 /\ (n - l) + (l + 1) = n + 1 /\ 1 .. l \subseteq 1 .. l + 1
      OBVIOUS
    <2> QED
      BY <1>2, <1>3, <2>1, <2>2 DEF Ends
  <1>4. ASSUME Ends(l, s, n), substr[l + 1] = s[n + 1]
        PROVE  Ends(l + 1, s, n + 1)
    <2>1. ASSUME NEW k \in 1 .. l + 1
          PROVE  substr[k] = s[((n + 1) - (l + 1)) + k]
      <3>1. CASE k = l + 1
        <4>1. ((n + 1) - (l + 1)) + (l + 1) = n + 1
          OBVIOUS
        <4> QED
          BY <1>4, <3>1, <4>1
      <3>2. CASE k \in 1 .. l
        BY <1>1, <1>4, <3>2 DEF Ends
      <3> QED
        BY <3>1, <3>2
    <2> QED
      BY <1>2, <1>4, <2>1 DEF Ends
  <1> QED
    BY <1>3, <1>4

\* Nothing stands at every end.
LEMMA EmptyEnds ==
  ASSUME NEW s, NEW n \in Nat
  PROVE  Ends(0, s, n)
  BY DEF Ends

(***************************************************************************)
(* The table of the prefix function.                                       *)
(***************************************************************************)
\* q is the longest that is shorter than k and stands at the end of the first k
\* of the pattern; there is none for k = 0.
IsLongest(q, k) ==
  /\ \/ q = -1 /\ k = 0
     \/ q \in 0 .. k - 1 /\ Ends(q, substr, k)
  /\ \A b \in 0 .. k - 1 : Ends(b, substr, k) => b <= q

\* None that is longer than p, up to top, can go on with c.
NoLonger(p, top, s, n, c) ==
  \A b \in 0 .. top : Ends(b, s, n) /\ b > p => substr[b + 1] # c

\* Going back to the longest border gives up nothing that could go on.
LEMMA BackStep ==
  ASSUME NEW s, NEW n \in Nat, NEW p \in Nat, NEW q \in Int, NEW top, NEW c,
         Ends(p, s, n), IsLongest(q, p),
         substr[p + 1] # c, NoLonger(p, top, s, n, c)
  PROVE  /\ q = -1 \/ (q \in Nat /\ Ends(q, s, n))
         /\ q < p
         /\ NoLonger(q, top, s, n, c)
  <1>1. q = -1 \/ (q \in Nat /\ q < p /\ Ends(q, substr, p))
    BY DEF IsLongest
  <1>2. q = -1 \/ (q \in Nat /\ Ends(q, s, n))
    BY <1>1, EndOfEnd
  <1>3. ASSUME NEW b \in 0 .. top, Ends(b, s, n), b > q
        PROVE  substr[b + 1] # c
    <2>1. b \in Nat
      BY <1>3 DEF Ends
    <2>2. CASE b > p
      BY <1>3, <2>2 DEF NoLonger
    <2>3. CASE b = p
      BY <2>3
    <2>4. CASE b < p
      <3>1. Ends(b, substr, p)
        BY <1>3, <2>1, <2>4, ShorterEnd
      <3>2. b <= q
        BY <2>1, <2>4, <3>1 DEF IsLongest
      <3> QED
        BY <1>3, <2>1, <3>2
    <2> QED
      BY <2>1, <2>2, <2>3, <2>4
  <1> QED
    BY <1>1, <1>2, <1>3 DEF NoLonger

\* Going on gives the longest there is with the next character.
LEMMA NextStep ==
  ASSUME NEW s, NEW n \in Nat, NEW p \in Int, NEW top \in Int,
         p = -1 \/ (p \in Nat /\ Ends(p, s, n)),
         p # -1 => substr[p + 1] = s[n + 1],
         NoLonger(p, top, s, n, s[n + 1])
  PROVE  /\ p + 1 \in Nat /\ Ends(p + 1, s, n + 1)
         /\ \A b \in 0 .. top + 1 : Ends(b, s, n + 1) => b <= p + 1
  <1>1. p + 1 \in Nat /\ Ends(p + 1, s, n + 1)
    <2>1. CASE p = -1
      BY <2>1, EmptyEnds
    <2>2. CASE p \in Nat /\ Ends(p, s, n)
      BY <2>2, LongerEnd
    <2> QED
      BY <2>1, <2>2
  <1>2. ASSUME NEW b \in 0 .. top + 1, Ends(b, s, n + 1), ~(b <= p + 1)
        PROVE  FALSE
    <2> DEFINE a == b - 1
    <2>1. a \in Nat /\ a \in 0 .. top /\ a > p /\ b = a + 1
      BY <1>1, <1>2
    <2> HIDE DEF a
    <2>2. Ends(a, s, n) /\ substr[a + 1] = s[n + 1]
      BY <1>2, <2>1, LongerEnd
    <2> QED
      BY <2>1, <2>2 DEF NoLonger
  <1> QED
    BY <1>1, <1>2

(***************************************************************************)
(* The invariant.                                                          *)
(***************************************************************************)
Filled == IF phase = "prefix" THEN i ELSE str_size

TableInv == str_size # 0 => \A k \in 0 .. Filled : IsLongest(pf[k], k)

PrefixInv ==
  phase = "prefix" =>
    /\ pos < i
    /\ pos = -1 \/ Ends(pos, substr, i)
    /\ NoLonger(pos, i - 1, substr, i, substr[i + 1])

ScanInv ==
  phase = "scan" =>
    /\ str_size # 0 /\ ~found
    /\ pos = -1 \/ Ends(pos, text, i)
    /\ NoLonger(pos, str_size - 1, text, i, text[i + 1])
    /\ \A n \in 0 .. i : ~Ends(str_size, text, n)

IInv == TypeOK /\ TableInv /\ PrefixInv /\ ScanInv /\ FoundIffOccurs

LEMMA StandsIsEnds ==
  ASSUME NEW l, NEW n
  PROVE  Stands(l, n) <=> Ends(l, text, n)
  BY DEF Stands, Ends

LEMMA InitHolds ==
  ASSUME FindSongAssumption, Init
  PROVE  IInv
  <1>1. PICK n \in 0 .. MaxSize : substr \in [1 .. n -> Char]
    BY DEF Init
  <1>2. n \in Nat /\ n <= MaxSize
    BY <1>1 DEF FindSongAssumption
  <1>3. substr \in Seq(Char) /\ Len(substr) = n
    <2>1. substr \in Seq(Char)
      BY <1>1, <1>2, SeqDef
    <2>2. DOMAIN substr = 1 .. Len(substr) /\ Len(substr) \in Nat
      BY <2>1, LenProperties
    <2>3. DOMAIN substr = 1 .. n
      BY <1>1
    <2>4. \A m \in Nat : 1 .. m = 1 .. n => m = n
      BY <1>2
    <2> QED
      BY <2>1, <2>2, <2>3, <2>4
  <1>4. str_size \in Nat /\ str_size <= MaxSize
    BY <1>2, <1>3 DEF str_size
  <1>5. pf \in [0 .. str_size -> Int] /\ \A k \in 0 .. str_size : pf[k] = IF k = 0 /\ str_size # 0 THEN -1 ELSE 0
    BY <1>4 DEF Init, FirstEntry
  <1>6. TypeOK
    <2>1. \A k \in 0 .. str_size : pf[k] >= -1 /\ (k > 0 => pf[k] < k)
      BY <1>4, <1>5
    <2>2. /\ text \in [1 .. text_size -> Char] /\ phase = "prefix"
          /\ i = 0 /\ pos = -1 /\ found = FALSE
      BY DEF Init
    <2>3. i # str_size => pos < str_size
      BY <1>4, <2>2
    <2> QED
      BY <1>3, <1>4, <1>5, <2>1, <2>2, <2>3 DEF TypeOK, str_size
  <1>7. TableInv
    <2>1. ASSUME str_size # 0, NEW k \in 0 .. Filled
          PROVE  IsLongest(pf[k], k)
      <3>1. k = 0 /\ pf[0] = -1
        BY <1>4, <1>5, <2>1 DEF Filled, Init
      <3> QED
        BY <3>1 DEF IsLongest
    <2> QED
      BY <2>1 DEF TableInv
  <1>8. PrefixInv
    BY DEF Init, PrefixInv, NoLonger
  <1> QED
    BY <1>6, <1>7, <1>8 DEF Init, IInv, ScanInv, FoundIffOccurs

(***************************************************************************)
(* What the steps have in common.                                          *)
(***************************************************************************)
\* Only the table grows, and only while it is filled.
LEMMA Kept ==
  ASSUME TypeOK, UNCHANGED input
  PROVE  /\ substr' = substr /\ text' = text /\ str_size' = str_size
         /\ str_size \in Nat /\ str_size' \in Nat
  <1>1. substr' = substr /\ text' = text
    BY DEF input
  <1>2. str_size \in Nat
    BY LenProperties DEF TypeOK, str_size
  <1> QED
    BY <1>1, <1>2 DEF str_size

LEMMA PrefixBackStep ==
  ASSUME IInv, PrefixBack
  PROVE  IInv'
  <1>1. /\ substr' = substr /\ text' = text /\ str_size' = str_size
        /\ str_size \in Nat
    BY Kept DEF IInv, PrefixBack
  <1>2. /\ i' = i /\ pf' = pf /\ phase' = "prefix" /\ phase = "prefix"
        /\ found' = found /\ pos' = pf[pos] /\ i # str_size
    BY DEF PrefixBack, Back
  <1>3. i \in Nat /\ i < str_size /\ pos \in Nat /\ pos < i
    BY <1>1, <1>2 DEF IInv, TypeOK, PrefixInv, PrefixBack
  <1>4. pf[pos] \in Int /\ IsLongest(pf[pos], pos)
    <2>1. pos \in 0 .. str_size /\ pos \in 0 .. i
      BY <1>1, <1>3
    <2> QED
      BY <1>1, <1>2, <1>3, <2>1 DEF IInv, TypeOK, TableInv, Filled
  <1>5. /\ pf[pos] = -1 \/ (pf[pos] \in Nat /\ Ends(pf[pos], substr, i))
        /\ pf[pos] < pos
        /\ NoLonger(pf[pos], i - 1, substr, i, substr[i + 1])
    <2>1. Ends(pos, substr, i) /\ NoLonger(pos, i - 1, substr, i, substr[i + 1])
      BY <1>2, <1>3 DEF IInv, PrefixInv
    <2>2. substr[pos + 1] # substr[i + 1]
      BY DEF PrefixBack
    <2> DEFINE q == pf[pos]
               c == substr[i + 1]
               top == i - 1
    <2>3. q \in Int /\ IsLongest(q, pos)
      BY <1>4
    <2>4. Ends(pos, substr, i) /\ NoLonger(pos, top, substr, i, c) /\ substr[pos + 1] # c
      BY <2>1, <2>2
    <2>5. i \in Nat /\ pos \in Nat
      BY <1>3
    <2> HIDE DEF q, c, top
    <2>6. /\ q = -1 \/ (q \in Nat /\ Ends(q, substr, i))
          /\ q < pos
          /\ NoLonger(q, top, substr, i, c)
      BY <2>3, <2>4, <2>5, BackStep
    <2> QED
      BY <2>6 DEF q, c, top
  <1>6. TypeOK'
    BY <1>1, <1>2, <1>3, <1>4, <1>5, SMTT(60) DEF IInv, TypeOK
  <1>7. TableInv'
    BY <1>1, <1>2 DEF IInv, TableInv, Filled, IsLongest, Ends
  <1>8. PrefixInv'
    BY <1>1, <1>2, <1>3, <1>4, <1>5 DEF PrefixInv, NoLonger, Ends
  <1> QED
    BY <1>2, <1>6, <1>7, <1>8 DEF IInv, ScanInv, FoundIffOccurs

LEMMA PrefixNextStep ==
  ASSUME IInv, PrefixNext
  PROVE  IInv'
  <1>1. /\ substr' = substr /\ text' = text /\ str_size' = str_size
        /\ str_size \in Nat
    BY Kept DEF IInv, PrefixNext
  <1>2. /\ i' = i + 1 /\ pf' = [pf EXCEPT ![i + 1] = pos + 1]
        /\ phase' = "prefix" /\ phase = "prefix"
        /\ found' = found /\ pos' = pos + 1 /\ i # str_size
    BY DEF PrefixNext
  <1>3. i \in Nat /\ i < str_size /\ pos \in Int /\ pos >= -1 /\ pos < i
    BY <1>1, <1>2 DEF IInv, TypeOK, PrefixInv
  <1>4. /\ pos + 1 \in Nat /\ Ends(pos + 1, substr, i + 1)
        /\ \A b \in 0 .. (i - 1) + 1 : Ends(b, substr, i + 1) => b <= pos + 1
    <2>1. /\ pos = -1 \/ (pos \in Nat /\ Ends(pos, substr, i))
          /\ NoLonger(pos, i - 1, substr, i, substr[i + 1])
      BY <1>2, <1>3 DEF IInv, PrefixInv
    <2>2. pos # -1 => substr[pos + 1] = substr[i + 1]
      BY DEF PrefixNext
    <2>3. i - 1 \in Int
      BY <1>3
    <2> QED
      BY <1>3, <2>1, <2>2, <2>3, NextStep
  <1>5. IsLongest(pos + 1, i + 1)
    <2>1. (i - 1) + 1 = i /\ (i + 1) - 1 = i /\ pos + 1 \in 0 .. i
      BY <1>3, <1>4
    <2> QED
      BY <1>4, <2>1 DEF IsLongest
  <1>6. /\ pf' \in [0 .. str_size -> Int] /\ pf'[i + 1] = pos + 1
        /\ \A k \in 0 .. str_size : k # i + 1 => pf'[k] = pf[k]
    BY <1>1, <1>2, <1>3 DEF IInv, TypeOK
  <1>7. TypeOK'
    <2>1. \A k \in 0 .. str_size : pf'[k] >= -1 /\ (k > 0 => pf'[k] < k)
      <3> SUFFICES ASSUME NEW k \in 0 .. str_size
                   PROVE  pf'[k] >= -1 /\ (k > 0 => pf'[k] < k)
        OBVIOUS
      <3>1. CASE k = i + 1
        BY <1>3, <1>4, <1>6, <3>1
      <3>2. CASE k # i + 1
        BY <1>6, <3>2 DEF IInv, TypeOK
      <3> QED
        BY <3>1, <3>2
    <2>2. /\ pos + 1 <= i + 1 /\ i + 1 <= str_size /\ i + 1 \in Nat
          /\ i + 1 # str_size => pos + 1 < str_size
      BY <1>1, <1>3
    <2> QED
      BY <1>1, <1>2, <1>3, <1>4, <1>6, <2>1, <2>2 DEF IInv, TypeOK
  <1>8. TableInv'
    <2>1. ASSUME NEW k \in 0 .. i + 1
          PROVE  IsLongest(pf'[k], k)
      <3>1. CASE k = i + 1
        BY <1>5, <1>6, <1>3, <3>1
      <3>2. CASE k # i + 1
        <4>1. k \in 0 .. i /\ k \in 0 .. str_size /\ str_size # 0
          BY <1>1, <1>3, <3>2
        <4> QED
          BY <1>2, <1>6, <3>2, <4>1 DEF IInv, TableInv, Filled
      <3> QED
        BY <3>1, <3>2
    <2> QED
      BY <1>1, <1>2, <2>1 DEF TableInv, Filled, IsLongest, Ends
  <1>9. PrefixInv'
    <2>1. \A b \in 0 .. (i + 1) - 1 : Ends(b, substr, i + 1) => ~(b > pos + 1)
      <3>1. (i + 1) - 1 = (i - 1) + 1
        BY <1>3
      <3>2. \A b \in 0 .. (i - 1) + 1 : b <= pos + 1 => ~(b > pos + 1)
        BY <1>3
      <3> QED
        BY <1>4, <3>1, <3>2
    <2>2. NoLonger(pos + 1, (i + 1) - 1, substr, i + 1, substr[(i + 1) + 1])
      BY <2>1 DEF NoLonger
    <2>3. pos + 1 < i + 1
      BY <1>3
    <2> QED
      BY <1>1, <1>2, <1>4, <2>2, <2>3 DEF PrefixInv, NoLonger, Ends
  <1> QED
    BY <1>2, <1>7, <1>8, <1>9 DEF IInv, ScanInv, FoundIffOccurs

LEMMA PrefixEndStep ==
  ASSUME FindSongAssumption, IInv, PrefixEnd
  PROVE  IInv'
  <1>1. /\ substr' = substr /\ text' = text /\ str_size' = str_size
        /\ str_size \in Nat
    BY Kept DEF IInv, PrefixEnd
  <1>2. /\ i' = 0 /\ pf' = pf /\ phase = "prefix" /\ pos' = 0
        /\ found' = (str_size = 0) /\ i = str_size
        /\ phase' = IF str_size = 0 THEN "done" ELSE "scan"
    BY DEF PrefixEnd
  <1>3. TypeOK'
    <2>1. 0 <= text_size
      BY DEF FindSongAssumption
    <2>2. phase' \in {"prefix", "scan", "done"} /\ phase' # "prefix"
      BY <1>2
    <2>3. phase' = "scan" => pos' < str_size'
      BY <1>1, <1>2
    <2>4. found' \in BOOLEAN
      BY <1>2
    <2> QED
      BY <1>1, <1>2, <2>1, <2>2, <2>3, <2>4 DEF IInv, TypeOK
  <1>4. TableInv'
    BY <1>1, <1>2 DEF IInv, TableInv, Filled, IsLongest, Ends
  <1>5. ScanInv'
    <2>1. SUFFICES ASSUME str_size # 0
                   PROVE  /\ Ends(0, text, 0)
                          /\ NoLonger(0, str_size - 1, text, 0, text[0 + 1])
                          /\ \A n \in 0 .. 0 : ~Ends(str_size, text, n)
      BY <1>1, <1>2 DEF ScanInv, NoLonger, Ends
    <2>2. \A b \in Int : Ends(b, text, 0) => b = 0
      BY DEF Ends
    <2>3. ~Ends(str_size, text, 0)
      BY <1>1, <2>1, <2>2
    <2>4. NoLonger(0, str_size - 1, text, 0, text[0 + 1])
      BY <1>1, <2>2 DEF NoLonger
    <2> QED
      BY <2>3, <2>4, EmptyEnds
  <1>6. FoundIffOccurs'
    <2>1. SUFFICES ASSUME str_size = 0
                   PROVE  Occurs'
      BY <1>1, <1>2 DEF FoundIffOccurs
    <2>2. 0 \in 0 .. text_size /\ Ends(0, text, 0)
      BY EmptyEnds DEF FindSongAssumption
    <2> QED
      BY <1>1, <2>1, <2>2 DEF Occurs, Stands, Ends
  <1> QED
    BY <1>2, <1>3, <1>4, <1>5, <1>6 DEF IInv, PrefixInv

LEMMA ScanBackStep ==
  ASSUME IInv, ScanBack
  PROVE  IInv'
  <1>1. /\ substr' = substr /\ text' = text /\ str_size' = str_size
        /\ str_size \in Nat
    BY Kept DEF IInv, ScanBack
  <1>2. /\ i' = i /\ pf' = pf /\ phase' = "scan" /\ phase = "scan"
        /\ found' = found /\ pos' = pf[pos]
    BY DEF ScanBack, Back
  <1>3. i \in Nat /\ pos \in Nat /\ pos < str_size
    BY <1>1, <1>2 DEF IInv, TypeOK, ScanBack
  <1>4. pf[pos] \in Int /\ IsLongest(pf[pos], pos)
    <2>1. pos \in 0 .. str_size /\ str_size # 0
      BY <1>1, <1>3
    <2> QED
      BY <1>1, <1>2, <2>1 DEF IInv, TypeOK, TableInv, Filled
  <1>5. /\ pf[pos] = -1 \/ (pf[pos] \in Nat /\ Ends(pf[pos], text, i))
        /\ pf[pos] < pos
        /\ NoLonger(pf[pos], str_size - 1, text, i, text[i + 1])
    <2>1. Ends(pos, text, i) /\ NoLonger(pos, str_size - 1, text, i, text[i + 1])
      BY <1>2, <1>3 DEF IInv, ScanInv
    <2>2. substr[pos + 1] # text[i + 1]
      BY DEF ScanBack
    <2> DEFINE q == pf[pos]
               c == text[i + 1]
               top == str_size - 1
    <2>3. q \in Int /\ IsLongest(q, pos)
      BY <1>4
    <2>4. Ends(pos, text, i) /\ NoLonger(pos, top, text, i, c) /\ substr[pos + 1] # c
      BY <2>1, <2>2
    <2>5. i \in Nat /\ pos \in Nat
      BY <1>3
    <2> HIDE DEF q, c, top
    <2>6. /\ q = -1 \/ (q \in Nat /\ Ends(q, text, i))
          /\ q < pos
          /\ NoLonger(q, top, text, i, c)
      BY <2>3, <2>4, <2>5, BackStep
    <2> QED
      BY <2>6 DEF q, c, top
  <1>6. TypeOK'
    BY <1>1, <1>2, <1>3, <1>4, <1>5 DEF IInv, TypeOK
  <1>7. TableInv'
    BY <1>1, <1>2 DEF IInv, TableInv, Filled, IsLongest, Ends
  <1>8. ScanInv'
    BY <1>1, <1>2, <1>5 DEF IInv, ScanInv, NoLonger, Ends
  <1> QED
    BY <1>2, <1>6, <1>7, <1>8 DEF IInv, PrefixInv, FoundIffOccurs

LEMMA ScanNextStep ==
  ASSUME FindSongAssumption, IInv, ScanNext
  PROVE  IInv'
  <1>1. /\ substr' = substr /\ text' = text /\ str_size' = str_size
        /\ str_size \in Nat
    BY Kept DEF IInv, ScanNext
  <1>2. /\ i' = i + 1 /\ pf' = pf /\ phase = "scan" /\ pos' = pos + 1
        /\ found' = (pos + 1 = str_size) /\ i # text_size
        /\ phase' = IF pos + 1 = str_size THEN "done" ELSE "scan"
    BY DEF ScanNext, Complete
  <1>3. /\ i \in Nat /\ i < text_size /\ text_size \in Nat
        /\ pos \in Int /\ pos >= -1 /\ pos < str_size /\ str_size # 0
    BY <1>1, <1>2 DEF IInv, TypeOK, ScanInv, FindSongAssumption
  <1>4. /\ pos + 1 \in Nat /\ Ends(pos + 1, text, i + 1)
        /\ \A b \in 0 .. str_size : Ends(b, text, i + 1) => b <= pos + 1
    <2>1. /\ pos = -1 \/ (pos \in Nat /\ Ends(pos, text, i))
          /\ NoLonger(pos, str_size - 1, text, i, text[i + 1])
      BY <1>2, <1>3 DEF IInv, ScanInv
    <2>2. pos # -1 => substr[pos + 1] = text[i + 1]
      BY DEF ScanNext
    <2>3. str_size - 1 \in Int /\ (str_size - 1) + 1 = str_size
      BY <1>1
    <2>4. \A b \in 0 .. (str_size - 1) + 1 : Ends(b, text, i + 1) => b <= pos + 1
      BY <1>3, <2>1, <2>2, <2>3, NextStep
    <2>5. pos + 1 \in Nat /\ Ends(pos + 1, text, i + 1)
      BY <1>3, <2>1, <2>2, <2>3, NextStep
    <2> QED
      BY <2>3, <2>4, <2>5
  <1>5. TypeOK'
    <2>1. i' \in Nat /\ i' <= text_size /\ pos' \in Int /\ pos' >= -1
      BY <1>2, <1>3
    <2>2. phase' \in {"prefix", "scan", "done"} /\ phase' # "prefix"
      BY <1>2
    <2>3. phase' = "scan" => pos' < str_size'
      BY <1>1, <1>2, <1>3
    <2>4. found' \in BOOLEAN
      BY <1>2
    <2> QED
      BY <1>1, <1>2, <2>1, <2>2, <2>3, <2>4 DEF IInv, TypeOK
  <1>6. TableInv'
    BY <1>1, <1>2 DEF IInv, TableInv, Filled, IsLongest, Ends
  <1>7. ScanInv'
    <2>1. SUFFICES ASSUME pos + 1 # str_size
                   PROVE  /\ NoLonger(pos + 1, str_size - 1, text, i + 1, text[(i + 1) + 1])
                          /\ \A n \in 0 .. i + 1 : ~Ends(str_size, text, n)
      BY <1>1, <1>2, <1>3, <1>4 DEF ScanInv, NoLonger, Ends
    <2>2. \A b \in 0 .. str_size - 1 : Ends(b, text, i + 1) => ~(b > pos + 1)
      <3>1. \A b \in 0 .. str_size - 1 : b \in 0 .. str_size /\ (b <= pos + 1 => ~(b > pos + 1))
        BY <1>1, <1>3
      <3> QED
        BY <1>4, <3>1
    <2>3. NoLonger(pos + 1, str_size - 1, text, i + 1, text[(i + 1) + 1])
      BY <2>2 DEF NoLonger
    <2>4. ~Ends(str_size, text, i + 1)
      <3>1. str_size \in 0 .. str_size /\ ~(str_size <= pos + 1)
        BY <1>1, <1>3, <2>1
      <3> QED
        BY <1>4, <3>1
    <2>5. \A n \in 0 .. i : ~Ends(str_size, text, n)
      BY <1>2 DEF IInv, ScanInv
    <2>6. \A n \in 0 .. i + 1 : n \in 0 .. i \/ n = i + 1
      BY <1>3
    <2> QED
      BY <2>3, <2>4, <2>5, <2>6
  <1>8. FoundIffOccurs'
    <2>1. SUFFICES ASSUME pos + 1 = str_size
                   PROVE  Occurs'
      BY <1>1, <1>2 DEF FoundIffOccurs
    <2>2. i + 1 \in 0 .. text_size /\ Ends(str_size, text, i + 1)
      BY <1>3, <1>4, <2>1
    <2>3. Stands(str_size, i + 1)
      BY <2>2, StandsIsEnds
    <2>4. Occurs
      BY <2>2, <2>3 DEF Occurs
    <2> QED
      BY <1>1, <2>4 DEF Occurs, Stands
  <1> QED
    BY <1>2, <1>5, <1>6, <1>7, <1>8 DEF IInv, PrefixInv

LEMMA ScanEndStep ==
  ASSUME IInv, ScanEnd
  PROVE  IInv'
  <1>1. /\ substr' = substr /\ text' = text /\ str_size' = str_size
        /\ str_size \in Nat
    BY Kept DEF IInv, ScanEnd
  <1>2. /\ i' = i /\ pf' = pf /\ phase = "scan" /\ pos' = pos
        /\ found' = found /\ i = text_size /\ phase' = "done"
    BY DEF ScanEnd
  <1>3. TypeOK'
    BY <1>1, <1>2 DEF IInv, TypeOK
  <1>4. TableInv'
    BY <1>1, <1>2 DEF IInv, TableInv, Filled, IsLongest, Ends
  <1>5. ~found /\ ~Occurs
    BY <1>2, StandsIsEnds DEF IInv, ScanInv, Occurs
  <1>6. FoundIffOccurs'
    BY <1>1, <1>2, <1>5 DEF FoundIffOccurs, Occurs, Stands
  <1> QED
    BY <1>2, <1>3, <1>4, <1>6 DEF IInv, PrefixInv, ScanInv

LEMMA Stutter ==
  ASSUME IInv, UNCHANGED vars
  PROVE  IInv'
  <1>1. /\ substr' = substr /\ text' = text /\ str_size' = str_size
        /\ pf' = pf /\ phase' = phase /\ i' = i /\ pos' = pos /\ found' = found
    BY DEF vars, input, str_size
  <1>2. TypeOK'
    BY <1>1 DEF IInv, TypeOK
  <1>3. TableInv' /\ PrefixInv' /\ ScanInv'
    BY <1>1 DEF IInv, TableInv, PrefixInv, ScanInv, Filled, IsLongest, NoLonger, Ends
  <1>4. FoundIffOccurs'
    BY <1>1 DEF IInv, FoundIffOccurs, Occurs, Stands
  <1> QED
    BY <1>2, <1>3, <1>4 DEF IInv

LEMMA Inductive ==
  ASSUME FindSongAssumption, IInv, [Next]_vars
  PROVE  IInv'
  BY PrefixBackStep, PrefixNextStep, PrefixEndStep,
     ScanBackStep, ScanNextStep, ScanEndStep, Stutter DEF Next

\* In every state of a search (calc_prefix_function and find_substr) the
\* invariant holds: the table has the longest borders as far as it is filled,
\* and nothing longer than what is matched can still become an occurrence.
THEOREM TableAndMatch ==
  ASSUME FindSongAssumption
  PROVE  Spec => []IInv
  <1>1. Init => IInv
    BY InitHolds
  <1>2. IInv /\ [Next]_vars => IInv'
    BY Inductive
  <1> QED
    BY <1>1, <1>2, PTL DEF Spec

\* Whatever the pattern and the name, both loops read the pattern, the table and
\* the name only within their sizes: going back along the table never leaves it.
THEOREM ReadsInBounds ==
  ASSUME FindSongAssumption
  PROVE  Spec => []TypeOK
  <1>1. IInv => TypeOK
    BY DEF IInv
  <1> QED
    BY <1>1, TableAndMatch, PTL

\* Whatever the pattern and the name, find_substr answers that the pattern is
\* found if and only if it stands somewhere in the name.
THEOREM FindsIffOccurs ==
  ASSUME FindSongAssumption
  PROVE  Spec => []FoundIffOccurs
  <1>1. IInv => FoundIffOccurs
    BY DEF IInv
  <1> QED
    BY <1>1, TableAndMatch, PTL
=============================================================================
