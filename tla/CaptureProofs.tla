--------------------------- MODULE CaptureProofs ---------------------------
(***************************************************************************)
(* Theorems of CaptureLog: what was acknowledged survives, the lines on    *)
(* disk are in order and behind their header, and a capture only grows -   *)
(* for every number of sessions, crashes, full disks and lines.            *)
(*                                                                         *)
(* The invariants are about what is written and what waits to be written   *)
(* as one sequence: flushes move the boundary, failures and crashes cut    *)
(* the end off.                                                            *)
(***************************************************************************)
EXTENDS CaptureLog, SequenceLemmas

LineType == [kind : {"session", "packet", "event"}, number : Nat,
             level : {"NONE"} \cup Levels]
Piece == [line : LineType, part : {"head", "tail"}]

whole == file \o buffer

(* Places on the disk: lines by number, the head before the tail.          *)
Rank(p) == 2 * p.line.number + (IF p.part = "head" THEN 0 ELSE 1)

Ordered(s) == \A i, j \in 1 .. Len(s) : i < j => Rank(s[i]) < Rank(s[j])

AtMost(s, n) == \A i \in 1 .. Len(s) : s[i].line.number <= n

Header(p, n) ==
    p.part = "head" /\ p.line.kind = "session" /\ p.line.number = n + 1

Types ==
    /\ file \in Seq(Piece) /\ buffer \in Seq(Piece)
    /\ handle \in BOOLEAN /\ level \in {"NONE"} \cup Levels
    /\ pc \in {"idle", "flush"}
    /\ lines \in Nat /\ opened \in Nat
    /\ tracked \subseteq Nat /\ acknowledged \subseteq Nat

(* In the middle of _write_line the line just written is at the end.       *)
Flushing ==
    pc = "flush" =>
      LET n == Len(buffer)
      IN /\ handle /\ n >= 2
         /\ buffer[n].line = buffer[n - 1].line
         /\ buffer[n].line.number = lines
         /\ buffer[n].part = "tail" /\ buffer[n - 1].part = "head"

HeaderWritten ==
    handle => \E j \in 1 .. Len(whole) : Header(whole[j], opened)

OnDisk(s, p) ==
    \E i \in 1 .. Len(s) - 1 :
      /\ s[i].part = "head" /\ s[i + 1].part = "tail"
      /\ s[i].line = s[i + 1].line /\ s[i].line.number = p

CaptureInv ==
    /\ Types /\ Flushing
    /\ Ordered(whole) /\ AtMost(whole, lines)
    /\ HeaderWritten
    /\ \A p \in acknowledged : OnDisk(file, p)

-----------------------------------------------------------------------------
(* Facts about sequences.                                                  *)

(* Cutting a sequence in two pieces and joining them, or losing the end.   *)
LEMMA MoveBoundary ==
    ASSUME NEW S, NEW f \in Seq(S), NEW b \in Seq(S),
           NEW n \in 0 .. Len(b), NEW k \in n .. Len(b)
    PROVE  /\ f \o SubSeq(b, 1, n) \in Seq(S)
           /\ SubSeq(b, n + 1, k) \in Seq(S)
           /\ (f \o SubSeq(b, 1, n)) \o SubSeq(b, n + 1, k)
                = SubSeq(f \o b, 1, Len(f) + k)
<1> DEFINE x == SubSeq(b, 1, n)
           y == SubSeq(b, n + 1, k)
           g == f \o x
           left == g \o y
           fb == f \o b
           right == SubSeq(fb, 1, Len(f) + k)
<1>1. /\ Len(f) \in Nat /\ Len(b) \in Nat /\ n \in Nat /\ k \in Nat
      /\ n <= k /\ k <= Len(b) /\ \A i \in 1 .. Len(b) : b[i] \in S
  BY LenProperties, ElementOfSeq
<1>2. /\ x \in Seq(S) /\ Len(x) = n
      /\ \A i \in 1 .. n : x[i] = b[i]
  <2>1. \A i \in 1 .. n : b[i] \in S
    BY <1>1
  <2>2. /\ x \in Seq(S) /\ Len(x) = IF 1 <= n THEN n - 1 + 1 ELSE 0
        /\ \A i \in 1 .. n - 1 + 1 : x[i] = b[1 + i - 1]
    BY <1>1, <2>1, SubSeqProperties
  <2> QED BY <1>1, <2>2
<1>3. /\ y \in Seq(S) /\ Len(y) = k - n
      /\ \A i \in 1 .. k - n : y[i] = b[n + i]
  <2>1. \A i \in n + 1 .. k : b[i] \in S
    BY <1>1
  <2>2. /\ y \in Seq(S)
        /\ Len(y) = IF n + 1 <= k THEN k - (n + 1) + 1 ELSE 0
        /\ \A i \in 1 .. k - (n + 1) + 1 : y[i] = b[n + 1 + i - 1]
    BY <1>1, <2>1, SubSeqProperties
  <2> QED BY <1>1, <2>2
<1>4. /\ g \in Seq(S) /\ Len(g) = Len(f) + n
      /\ \A i \in 1 .. Len(f) + n :
            g[i] = IF i <= Len(f) THEN f[i] ELSE b[i - Len(f)]
  <2> HIDE DEF x
  <2>1. /\ g \in Seq(S) /\ Len(g) = Len(f) + Len(x)
        /\ \A i \in 1 .. Len(f) + Len(x) :
             g[i] = IF i <= Len(f) THEN f[i] ELSE x[i - Len(f)]
    BY <1>2, ConcatProperties
  <2> QED BY <1>1, <1>2, <2>1
<1>5. /\ left \in Seq(S) /\ Len(left) = Len(f) + k
      /\ \A i \in 1 .. Len(f) + k :
            left[i] = IF i <= Len(f) THEN f[i] ELSE b[i - Len(f)]
  <2> HIDE DEF g, y
  <2>1. /\ left \in Seq(S) /\ Len(left) = Len(g) + Len(y)
        /\ \A i \in 1 .. Len(g) + Len(y) :
             left[i] = IF i <= Len(g) THEN g[i] ELSE y[i - Len(g)]
    BY <1>3, <1>4, ConcatProperties
  <2>2. Len(left) = Len(f) + k
    BY <1>1, <1>3, <1>4, <2>1
  <2>3. ASSUME NEW i \in 1 .. Len(f) + k
        PROVE  left[i] = IF i <= Len(f) THEN f[i] ELSE b[i - Len(f)]
    <3> HIDE DEF left
    <3>0. left[i] = IF i <= Len(f) + n THEN g[i] ELSE y[i - (Len(f) + n)]
      <4>1. Len(g) = Len(f) + n /\ Len(g) + Len(y) = Len(f) + k
        BY <1>1, <1>3, <1>4
      <4> QED BY <2>1, <4>1, Zenon
    <3>1. CASE i <= Len(f) + n
      <4>1. i \in 1 .. Len(f) + n
        BY <1>1, <3>1
      <4> QED BY <1>4, <3>0, <3>1, <4>1, Zenon
    <3>2. CASE i > Len(f) + n
      <4>1. left[i] = y[i - (Len(f) + n)]
        BY <1>1, <3>0, <3>2
      <4>2. i - (Len(f) + n) \in 1 .. k - n
        BY <1>1, <3>2
      <4>3. y[i - (Len(f) + n)] = b[n + (i - (Len(f) + n))]
        BY <1>3, <4>2
      <4>4. n + (i - (Len(f) + n)) = i - Len(f) /\ ~(i <= Len(f))
        BY <1>1, <3>2
      <4> QED BY <4>1, <4>3, <4>4
    <3> QED BY <1>1, <3>1, <3>2
  <2> QED BY <2>1, <2>2, <2>3
<1>6. /\ fb \in Seq(S) /\ Len(fb) = Len(f) + Len(b)
      /\ \A i \in 1 .. Len(f) + Len(b) :
            fb[i] = IF i <= Len(f) THEN f[i] ELSE b[i - Len(f)]
  BY ConcatProperties
<1>7. /\ right \in Seq(S) /\ Len(right) = Len(f) + k
      /\ \A i \in 1 .. Len(f) + k :
            right[i] = IF i <= Len(f) THEN f[i] ELSE b[i - Len(f)]
  <2> HIDE DEF fb
  <2>1. \A i \in 1 .. Len(f) + k : fb[i] \in S
    BY <1>1, <1>6, ElementOfSeq
  <2>2. Len(f) + k \in Int /\ 1 \in Int
    BY <1>1
  <2>3. /\ right \in Seq(S)
        /\ Len(right) = IF 1 <= Len(f) + k THEN Len(f) + k - 1 + 1 ELSE 0
        /\ \A i \in 1 .. Len(f) + k - 1 + 1 : right[i] = fb[1 + i - 1]
    BY <2>1, <2>2, SubSeqProperties
  <2> QED BY <1>1, <1>6, <2>3
<1>8. left = right
  <2> HIDE DEF left, right
  <2> QED BY <1>5, <1>7, SeqEqual
<1> QED BY <1>3, <1>4, <1>8

(* What holds of all lines holds of those that are left.                   *)
LEMMA PrefixKeeps ==
    ASSUME NEW s \in Seq(Piece), NEW k \in 0 .. Len(s), NEW m \in Nat,
           Ordered(s), AtMost(s, m)
    PROVE  /\ Ordered(SubSeq(s, 1, k)) /\ AtMost(SubSeq(s, 1, k), m)
           /\ \A j \in 1 .. Len(s), o \in Nat : Header(s[j], o) /\ j <= k
                 => Header(SubSeq(s, 1, k)[j], o)
           /\ Len(SubSeq(s, 1, k)) = k
<1> DEFINE t == SubSeq(s, 1, k)
<1>1. /\ Len(s) \in Nat /\ k \in Nat /\ k <= Len(s)
      /\ \A i \in 1 .. k : s[i] \in Piece
  BY LenProperties, ElementOfSeq
<1>2. /\ Len(t) = IF 1 <= k THEN k - 1 + 1 ELSE 0
      /\ \A i \in 1 .. k - 1 + 1 : t[i] = s[1 + i - 1]
  BY <1>1, SubSeqProperties
<1>3. Len(t) = k /\ \A i \in 1 .. k : t[i] = s[i]
  BY <1>1, <1>2
<1> HIDE DEF t
<1>4. Ordered(t) /\ AtMost(t, m)
  BY <1>1, <1>3 DEF Ordered, AtMost
<1>5. \A j \in 1 .. Len(s), o \in Nat : Header(s[j], o) /\ j <= k
         => Header(t[j], o)
  BY <1>1, <1>3
<1> QED BY <1>3, <1>4, <1>5 DEF t

(* What a flush of n pieces leaves when the pieces after the k-th are lost.*)
LEMMA FlushKeeps ==
    ASSUME NEW f \in Seq(Piece), NEW b \in Seq(Piece),
           NEW n \in 0 .. Len(b), NEW k \in n .. Len(b), NEW m \in Nat,
           Ordered(f \o b), AtMost(f \o b, m)
    PROVE  /\ f \o SubSeq(b, 1, n) \in Seq(Piece)
           /\ SubSeq(b, n + 1, k) \in Seq(Piece)
           /\ Ordered((f \o SubSeq(b, 1, n)) \o SubSeq(b, n + 1, k))
           /\ AtMost((f \o SubSeq(b, 1, n)) \o SubSeq(b, n + 1, k), m)
           /\ Len((f \o SubSeq(b, 1, n)) \o SubSeq(b, n + 1, k)) = Len(f) + k
           /\ \A j \in 1 .. Len(f) + k, o \in Nat :
                 Header((f \o b)[j], o) =>
                 Header(((f \o SubSeq(b, 1, n)) \o SubSeq(b, n + 1, k))[j], o)
<1> DEFINE w == f \o b
           g == f \o SubSeq(b, 1, n)
           y == SubSeq(b, n + 1, k)
           q == Len(f) + k
<1>1. /\ g \in Seq(Piece) /\ y \in Seq(Piece)
      /\ g \o y = SubSeq(w, 1, q)
  BY ZenonT(40), MoveBoundary
<1>2. w \in Seq(Piece) /\ Len(w) = Len(f) + Len(b)
  BY ConcatProperties
<1>3. q \in 0 .. Len(w) /\ Len(f) \in Nat
  BY <1>2, LenProperties
<1> HIDE DEF w, q
<1>4. /\ Ordered(SubSeq(w, 1, q)) /\ AtMost(SubSeq(w, 1, q), m)
      /\ \A j \in 1 .. Len(w), o \in Nat : Header(w[j], o) /\ j <= q
            => Header(SubSeq(w, 1, q)[j], o)
      /\ Len(SubSeq(w, 1, q)) = q
  <2>1. Ordered(w) /\ AtMost(w, m)
    BY DEF w
  <2> QED BY <1>2, <1>3, <2>1, PrefixKeeps
<1>5. \A j \in 1 .. q : j \in 1 .. Len(w) /\ j <= q
  BY <1>2, <1>3
<1> HIDE DEF g, y
<1>6. /\ Ordered(g \o y) /\ AtMost(g \o y, m) /\ Len(g \o y) = q
      /\ \A j \in 1 .. q, o \in Nat : Header(w[j], o) => Header((g \o y)[j], o)
  BY <1>1, <1>4, <1>5, Zenon
<1> QED BY <1>1, <1>6 DEF g, y, w, q

(* Nothing that is on the disk leaves it by appending.                     *)
LEMMA DiskKeeps ==
    ASSUME NEW f \in Seq(Piece), NEW x \in Seq(Piece), NEW p, OnDisk(f, p)
    PROVE  OnDisk(f \o x, p)
<1>1. PICK i \in 1 .. Len(f) - 1 :
        /\ f[i].part = "head" /\ f[i + 1].part = "tail"
        /\ f[i].line = f[i + 1].line /\ f[i].line.number = p
  BY DEF OnDisk
<1>2. /\ Len(f \o x) = Len(f) + Len(x)
      /\ \A j \in 1 .. Len(f) + Len(x) :
            (f \o x)[j] = IF j <= Len(f) THEN f[j] ELSE x[j - Len(f)]
  BY ConcatProperties
<1>3. Len(f) \in Nat /\ Len(x) \in Nat
  BY LenProperties
<1>4. (f \o x)[i] = f[i] /\ (f \o x)[i + 1] = f[i + 1]
  BY <1>2, <1>3
<1>5. i \in 1 .. Len(f \o x) - 1
  BY <1>2, <1>3
<1> QED BY <1>1, <1>4, <1>5 DEF OnDisk

(* A line more, with the next number.                                      *)
LEMMA LineKeeps ==
    ASSUME NEW f \in Seq(Piece), NEW b \in Seq(Piece), NEW m \in Nat,
           NEW line \in LineType, line.number = m + 1,
           Ordered(f \o b), AtMost(f \o b, m)
    PROVE  LET c == b \o Pieces(line)
           IN /\ c \in Seq(Piece) /\ Len(c) = Len(b) + 2
              /\ Ordered(f \o c) /\ AtMost(f \o c, m + 1)
              /\ c[Len(b) + 1].line = line /\ c[Len(b) + 1].part = "head"
              /\ c[Len(b) + 2].line = line /\ c[Len(b) + 2].part = "tail"
              /\ Len(f \o c) = Len(f \o b) + 2
              /\ \A j \in 1 .. Len(f \o b) : (f \o c)[j] = (f \o b)[j]
              /\ (f \o c)[Len(f \o b) + 1] = c[Len(b) + 1]
              /\ (f \o c)[Len(f \o b) + 2] = c[Len(b) + 2]
<1> DEFINE z == Pieces(line)
           c == b \o z
           w == f \o b
           v == f \o c
<1>0. Len(f) \in Nat /\ Len(b) \in Nat
  BY LenProperties
<1>1. /\ z \in Seq(Piece) /\ Len(z) = 2
      /\ z[1] = [line |-> line, part |-> "head"]
      /\ z[2] = [line |-> line, part |-> "tail"]
  BY DEF Pieces, Piece
<1> HIDE DEF z
<1>2. /\ c \in Seq(Piece) /\ Len(c) = Len(b) + Len(z)
      /\ \A i \in 1 .. Len(b) + Len(z) :
            c[i] = IF i <= Len(b) THEN b[i] ELSE z[i - Len(b)]
  BY <1>1, ConcatProperties
<1>3. /\ Len(c) = Len(b) + 2
      /\ \A i \in 1 .. Len(b) : c[i] = b[i]
      /\ c[Len(b) + 1] = z[1] /\ c[Len(b) + 2] = z[2]
  <2>1. /\ Len(b) + 1 \in 1 .. Len(b) + Len(z)
        /\ Len(b) + 2 \in 1 .. Len(b) + Len(z)
        /\ Len(b) + 1 - Len(b) = 1 /\ Len(b) + 2 - Len(b) = 2
        /\ ~(Len(b) + 1 <= Len(b)) /\ ~(Len(b) + 2 <= Len(b))
    BY <1>0, <1>1
  <2>2. c[Len(b) + 1] = z[1] /\ c[Len(b) + 2] = z[2]
    BY <1>2, <2>1
  <2> HIDE DEF c
  <2> QED BY <1>0, <1>1, <1>2, <2>2
<1> HIDE DEF c, v, w
<1>4. /\ w \in Seq(Piece) /\ Len(w) = Len(f) + Len(b)
      /\ \A i \in 1 .. Len(f) + Len(b) :
            w[i] = IF i <= Len(f) THEN f[i] ELSE b[i - Len(f)]
  BY ConcatProperties DEF w
<1>5. /\ v \in Seq(Piece) /\ Len(v) = Len(f) + Len(c)
      /\ \A i \in 1 .. Len(f) + Len(c) :
            v[i] = IF i <= Len(f) THEN f[i] ELSE c[i - Len(f)]
  <2>1. c \in Seq(Piece)
    BY <1>2
  <2> QED BY <2>1, ConcatProperties DEF v
<1>6. /\ Len(v) = Len(w) + 2
      /\ v[Len(w) + 1] = z[1] /\ v[Len(w) + 2] = z[2]
  <2>1. Len(v) = Len(w) + 2
    BY <1>0, <1>3, <1>4, <1>5
  <2>2. /\ Len(w) + 1 \in 1 .. Len(f) + Len(c)
        /\ Len(w) + 2 \in 1 .. Len(f) + Len(c)
        /\ Len(w) + 1 - Len(f) = Len(b) + 1
        /\ Len(w) + 2 - Len(f) = Len(b) + 2
        /\ ~(Len(w) + 1 <= Len(f)) /\ ~(Len(w) + 2 <= Len(f))
    BY <1>0, <1>3, <1>4
  <2> QED BY <1>3, <1>5, <2>1, <2>2
<1>7. \A j \in 1 .. Len(w) : v[j] = w[j]
  <2> SUFFICES ASSUME NEW j \in 1 .. Len(w)
               PROVE  v[j] = w[j]
    OBVIOUS
  <2>1. CASE j <= Len(f)
    <3>1. j \in 1 .. Len(f) + Len(c) /\ j \in 1 .. Len(f) + Len(b)
      BY <1>0, <1>3, <1>4
    <3> QED BY <1>4, <1>5, <2>1, <3>1, Zenon
  <2>2. CASE j > Len(f)
    <3>1. j - Len(f) \in 1 .. Len(b) /\ ~(j <= Len(f))
          /\ j \in 1 .. Len(f) + Len(c) /\ j \in 1 .. Len(f) + Len(b)
      BY <1>0, <1>3, <1>4, <2>2
    <3> QED BY <1>3, <1>4, <1>5, <3>1
  <2> QED BY <1>0, <1>4, <2>1, <2>2
<1>8. Ordered(v) /\ AtMost(v, m + 1)
  <2>1. Len(w) \in Nat /\ Ordered(w) /\ AtMost(w, m)
    BY <1>0, <1>4 DEF w
  <2>2. \A i \in 1 .. Len(w) : w[i] \in Piece
    BY <1>4, ElementOfSeq
  <2>3. \A i \in 1 .. Len(w) : Rank(v[i]) < 2 * (m + 1) /\ Rank(v[i]) \in Nat
    <3>1. \A i \in 1 .. Len(w) : w[i].line.number <= m
      BY <2>1 DEF AtMost
    <3> SUFFICES ASSUME NEW i \in 1 .. Len(w)
                 PROVE  Rank(v[i]) < 2 * (m + 1) /\ Rank(v[i]) \in Nat
      OBVIOUS
    <3>2. v[i] = w[i] /\ w[i] \in Piece /\ w[i].line.number <= m
      BY <1>7, <2>2, <3>1
    <3>3. w[i].line.number \in Nat
      BY <3>2 DEF Piece, LineType
    <3>4. Rank(w[i]) \in Nat /\ Rank(w[i]) <= 2 * w[i].line.number + 1
      BY SMTT(40), <3>3 DEF Rank
    <3> QED BY <3>2, <3>3, <3>4
  <2>4. /\ Rank(v[Len(w) + 1]) = 2 * (m + 1)
        /\ Rank(v[Len(w) + 2]) = 2 * (m + 1) + 1
    <3>1. Rank(z[1]) = 2 * line.number + 0 /\ Rank(z[2]) = 2 * line.number + 1
      <4>1. /\ z[1].part = "head" /\ z[1].line.number = line.number
            /\ z[2].part = "tail" /\ z[2].line.number = line.number
        BY <1>1
      <4>2. line.number \in Nat
        OBVIOUS
      <4> QED BY <4>1, <4>2 DEF Rank
    <3>2. line.number = m + 1 /\ m \in Nat
      OBVIOUS
    <3> QED BY <1>6, <3>1, <3>2
  <2>5. \A i, j \in 1 .. Len(w) : i < j => Rank(v[i]) < Rank(v[j])
    BY <1>7, <2>1 DEF Ordered
  <2>6. \A i \in 1 .. Len(v) :
           i \in 1 .. Len(w) \/ i = Len(w) + 1 \/ i = Len(w) + 2
    BY <1>6, <2>1
  <2>7. Ordered(v)
    <3> SUFFICES ASSUME NEW i \in 1 .. Len(v), NEW j \in 1 .. Len(v), i < j
                 PROVE  Rank(v[i]) < Rank(v[j])
      BY DEF Ordered
    <3>1. CASE j \in 1 .. Len(w)
      <4>1. i \in 1 .. Len(w)
        BY <1>6, <2>1, <3>1
      <4> QED BY <2>5, <3>1, <4>1
    <3>2. CASE j = Len(w) + 1
      <4>1. i \in 1 .. Len(w)
        BY <1>6, <2>1, <3>2
      <4> QED BY <2>3, <2>4, <3>2, <4>1
    <3>3. CASE j = Len(w) + 2
      <4>1. i \in 1 .. Len(w) \/ i = Len(w) + 1
        BY <1>6, <2>1, <3>3
      <4>2. 2 * (m + 1) < 2 * (m + 1) + 1 /\ 2 * (m + 1) \in Nat
        OBVIOUS
      <4>3. CASE i \in 1 .. Len(w)
        BY <2>3, <2>4, <3>3, <4>2, <4>3
      <4>4. CASE i = Len(w) + 1
        BY <2>4, <3>3, <4>2, <4>4
      <4> QED BY <4>1, <4>3, <4>4
    <3> QED BY <2>6, <3>1, <3>2, <3>3
  <2>8. AtMost(v, m + 1)
    <3>1. \A i \in 1 .. Len(w) :
             v[i].line.number <= m /\ v[i].line.number \in Nat
      BY <1>7, <2>1, <2>2 DEF AtMost, Piece, LineType
    <3>2. /\ v[Len(w) + 1].line.number = m + 1
          /\ v[Len(w) + 2].line.number = m + 1
      BY <1>1, <1>6
    <3>3. ASSUME NEW i \in 1 .. Len(v)
          PROVE  v[i].line.number <= m + 1
      BY SMTT(40), <2>6, <3>1, <3>2
    <3> QED BY <3>3 DEF AtMost
  <2> QED BY <2>7, <2>8
<1>9. /\ c[Len(b) + 1].line = line /\ c[Len(b) + 1].part = "head"
      /\ c[Len(b) + 2].line = line /\ c[Len(b) + 2].part = "tail"
  BY <1>1, <1>3
<1> QED BY <1>2, <1>3, <1>6, <1>7, <1>8, <1>9 DEF v, w, c, z

-----------------------------------------------------------------------------
(* The invariant.                                                          *)

LEMMA InitEstablishesCaptureInv == Init => CaptureInv
<1> SUFFICES ASSUME Init PROVE CaptureInv
  OBVIOUS
<1>1. /\ Types /\ Flushing /\ HeaderWritten
      /\ \A p \in acknowledged : OnDisk(file, p)
  <2>1. <<>> \in Seq(Piece)
    BY EmptySeq
  <2>2. Types
    BY <2>1 DEF Init, Types
  <2>3. Flushing /\ HeaderWritten
    BY DEF Init, Flushing, HeaderWritten
  <2>4. acknowledged = {}
    BY DEF Init
  <2> QED BY <2>2, <2>3, <2>4
<1>2. whole = <<>>
  BY DEF Init, whole
<1>3. Ordered(<<>>) /\ AtMost(<<>>, lines)
  BY DEF Ordered, AtMost
<1> QED BY <1>1, <1>2, <1>3 DEF CaptureInv

(* Every line is written in one way.                                       *)
LEMMA WriteLineKeeps ==
    ASSUME CaptureInv, NEW line \in LineType, line.number = lines + 1,
           WriteLine(line), file' = file, handle' = TRUE,
           \/ handle /\ opened' = opened
           \/ line.kind = "session" /\ opened' = lines
    PROVE  /\ buffer' \in Seq(Piece) /\ lines' \in Nat
           /\ pc' \in {"idle", "flush"}
           /\ Ordered(whole') /\ AtMost(whole', lines')
           /\ Flushing'
           /\ HeaderWritten'
<1> DEFINE c == buffer \o Pieces(line)
           v == file \o c
<1>1. /\ file \in Seq(Piece) /\ buffer \in Seq(Piece) /\ lines \in Nat
      /\ Ordered(file \o buffer) /\ AtMost(file \o buffer, lines)
  BY DEF CaptureInv, Types, whole
<1>2. /\ buffer' = c /\ lines' = lines + 1 /\ pc' = "flush" /\ whole' = v
  <2>1. buffer' = c /\ lines' = lines + 1 /\ pc' = "flush"
    BY DEF WriteLine
  <2> HIDE DEF c
  <2> QED BY <2>1 DEF whole
<1>3. /\ c \in Seq(Piece) /\ Len(c) = Len(buffer) + 2
      /\ Ordered(v) /\ AtMost(v, lines + 1)
      /\ c[Len(buffer) + 1].line = line /\ c[Len(buffer) + 1].part = "head"
      /\ c[Len(buffer) + 2].line = line /\ c[Len(buffer) + 2].part = "tail"
      /\ Len(v) = Len(file \o buffer) + 2
      /\ \A j \in 1 .. Len(file \o buffer) : v[j] = (file \o buffer)[j]
      /\ v[Len(file \o buffer) + 1] = c[Len(buffer) + 1]
  BY <1>1, LineKeeps
<1>4. Len(file \o buffer) \in Nat /\ Len(buffer) \in Nat
  BY <1>1, ConcatProperties, LenProperties
<1> HIDE DEF c, v
<1>5. Flushing'
  <2>1. /\ Len(c) - 1 = Len(buffer) + 1 /\ Len(c) >= 2
        /\ Len(c) = Len(buffer) + 2
    BY <1>3, <1>4
  <2>2. /\ c[Len(c)].line = c[Len(c) - 1].line
        /\ c[Len(c)].line.number = lines + 1
        /\ c[Len(c)].part = "tail" /\ c[Len(c) - 1].part = "head"
    BY <1>3, <2>1
  <2> QED BY <1>2, <2>1, <2>2 DEF Flushing
<1>6. HeaderWritten'
  <2>1. CASE handle /\ opened' = opened
    <3>1. PICK j \in 1 .. Len(file \o buffer) :
                Header((file \o buffer)[j], opened)
      BY <2>1 DEF CaptureInv, HeaderWritten, whole
    <3>2. v[j] = (file \o buffer)[j] /\ j \in 1 .. Len(v)
      BY <1>3, <1>4
    <3> QED BY <1>2, <2>1, <3>1, <3>2 DEF HeaderWritten
  <2>2. CASE line.kind = "session" /\ opened' = lines
    <3>1. Header(v[Len(file \o buffer) + 1], lines)
      BY <1>3, <2>2 DEF Header
    <3>2. Len(file \o buffer) + 1 \in 1 .. Len(v)
      BY <1>3, <1>4
    <3> QED BY <1>2, <2>2, <3>1, <3>2 DEF HeaderWritten
  <2> QED BY <2>1, <2>2
<1> QED BY <1>1, <1>2, <1>3, <1>5, <1>6

(* Every flush, whole or not, moves pieces from the buffer to the file.    *)
LEMMA FlushingKeeps ==
    ASSUME CaptureInv, NEW n \in 0 .. Len(buffer), NEW k \in n .. Len(buffer),
           file' = file \o SubSeq(buffer, 1, n),
           buffer' = SubSeq(buffer, n + 1, k)
    PROVE  /\ file' \in Seq(Piece) /\ buffer' \in Seq(Piece)
           /\ Ordered(whole') /\ AtMost(whole', lines)
           /\ \A p \in acknowledged : OnDisk(file', p)
           /\ Len(whole') = Len(file) + k
           /\ \A j \in 1 .. Len(file) + k, o \in Nat :
                 Header(whole[j], o) => Header(whole'[j], o)
<1>1. /\ file \in Seq(Piece) /\ buffer \in Seq(Piece) /\ lines \in Nat
      /\ Ordered(file \o buffer) /\ AtMost(file \o buffer, lines)
  BY DEF CaptureInv, Types, whole
<1>2. /\ file' \in Seq(Piece) /\ buffer' \in Seq(Piece)
      /\ Ordered(file' \o buffer') /\ AtMost(file' \o buffer', lines)
      /\ Len(file' \o buffer') = Len(file) + k
      /\ \A j \in 1 .. Len(file) + k, o \in Nat :
            Header((file \o buffer)[j], o) => Header((file' \o buffer')[j], o)
  BY <1>1, FlushKeeps
<1>3. ASSUME NEW p \in acknowledged
      PROVE  OnDisk(file', p)
  <2>1. OnDisk(file, p)
    BY DEF CaptureInv
  <2>2. SubSeq(buffer, 1, n) \in Seq(Piece)
    <3>1. Len(buffer) \in Nat /\ \A i \in 1 .. n : buffer[i] \in Piece
      BY <1>1, LenProperties, ElementOfSeq
    <3> QED BY <3>1, SubSeqProperties
  <2> QED BY <1>1, <2>1, <2>2, DiskKeeps
<1> QED BY <1>2, <1>3 DEF whole

(* record_event(), whatever it does to the level.                          *)
LEMMA RecordEventKeeps ==
    ASSUME CaptureInv, RecordEvent, level' \in {"NONE"} \cup Levels
    PROVE  CaptureInv'
<1>1. CASE ~handle
  <2>1. /\ UNCHANGED <<file, buffer, lines, acknowledged, tracked>>
        /\ UNCHANGED <<handle, opened, pc>> /\ handle = FALSE
    BY <1>1 DEF RecordEvent, world, CaptureInv, Types
  <2>2. Types' /\ Flushing' /\ HeaderWritten' /\ whole' = whole
    BY <2>1 DEF CaptureInv, Types, Flushing, HeaderWritten, whole
  <2>3. \A p \in acknowledged' : OnDisk(file', p)
    BY <2>1 DEF CaptureInv
  <2> QED BY <2>1, <2>2, <2>3 DEF CaptureInv
<1>2. CASE handle
  <2> DEFINE line == Line("event", "NONE")
  <2>1. line \in LineType /\ line.number = lines + 1
    BY DEF Line, LineType, CaptureInv, Types
  <2> HIDE DEF line
  <2>2. /\ WriteLine(line) /\ UNCHANGED <<file, acknowledged, tracked>>
        /\ UNCHANGED <<handle, opened>>
    BY <1>2 DEF RecordEvent, line, world
  <2>3. handle' = TRUE
    BY <1>2, <2>2 DEF CaptureInv, Types
  <2>4. /\ buffer' \in Seq(Piece) /\ lines' \in Nat
        /\ pc' \in {"idle", "flush"}
        /\ Ordered(whole') /\ AtMost(whole', lines')
        /\ Flushing' /\ HeaderWritten'
    BY <1>2, <2>1, <2>2, <2>3, WriteLineKeeps
  <2>5. Types'
    BY <2>2, <2>3, <2>4 DEF CaptureInv, Types
  <2>6. \A p \in acknowledged' : OnDisk(file', p)
    BY <2>2 DEF CaptureInv
  <2> QED BY <2>4, <2>5, <2>6 DEF CaptureInv
<1> QED BY <1>1, <1>2

LEMMA CallsKeepCaptureInv ==
    ASSUME CaptureInv, Open \/ Record
    PROVE  CaptureInv'
<1>1. CASE Open
  <2> DEFINE line == Line("session", level)
  <2>1. line \in LineType /\ line.number = lines + 1 /\ line.kind = "session"
    BY DEF Line, LineType, CaptureInv, Types
  <2> HIDE DEF line
  <2>2. /\ WriteLine(line) /\ UNCHANGED <<file, acknowledged, tracked, level>>
        /\ handle' = TRUE /\ opened' = lines
    BY <1>1 DEF Open, line, world
  <2>3. /\ buffer' \in Seq(Piece) /\ lines' \in Nat
        /\ pc' \in {"idle", "flush"}
        /\ Ordered(whole') /\ AtMost(whole', lines')
        /\ Flushing' /\ HeaderWritten'
    BY <2>1, <2>2, WriteLineKeeps
  <2>4. Types'
    BY <2>2, <2>3 DEF CaptureInv, Types
  <2>5. \A p \in acknowledged' : OnDisk(file', p)
    BY <2>2 DEF CaptureInv
  <2> QED BY <2>3, <2>4, <2>5 DEF CaptureInv
<1>2. CASE Record /\ handle
  <2> DEFINE line == Line("packet", "NONE")
  <2>1. line \in LineType /\ line.number = lines + 1
    BY DEF Line, LineType, CaptureInv, Types
  <2> HIDE DEF line
  <2>2. /\ WriteLine(line) /\ UNCHANGED <<file, handle, opened, level>>
        /\ tracked' = tracked \cup {lines + 1}
    BY <1>2 DEF Record, line, world
  <2>3. acknowledged' = acknowledged
    BY <1>2, <2>2 DEF Record, WriteLine
  <2>4. handle' = TRUE
    BY <1>2, <2>2 DEF CaptureInv, Types
  <2>5. /\ buffer' \in Seq(Piece) /\ lines' \in Nat
        /\ pc' \in {"idle", "flush"}
        /\ Ordered(whole') /\ AtMost(whole', lines')
        /\ Flushing' /\ HeaderWritten'
    BY <1>2, <2>1, <2>2, <2>4, WriteLineKeeps
  <2>6. Types'
    <3>1. tracked' \subseteq Nat
      BY <2>2 DEF CaptureInv, Types
    <3> QED BY <2>2, <2>3, <2>4, <2>5, <3>1 DEF CaptureInv, Types
  <2>7. \A p \in acknowledged' : OnDisk(file', p)
    BY <2>2, <2>3 DEF CaptureInv
  <2> QED BY <2>5, <2>6, <2>7 DEF CaptureInv
<1>3. CASE Record /\ ~handle
  <2>1. /\ UNCHANGED <<file, buffer, acknowledged, tracked, level>>
        /\ UNCHANGED <<handle, opened, pc>> /\ handle = FALSE
        /\ pc = "idle" /\ lines' = lines + 1
    BY <1>3 DEF Record, world, CaptureInv, Types
  <2>2. Types' /\ Flushing' /\ HeaderWritten' /\ whole' = whole
    BY <2>1 DEF CaptureInv, Types, Flushing, HeaderWritten, whole
  <2>3. AtMost(whole', lines')
    <3>1. \A i \in 1 .. Len(whole) : whole[i].line.number <= lines
      BY DEF CaptureInv, AtMost
    <3>2. \A i \in 1 .. Len(whole) : whole[i].line.number \in Nat
      <4>1. whole \in Seq(Piece)
        BY ConcatProperties DEF CaptureInv, Types, whole
      <4>2. \A i \in 1 .. Len(whole) : whole[i] \in Piece
        BY <4>1, ElementOfSeq
      <4> QED BY <4>2 DEF Piece, LineType
    <3>3. lines \in Nat /\ lines' = lines + 1 /\ whole' = whole
      BY <2>1, <2>2 DEF CaptureInv, Types
    <3>4. \A i \in 1 .. Len(whole) : whole[i].line.number <= lines'
      BY <3>1, <3>2, <3>3
    <3> QED BY <3>3, <3>4 DEF AtMost
  <2>4. \A p \in acknowledged' : OnDisk(file', p)
    BY <2>1 DEF CaptureInv
  <2> QED BY <2>1, <2>2, <2>3, <2>4 DEF CaptureInv
<1> QED BY <1>1, <1>2, <1>3

LEMMA FlushKeepsCaptureInv ==
    ASSUME CaptureInv, Flush
    PROVE  CaptureInv'
<1> DEFINE n == Len(buffer)
<1>1. /\ file \in Seq(Piece) /\ buffer \in Seq(Piece) /\ n \in Nat
  BY LenProperties DEF CaptureInv, Types
<1>2. n \in 0 .. Len(buffer) /\ n \in n .. Len(buffer)
  BY <1>1
<1>3. /\ pc = "flush" /\ pc' = "idle"
      /\ file' = file \o SubSeq(buffer, 1, n)
      /\ buffer' = SubSeq(buffer, n + 1, n)
      /\ UNCHANGED <<handle, level, lines, opened, tracked>>
      /\ acknowledged' = acknowledged \cup (tracked \cap {lines})
  BY DEF Flush, FlushPieces
<1>4. /\ file' \in Seq(Piece) /\ buffer' \in Seq(Piece)
      /\ Ordered(whole') /\ AtMost(whole', lines)
      /\ \A p \in acknowledged : OnDisk(file', p)
      /\ Len(whole') = Len(file) + n
      /\ \A j \in 1 .. Len(file) + n, o \in Nat :
            Header(whole[j], o) => Header(whole'[j], o)
  BY <1>2, <1>3, FlushingKeeps
<1>5. HeaderWritten'
  <2> SUFFICES ASSUME handle
               PROVE  \E j \in 1 .. Len(whole') : Header(whole'[j], opened)
    BY <1>3 DEF HeaderWritten
  <2>1. PICK j \in 1 .. Len(whole) : Header(whole[j], opened)
    BY DEF CaptureInv, HeaderWritten
  <2>2. Len(whole) = Len(file) + n
    BY <1>1, ConcatProperties DEF whole
  <2>3. opened \in Nat
    BY DEF CaptureInv, Types
  <2> QED BY <1>4, <2>1, <2>2, <2>3
<1>6. OnDisk(file', lines)
  <2>1. SubSeq(buffer, 1, n) = buffer
    BY <1>1, SubSeqFull
  <2>2. /\ n >= 2 /\ buffer[n].line = buffer[n - 1].line
        /\ buffer[n].line.number = lines
        /\ buffer[n].part = "tail" /\ buffer[n - 1].part = "head"
    BY <1>3 DEF CaptureInv, Flushing
  <2> DEFINE g == file \o buffer
             i == Len(file) + (n - 1)
  <2>3. /\ Len(g) = Len(file) + n
        /\ \A j \in 1 .. Len(file) + n :
              g[j] = IF j <= Len(file) THEN file[j] ELSE buffer[j - Len(file)]
    BY <1>1, ConcatProperties
  <2>4. Len(file) \in Nat
    BY <1>1, LenProperties
  <2>5. /\ i \in 1 .. Len(file) + n /\ i + 1 \in 1 .. Len(file) + n
        /\ ~(i <= Len(file)) /\ ~(i + 1 <= Len(file))
        /\ i - Len(file) = n - 1 /\ i + 1 - Len(file) = n
    BY <1>1, <2>2, <2>4
  <2> HIDE DEF g, i, n
  <2>6. g[i] = buffer[n - 1] /\ g[i + 1] = buffer[n]
    BY <2>3, <2>5
  <2>7. i \in 1 .. Len(g) - 1
    BY <1>1, <2>3, <2>4, <2>5
  <2>8. OnDisk(g, lines)
    BY <2>2, <2>6, <2>7 DEF OnDisk
  <2> QED BY <1>3, <2>1, <2>8 DEF g
<1>7. \A p \in acknowledged' : OnDisk(file', p)
  BY <1>3, <1>4, <1>6
<1>8. Types' /\ Flushing'
  <2>1. Flushing'
    BY <1>3 DEF Flushing
  <2>2. acknowledged' \subseteq Nat
    BY <1>3 DEF CaptureInv, Types
  <2> QED BY <1>3, <1>4, <2>1, <2>2 DEF CaptureInv, Types
<1>9. AtMost(whole', lines')
  BY <1>3, <1>4
<1> QED BY <1>4, <1>5, <1>7, <1>8, <1>9 DEF CaptureInv

(* Every flush, whole or not, moves the boundary between what is written   *)
(* and what waits, and loses at most the last line, which is no header.     *)
Leaves(n, k) ==
    /\ file' = file \o SubSeq(buffer, 1, n)
    /\ buffer' = SubSeq(buffer, n + 1, k)
    /\ \/ k = Len(buffer)
       \/ /\ k >= Len(buffer) - 2 /\ Len(buffer) >= 2
          /\ buffer[Len(buffer)].line = buffer[Len(buffer) - 1].line
          /\ buffer[Len(buffer)].line.kind # "session"

LEMMA FlushLeaves ==
    ASSUME CaptureInv, Flush \/ FlushFails \/ Close \/ CloseFails
    PROVE  \E n \in 0 .. Len(buffer) : \E k \in n .. Len(buffer) : Leaves(n, k)
<1> DEFINE m == Len(buffer)
<1>1. file \in Seq(Piece) /\ buffer \in Seq(Piece) /\ m \in Nat
  BY LenProperties DEF CaptureInv, Types
<1>2. \E n \in 0 .. m : \E k \in n .. m :
        /\ file' = file \o SubSeq(buffer, 1, n)
        /\ buffer' = SubSeq(buffer, n + 1, k)
        /\ \/ k = m
           \/ /\ k >= m - 2 /\ m >= 2
              /\ buffer[m].line = buffer[m - 1].line
              /\ buffer[m].line.kind # "session"
  <2>1. ASSUME NEW n \in 0 .. m, FlushPieces(n)
        PROVE  \E k \in n .. m :
                  /\ file' = file \o SubSeq(buffer, 1, n)
                  /\ buffer' = SubSeq(buffer, n + 1, k)
                  /\ k = m
    <3>1. m \in n .. m
      BY <1>1
    <3> QED BY <2>1, <3>1 DEF FlushPieces
  <2>2. ASSUME NEW n \in 0 .. m - 1, FlushFails,
               buffer[m].line.kind # "session",
               file' = file \o SubSeq(buffer, 1, n),
               buffer' = SubSeq(buffer, n + 1, m - 2)
        PROVE  \E k \in n .. m :
                  /\ buffer' = SubSeq(buffer, n + 1, k)
                  /\ k >= m - 2 /\ m >= 2
                  /\ buffer[m].line = buffer[m - 1].line
    <3>1. m >= 2 /\ buffer[m].line = buffer[m - 1].line
      BY <2>2 DEF FlushFails, CaptureInv, Flushing
    <3>2. CASE n <= m - 2
      <4>1. m - 2 \in n .. m
        BY <1>1, <3>1, <3>2
      <4>2. /\ buffer' = SubSeq(buffer, n + 1, m - 2)
            /\ m - 2 >= m - 2 /\ m >= 2
            /\ buffer[m].line = buffer[m - 1].line
        BY <1>1, <2>2, <3>1
      <4> QED BY <4>1, <4>2, Zenon
    <3>3. CASE n > m - 2
      <4>1. n = m - 1
        BY <1>1, <3>3
      <4>2. /\ \A i \in n + 1 .. m - 2 : buffer[i] \in Piece
            /\ \A i \in n + 1 .. n : buffer[i] \in Piece
            /\ n + 1 \in Int /\ m - 2 \in Int /\ n \in Int
        BY <1>1, <4>1
      <4>3. /\ SubSeq(buffer, n + 1, m - 2) \in Seq(Piece)
            /\ Len(SubSeq(buffer, n + 1, m - 2)) = 0
        BY <1>1, <4>1, <4>2, SubSeqProperties
      <4>4. /\ SubSeq(buffer, n + 1, n) \in Seq(Piece)
            /\ Len(SubSeq(buffer, n + 1, n)) = 0
        BY <1>1, <4>1, <4>2, SubSeqProperties
      <4>5. SubSeq(buffer, n + 1, m - 2) = SubSeq(buffer, n + 1, n)
        BY <4>3, <4>4, SeqEqual
      <4>6. n \in n .. m /\ n >= m - 2
        BY <1>1, <4>1
      <4> QED BY <2>2, <3>1, <4>5, <4>6
    <3> QED BY <1>1, <3>2, <3>3
  <2>3. \A n \in 0 .. m - 1 : n \in 0 .. m
    BY <1>1
  <2>4. m \in 0 .. m
    BY <1>1
  <2>5. CASE FlushFails
    <3>1. PICK n \in 0 .. m - 1 :
            \/ FlushPieces(n)
            \/ /\ buffer[m].line.kind # "session"
               /\ file' = file \o SubSeq(buffer, 1, n)
               /\ buffer' = SubSeq(buffer, n + 1, m - 2)
      BY <2>5 DEF FlushFails
    <3>2. n \in 0 .. m
      BY <2>3
    <3>3. CASE FlushPieces(n)
      BY <2>1, <3>2, <3>3
    <3>4. CASE ~FlushPieces(n)
      BY <2>2, <2>5, <3>1, <3>2, <3>4
    <3> QED BY <3>3, <3>4
  <2>6. CASE Flush \/ Close
    <3>1. FlushPieces(m)
      BY <2>6 DEF Flush, Close
    <3> QED BY <2>1, <2>4, <3>1
  <2>7. CASE CloseFails
    <3>1. PICK n \in 0 .. m - 1 : FlushPieces(n)
      BY <2>7 DEF CloseFails
    <3> QED BY <2>1, <2>3, <3>1
  <2> QED BY <2>5, <2>6, <2>7
<1> QED BY <1>2 DEF Leaves

(* A failed flush loses at most the line being written, never a header.    *)
LEMMA FailuresKeepCaptureInv ==
    ASSUME CaptureInv, FlushFails \/ Close \/ CloseFails
    PROVE  CaptureInv'
<1> DEFINE m == Len(buffer)
<1>1. file \in Seq(Piece) /\ buffer \in Seq(Piece) /\ m \in Nat
  BY LenProperties DEF CaptureInv, Types
<1>2. /\ pc' = "idle" /\ UNCHANGED <<level, lines, opened, tracked>>
      /\ acknowledged' = acknowledged
      /\ handle' \in {FALSE, handle}
  <2>1. CASE FlushFails
    BY <2>1 DEF FlushFails, history
  <2>2. CASE Close
    BY <2>2 DEF Close, history
  <2>3. CASE CloseFails
    BY <2>3 DEF CloseFails, history
  <2> QED BY <2>1, <2>2, <2>3
<1>3. PICK n \in 0 .. m : \E k \in n .. m : Leaves(n, k)
  BY FlushLeaves
<1>4. PICK k \in n .. m :
        /\ file' = file \o SubSeq(buffer, 1, n)
        /\ buffer' = SubSeq(buffer, n + 1, k)
        /\ \/ k = m
           \/ /\ k >= m - 2 /\ m >= 2
              /\ buffer[m].line = buffer[m - 1].line
              /\ buffer[m].line.kind # "session"
  BY <1>3 DEF Leaves
<1>5. /\ file' \in Seq(Piece) /\ buffer' \in Seq(Piece)
      /\ Ordered(whole') /\ AtMost(whole', lines)
      /\ \A p \in acknowledged : OnDisk(file', p)
      /\ Len(whole') = Len(file) + k
      /\ \A j \in 1 .. Len(file) + k, o \in Nat :
            Header(whole[j], o) => Header(whole'[j], o)
  BY <1>4, FlushingKeeps
<1>6. HeaderWritten'
  <2> SUFFICES ASSUME handle
               PROVE  \E j \in 1 .. Len(whole') : Header(whole'[j], opened)
    BY <1>2 DEF HeaderWritten, CaptureInv, Types
  <2>1. PICK j \in 1 .. Len(whole) : Header(whole[j], opened)
    BY DEF CaptureInv, HeaderWritten
  <2>2. /\ Len(whole) = Len(file) + m /\ Len(file) \in Nat
        /\ \A i \in 1 .. Len(file) + m :
              whole[i] = IF i <= Len(file) THEN file[i]
                                           ELSE buffer[i - Len(file)]
    BY <1>1, ConcatProperties, LenProperties DEF whole
  <2>3. j <= Len(file) + k
    <3> SUFFICES ASSUME j > Len(file) + k
                 PROVE  FALSE
      BY <1>1, <2>2
    <3>0. k # m
      BY <1>1, <2>2
    <3>1. /\ m >= 2 /\ k >= m - 2 /\ k # m
          /\ buffer[m].line = buffer[m - 1].line
          /\ buffer[m].line.kind # "session"
      BY <1>4, <3>0
    <3>2. /\ j - Len(file) \in {m - 1, m} /\ ~(j <= Len(file))
          /\ j \in 1 .. Len(file) + m
      <4>1. j \in 1 .. Len(file) + m /\ m \in Nat /\ Len(file) \in Nat
        BY <1>1, <2>2
      <4>2. j - Len(file) <= m /\ j - Len(file) > m - 2 /\ j > Len(file)
        BY <3>1, <4>1
      <4> QED BY <4>1, <4>2
    <3>3. whole[j] = buffer[j - Len(file)]
      BY <2>2, <3>2
    <3>4. whole[j].line.kind # "session"
      BY <3>1, <3>2, <3>3
    <3> QED BY <2>1, <3>4 DEF Header
  <2>4. j \in 1 .. Len(file) + k
    BY <1>1, <2>2, <2>3
  <2>5. opened \in Nat
    BY DEF CaptureInv, Types
  <2> QED BY <1>5, <2>1, <2>4, <2>5
<1>7. Types' /\ Flushing'
  <2>1. handle' \in BOOLEAN
    BY <1>2 DEF CaptureInv, Types
  <2>2. Flushing'
    BY <1>2 DEF Flushing
  <2> QED BY <1>2, <1>5, <2>1, <2>2 DEF CaptureInv, Types
<1>8. \A p \in acknowledged' : OnDisk(file', p)
  BY <1>2, <1>5
<1>9. AtMost(whole', lines')
  BY <1>2, <1>5
<1> QED BY <1>5, <1>6, <1>7, <1>8, <1>9 DEF CaptureInv

(* A process dies, another begins; the disk fills or is emptied.           *)
LEMMA WorldKeepsCaptureInv ==
    ASSUME CaptureInv,
           Crash \/ NextSession \/ DiskFills \/ OpenFails \/ UNCHANGED vars
    PROVE  CaptureInv'
<1>1. file \in Seq(Piece) /\ buffer \in Seq(Piece) /\ Len(buffer) \in Nat
  BY LenProperties DEF CaptureInv, Types
<1>2. ASSUME NEW n \in 0 .. Len(buffer), NewLogger,
             file' = file \o SubSeq(buffer, 1, n)
      PROVE  CaptureInv'
  <2>1. /\ handle' = FALSE /\ level' = "NONE" /\ buffer' = <<>>
        /\ pc' = "idle" /\ opened' = lines
        /\ UNCHANGED <<lines, tracked, acknowledged>>
    BY <1>2 DEF NewLogger
  <2>2. buffer' = SubSeq(buffer, n + 1, n)
    <3>1. /\ SubSeq(buffer, n + 1, n) \in Seq(Piece)
          /\ Len(SubSeq(buffer, n + 1, n)) = 0
      <4>1. \A i \in n + 1 .. n : buffer[i] \in Piece
        BY <1>1
      <4> QED BY <1>1, <4>1, SubSeqProperties
    <3>2. <<>> \in Seq(Piece) /\ Len(<<>>) = 0
      BY EmptySeq
    <3> QED BY <2>1, <3>1, <3>2, SeqEqual
  <2>3. n \in n .. Len(buffer)
    BY <1>1
  <2>4. /\ file' \in Seq(Piece) /\ buffer' \in Seq(Piece)
        /\ Ordered(whole') /\ AtMost(whole', lines)
        /\ \A p \in acknowledged : OnDisk(file', p)
    BY <1>2, <2>2, <2>3, FlushingKeeps
  <2>5. Types' /\ Flushing' /\ HeaderWritten'
    BY <2>1, <2>4 DEF CaptureInv, Types, Flushing, HeaderWritten
  <2>6. \A p \in acknowledged' : OnDisk(file', p)
    BY <2>1, <2>4
  <2>7. AtMost(whole', lines')
    BY <2>1, <2>4
  <2> QED BY <2>4, <2>5, <2>6, <2>7 DEF CaptureInv
<1>3. CASE Crash
  <2>1. NewLogger /\ \E n \in 0 .. Len(buffer) :
                        file' = file \o SubSeq(buffer, 1, n)
    BY <1>3 DEF Crash
  <2> QED BY <1>2, <2>1
<1>4. CASE NextSession
  <2>1. SubSeq(buffer, 1, 0) = <<>>
    <3>1. \A i \in 1 .. 0 : buffer[i] \in Piece
      OBVIOUS
    <3>2. /\ SubSeq(buffer, 1, 0) \in Seq(Piece)
          /\ Len(SubSeq(buffer, 1, 0)) = 0
      BY <1>1, <3>1, SubSeqProperties
    <3>3. <<>> \in Seq(Piece) /\ Len(<<>>) = 0
      BY EmptySeq
    <3> QED BY <3>2, <3>3, SeqEqual
  <2>2. file \o <<>> = file
    BY <1>1, ConcatEmptySeq
  <2>3. NewLogger /\ file' = file \o SubSeq(buffer, 1, 0)
    BY <1>4, <2>1, <2>2 DEF NextSession
  <2>4. 0 \in 0 .. Len(buffer)
    BY <1>1
  <2> QED BY <1>2, <2>3, <2>4
<1>5. CASE DiskFills \/ OpenFails \/ UNCHANGED vars
  <2>1. UNCHANGED <<handle, level, buffer, pc, file, lines, opened, tracked,
                    acknowledged>>
    BY <1>5 DEF DiskFills, OpenFails, vars, logger, world, history
  <2>2. Types' /\ Flushing' /\ HeaderWritten' /\ whole' = whole
    BY <2>1 DEF CaptureInv, Types, Flushing, HeaderWritten, whole
  <2>3. \A p \in acknowledged' : OnDisk(file', p)
    BY <2>1 DEF CaptureInv
  <2> QED BY <2>1, <2>2, <2>3 DEF CaptureInv
<1> QED BY <1>3, <1>4, <1>5

LEMMA StepKeepsCaptureInv ==
    ASSUME CaptureInv, [Next]_vars
    PROVE  CaptureInv'
<1>1. ASSUME NEW l \in Levels, UpdateCommsLevel(l)
      PROVE  CaptureInv'
  BY <1>1, RecordEventKeeps DEF UpdateCommsLevel
<1>2. CASE RecordOther
  <2>1. RecordEvent /\ level' \in {"NONE"} \cup Levels
    BY <1>2 DEF RecordOther, CaptureInv, Types
  <2> QED BY <2>1, RecordEventKeeps
<1>3. CASE Open \/ Record
  BY <1>3, CallsKeepCaptureInv
<1>4. CASE Flush
  BY <1>4, FlushKeepsCaptureInv
<1>5. CASE FlushFails \/ Close \/ CloseFails
  BY <1>5, FailuresKeepCaptureInv
<1>6. CASE Crash \/ NextSession \/ DiskFills \/ OpenFails \/ UNCHANGED vars
  BY <1>6, WorldKeepsCaptureInv
<1> QED BY <1>1, <1>2, <1>3, <1>4, <1>5, <1>6 DEF Next

(* What is written and what waits to be written are one sequence, in order,*)
(* behind this logger's header, with all that was acknowledged whole in    *)
(* the file.                                                               *)
THEOREM CaptureInvariant == Spec => []CaptureInv
BY InitEstablishesCaptureInv, StepKeepsCaptureInv, PTL DEF Spec

-----------------------------------------------------------------------------
(* What follows.                                                           *)

(* What record() acknowledged is in the file, whatever crashes, full disks *)
(* and sessions follow: _write_line flushes before record() returns.       *)
THEOREM AcknowledgedSurvives == Spec => []NothingAcknowledgedIsLost
<1>1. CaptureInv => NothingAcknowledgedIsLost
  <2> SUFFICES ASSUME CaptureInv, NEW p \in acknowledged
               PROVE  \E i \in Starts : Whole(i) /\ file[i].line.number = p
    BY DEF NothingAcknowledgedIsLost
  <2>1. PICK i \in 1 .. Len(file) - 1 :
          /\ file[i].part = "head" /\ file[i + 1].part = "tail"
          /\ file[i].line = file[i + 1].line /\ file[i].line.number = p
    BY DEF CaptureInv, OnDisk
  <2>2. /\ Len(file) \in Nat /\ DOMAIN file = 1 .. Len(file)
    BY LenProperties DEF CaptureInv, Types
  <2>3. i \in Starts /\ Whole(i)
    BY <2>1, <2>2 DEF Starts, Whole
  <2> QED BY <2>1, <2>3
<1> QED BY <1>1, CaptureInvariant, PTL

(* The file is the first part of what was written.                         *)
LEMMA FileIsFirst ==
    ASSUME CaptureInv
    PROVE  /\ DOMAIN file = 1 .. Len(file) /\ Len(file) \in Nat
           /\ \A i \in DOMAIN file : /\ i \in 1 .. Len(whole)
                                     /\ whole[i] = file[i]
                                     /\ file[i].line.number \in Nat
<1>1. file \in Seq(Piece) /\ buffer \in Seq(Piece)
  BY DEF CaptureInv, Types
<1>2. /\ DOMAIN file = 1 .. Len(file) /\ Len(file) \in Nat
      /\ Len(buffer) \in Nat
  BY <1>1, LenProperties
<1>3. /\ Len(whole) = Len(file) + Len(buffer)
      /\ \A i \in 1 .. Len(file) + Len(buffer) :
            whole[i] = IF i <= Len(file) THEN file[i] ELSE buffer[i - Len(file)]
  BY <1>1, ConcatProperties DEF whole
<1>4. \A i \in 1 .. Len(file) : file[i] \in Piece
  BY <1>1, ElementOfSeq
<1>5. \A i \in 1 .. Len(file) : file[i].line.number \in Nat
  BY <1>4 DEF Piece, LineType
<1> QED BY <1>2, <1>3, <1>5

(* The lines stand in the order they were written, none twice, also when a *)
(* later flush writes what an earlier one could not.                       *)
THEOREM LinesStayInOrder == Spec => []DiskInOrder
<1>1. CaptureInv => DiskInOrder
  <2> SUFFICES ASSUME CaptureInv, NEW i \in Starts, NEW j \in Starts, i < j
               PROVE  file[i].line.number < file[j].line.number
    BY DEF DiskInOrder
  <2>1. /\ i \in DOMAIN file /\ j \in DOMAIN file
        /\ file[i].part = "head" /\ file[j].part = "head"
    BY DEF Starts
  <2>2. /\ whole[i] = file[i] /\ whole[j] = file[j]
        /\ i \in 1 .. Len(whole) /\ j \in 1 .. Len(whole)
        /\ file[i].line.number \in Nat /\ file[j].line.number \in Nat
    BY <2>1, FileIsFirst
  <2>3. Rank(whole[i]) < Rank(whole[j])
    BY <2>2 DEF CaptureInv, Ordered
  <2>4. /\ Rank(file[i]) = 2 * file[i].line.number
        /\ Rank(file[j]) = 2 * file[j].line.number
    BY <2>1, <2>2 DEF Rank
  <2> QED BY <2>2, <2>3, <2>4
<1> QED BY <1>1, CaptureInvariant, PTL

(* Every packet in the file is behind the header of the logger that wrote  *)
(* it, also when open() itself failed to write that header.                *)
THEOREM HeaderComesFirst == Spec => []HeaderBeforePackets
<1>1. CaptureInv => HeaderBeforePackets
  <2> SUFFICES ASSUME CaptureInv, handle, NEW i \in Starts,
                      file[i].line.number > opened + 1
               PROVE  \E j \in Starts : /\ j < i
                                        /\ file[j].line.kind = "session"
                                        /\ file[j].line.number = opened + 1
    BY DEF HeaderBeforePackets
  <2>1. PICK j \in 1 .. Len(whole) : Header(whole[j], opened)
    BY DEF CaptureInv, HeaderWritten
  <2>2. /\ i \in DOMAIN file /\ file[i].part = "head"
        /\ DOMAIN file = 1 .. Len(file) /\ Len(file) \in Nat
        /\ whole[i] = file[i] /\ i \in 1 .. Len(whole)
        /\ file[i].line.number \in Nat /\ opened \in Nat
    BY FileIsFirst DEF Starts, CaptureInv, Types
  <2>3. /\ Rank(whole[i]) = 2 * file[i].line.number
        /\ Rank(whole[j]) = 2 * (opened + 1)
    BY <2>1, <2>2 DEF Rank, Header
  <2>4. Rank(whole[j]) < Rank(whole[i])
    BY <2>2, <2>3
  <2>5. ~(i < j) /\ i # j
    <3>1. ASSUME i < j PROVE FALSE
      <4>1. Rank(whole[i]) < Rank(whole[j])
        BY <2>1, <2>2, <3>1 DEF CaptureInv, Ordered
      <4> QED BY <2>2, <2>3, <2>4, <4>1
    <3>2. ASSUME i = j PROVE FALSE
      BY <2>2, <2>3, <2>4, <3>2
    <3> QED BY <3>1, <3>2
  <2>6. j < i /\ j \in DOMAIN file
    BY <2>1, <2>2, <2>5
  <2>7. whole[j] = file[j]
    BY <2>6, FileIsFirst
  <2> QED BY <2>1, <2>6, <2>7 DEF Header, Starts
<1> QED BY <1>1, CaptureInvariant, PTL

(* No step, of any session, takes anything out of a capture or changes it. *)
THEOREM CapturesOnlyGrow == Spec => CaptureOnlyGrows
<1>1. ASSUME NEW x \in Seq(Piece), NEW f \in Seq(Piece)
      PROVE  IsPrefix(f, f \o x)
  <2>1. /\ Len(f \o x) = Len(f) + Len(x) /\ f \o x \in Seq(Piece)
        /\ \A i \in 1 .. Len(f) + Len(x) :
              (f \o x)[i] = IF i <= Len(f) THEN f[i] ELSE x[i - Len(f)]
    BY ConcatProperties
  <2>2. Len(f) \in Nat /\ Len(x) \in Nat
    BY LenProperties
  <2> DEFINE g == f \o x
             t == SubSeq(g, 1, Len(f))
  <2>3. \A i \in 1 .. Len(f) : i \in 1 .. Len(f) + Len(x) /\ i <= Len(f)
    BY <2>2
  <2>4. \A i \in 1 .. Len(f) : g[i] = f[i] /\ g[i] \in Piece
    <3>1. \A i \in 1 .. Len(f) : f[i] \in Piece
      BY ElementOfSeq
    <3>2. \A i \in 1 .. Len(f) : g[i] = f[i]
      BY <2>1, <2>3
    <3> QED BY <3>1, <3>2
  <2> HIDE DEF g
  <2>5. /\ t \in Seq(Piece)
        /\ Len(t) = IF 1 <= Len(f) THEN Len(f) - 1 + 1 ELSE 0
        /\ \A i \in 1 .. Len(f) - 1 + 1 : t[i] = g[1 + i - 1]
    BY <2>2, <2>4, SubSeqProperties
  <2>6. Len(t) = Len(f) /\ \A i \in 1 .. Len(f) : t[i] = f[i]
    BY <2>2, <2>4, <2>5
  <2> HIDE DEF t
  <2>7. t = f
    BY <2>5, <2>6, SeqEqual
  <2>8. SubSeq(f, 1, Len(f)) = f
    BY SubSeqFull
  <2>9. Len(f) <= Len(g)
    BY <2>1, <2>2 DEF g
  <2> QED BY <2>7, <2>8, <2>9 DEF IsPrefix, t, g
<1>2. CaptureInv /\ [Next]_vars => [IsPrefix(file, file')]_vars
  <2> SUFFICES ASSUME CaptureInv, Next
               PROVE  IsPrefix(file, file')
    OBVIOUS
  <2>1. file \in Seq(Piece) /\ buffer \in Seq(Piece) /\ Len(buffer) \in Nat
    BY LenProperties DEF CaptureInv, Types
  <2>2. ASSUME NEW n \in 0 .. Len(buffer), file' = file \o SubSeq(buffer, 1, n)
        PROVE  IsPrefix(file, file')
    <3>1. \A i \in 1 .. n : buffer[i] \in Piece
      BY <2>1, ElementOfSeq
    <3>2. SubSeq(buffer, 1, n) \in Seq(Piece)
      BY <2>1, <3>1, SubSeqProperties
    <3> QED BY <1>1, <2>1, <2>2, <3>2
  <2>3. ASSUME file' = file
        PROVE  IsPrefix(file, file')
    <3>1. <<>> \in Seq(Piece) /\ file \o <<>> = file
      BY <2>1, EmptySeq, ConcatEmptySeq
    <3> QED BY <1>1, <2>1, <2>3, <3>1
  <2>4. \A n \in 0 .. Len(buffer) - 1 : n \in 0 .. Len(buffer)
    BY <2>1
  <2>5. Len(buffer) \in 0 .. Len(buffer)
    BY <2>1
  <2>6. CASE \/ Open \/ OpenFails \/ Record
             \/ NextSession \/ RecordOther \/ DiskFills
    BY <2>3, <2>6 DEF Open, OpenFails, Record, NextSession, RecordOther, RecordEvent,
                      DiskFills, world
  <2>7. ASSUME NEW l \in Levels, UpdateCommsLevel(l)
        PROVE  IsPrefix(file, file')
    BY <2>3, <2>7 DEF UpdateCommsLevel, RecordEvent, world
  <2>8. CASE Close \/ Flush
    <3>1. file' = file \o SubSeq(buffer, 1, Len(buffer))
      BY <2>8 DEF Close, Flush, FlushPieces
    <3> QED BY <2>2, <2>5, <3>1
  <2>9. CASE CloseFails \/ FlushFails \/ Crash
    <3>1. \E n \in 0 .. Len(buffer) : file' = file \o SubSeq(buffer, 1, n)
      BY <2>4, <2>9 DEF CloseFails, FlushFails, Crash, FlushPieces
    <3> QED BY <2>2, <3>1
  <2> QED BY <2>6, <2>7, <2>8, <2>9 DEF Next
<1> QED BY <1>2, CaptureInvariant, PTL DEF Spec, CaptureOnlyGrows

-----------------------------------------------------------------------------
(* What was recorded.  Numbers grow, so that those of this logger are the  *)
(* ones beyond `made`, in memory as on the disk.                           *)
InMemory ==
    /\ packets \in Seq(Nat) /\ made \in Nat /\ made <= lines
    /\ handle => made <= opened
    /\ \A i, j \in 1 .. Len(packets) : i < j => packets[i] < packets[j]
    /\ \A i \in 1 .. Len(packets) : made < packets[i] /\ packets[i] <= lines

Known(p) == \E i \in 1 .. Len(packets) : packets[i] = p

TrackedInv ==
    /\ acknowledged \subseteq tracked
    /\ \A p \in tracked : p <= lines /\ (p > made => Known(p))

IsPacket(i) == whole[i].line.kind = "packet"

(* A header of this logger stands before the i-th piece.                   *)
Introduced(i) ==
    \E j \in 1 .. Len(whole) :
      /\ j < i /\ whole[j].part = "head" /\ whole[j].line.kind = "session"
      /\ whole[j].line.number > made

Kinds ==
    \A i \in 1 .. Len(whole) :
      /\ IsPacket(i) <=> whole[i].line.number \in tracked
      /\ IsPacket(i) /\ whole[i].line.number > made => Introduced(i)

RecordedInv == InMemory /\ TrackedInv /\ Kinds

(* A step leaves the first q pieces, or adds a line.                       *)
Shrinks(q) ==
    /\ q \in 0 .. Len(whole) /\ Len(whole') = q
    /\ \A i \in 1 .. q : whole'[i] = whole[i]

Grows(line) ==
    /\ Len(whole') = Len(whole) + 2
    /\ \A i \in 1 .. Len(whole) : whole'[i] = whole[i]
    /\ whole'[Len(whole) + 1].line = line
    /\ whole'[Len(whole) + 2].line = line

LEMMA WholeIsTyped ==
    ASSUME CaptureInv
    PROVE  /\ whole \in Seq(Piece) /\ Len(whole) \in Nat
           /\ Len(whole) = Len(file) + Len(buffer)
           /\ Len(file) \in Nat /\ Len(buffer) \in Nat
           /\ \A i \in 1 .. Len(whole) : /\ whole[i].line.number \in Nat
                                         /\ whole[i].line.number <= lines
<1>1. file \in Seq(Piece) /\ buffer \in Seq(Piece)
  BY DEF CaptureInv, Types
<1>2. /\ whole \in Seq(Piece) /\ Len(whole) = Len(file) + Len(buffer)
      /\ Len(file) \in Nat /\ Len(buffer) \in Nat
  BY <1>1, ConcatProperties, LenProperties DEF whole
<1>3. \A i \in 1 .. Len(whole) : whole[i] \in Piece
  BY <1>2, ElementOfSeq
<1>4. \A i \in 1 .. Len(whole) : whole[i].line.number \in Nat
  BY <1>3 DEF Piece, LineType
<1>5. \A i \in 1 .. Len(whole) : whole[i].line.number <= lines
  BY DEF CaptureInv, AtMost
<1> QED BY <1>2, <1>4, <1>5

LEMMA Shrinking ==
    ASSUME CaptureInv, NEW n \in 0 .. Len(buffer), NEW k \in n .. Len(buffer),
           file' = file \o SubSeq(buffer, 1, n),
           buffer' = SubSeq(buffer, n + 1, k)
    PROVE  Shrinks(Len(file) + k)
<1> DEFINE q == Len(file) + k
<1>1. file \in Seq(Piece) /\ buffer \in Seq(Piece)
  BY DEF CaptureInv, Types
<1>2. whole' = SubSeq(whole, 1, q)
  BY ZenonT(40), <1>1, MoveBoundary DEF whole
<1>3. q \in 0 .. Len(whole) /\ q \in Nat
  BY WholeIsTyped
<1> HIDE DEF q
<1>4. \A i \in 1 .. q : whole[i] \in Piece
  BY <1>3, WholeIsTyped, ElementOfSeq
<1>5. /\ Len(SubSeq(whole, 1, q)) = IF 1 <= q THEN q - 1 + 1 ELSE 0
      /\ \A i \in 1 .. q - 1 + 1 : SubSeq(whole, 1, q)[i] = whole[1 + i - 1]
  BY <1>3, <1>4, WholeIsTyped, SubSeqProperties
<1>6. /\ Len(SubSeq(whole, 1, q)) = q
      /\ \A i \in 1 .. q : SubSeq(whole, 1, q)[i] = whole[i]
  BY <1>3, <1>5
<1>7. Shrinks(q)
  BY <1>2, <1>3, <1>6 DEF Shrinks
<1> QED BY <1>7 DEF q

LEMMA Growing ==
    ASSUME CaptureInv, NEW line \in LineType, line.number = lines + 1,
           WriteLine(line), file' = file
    PROVE  Grows(line) /\ lines' = lines + 1
<1> DEFINE c == buffer \o Pieces(line)
<1>1. /\ file \in Seq(Piece) /\ buffer \in Seq(Piece) /\ lines \in Nat
      /\ Ordered(file \o buffer) /\ AtMost(file \o buffer, lines)
  BY DEF CaptureInv, Types, whole
<1>2. /\ Len(file \o c) = Len(file \o buffer) + 2
      /\ \A j \in 1 .. Len(file \o buffer) : (file \o c)[j] = (file \o buffer)[j]
      /\ (file \o c)[Len(file \o buffer) + 1] = c[Len(buffer) + 1]
      /\ (file \o c)[Len(file \o buffer) + 2] = c[Len(buffer) + 2]
      /\ c[Len(buffer) + 1].line = line /\ c[Len(buffer) + 2].line = line
  BY <1>1, LineKeeps
<1>3. buffer' = c /\ lines' = lines + 1
  BY DEF WriteLine
<1> HIDE DEF c
<1> QED BY <1>2, <1>3 DEF Grows, whole

LEMMA ShrinkingKeepsKinds ==
    ASSUME CaptureInv, Kinds, NEW q, Shrinks(q), UNCHANGED <<tracked, made>>
    PROVE  Kinds'
<1> SUFFICES ASSUME NEW i \in 1 .. q
             PROVE  /\ IsPacket(i)' <=> whole'[i].line.number \in tracked
                    /\ IsPacket(i)' /\ whole'[i].line.number > made
                         => Introduced(i)'
  BY DEF Kinds, Shrinks
<1>1. /\ i \in 1 .. Len(whole) /\ whole'[i] = whole[i] /\ q \in Nat
      /\ Len(whole') = q
  BY WholeIsTyped DEF Shrinks
<1>2. IsPacket(i)' <=> whole'[i].line.number \in tracked
  BY <1>1 DEF Kinds, IsPacket
<1>3. ASSUME IsPacket(i)', whole'[i].line.number > made
      PROVE  Introduced(i)'
  <2>1. PICK j \in 1 .. Len(whole) :
          /\ j < i /\ whole[j].part = "head" /\ whole[j].line.kind = "session"
          /\ whole[j].line.number > made
    BY <1>1, <1>3 DEF Kinds, IsPacket, Introduced
  <2>2. j \in 1 .. q
    BY <1>1, <2>1
  <2>3. whole'[j] = whole[j]
    BY <2>2 DEF Shrinks
  <2> QED BY <1>1, <2>1, <2>2, <2>3 DEF Introduced
<1> QED BY <1>2, <1>3

LEMMA GrowingKeepsKinds ==
    ASSUME CaptureInv, RecordedInv, NEW line \in LineType, Grows(line),
           line.number = lines + 1, made' = made,
           \/ line.kind # "packet" /\ tracked' = tracked
           \/ line.kind = "packet" /\ handle /\ tracked' = tracked \cup {lines + 1}
    PROVE  Kinds'
<1> DEFINE L == Len(whole)
<1>1. /\ L \in Nat /\ lines \in Nat /\ Len(whole') = L + 2
      /\ \A p \in tracked : p <= lines
  BY WholeIsTyped DEF Grows, RecordedInv, TrackedInv, CaptureInv, Types
<1>2. ASSUME NEW i \in 1 .. L
      PROVE  /\ IsPacket(i)' <=> whole'[i].line.number \in tracked'
             /\ IsPacket(i)' /\ whole'[i].line.number > made => Introduced(i)'
  <2>1. /\ whole'[i] = whole[i] /\ whole[i].line.number <= lines
        /\ whole[i].line.number \in Nat
    BY WholeIsTyped DEF Grows
  <2>2. whole[i].line.number # lines + 1
    BY <1>1, <2>1
  <2>3. IsPacket(i)' <=> whole'[i].line.number \in tracked'
    BY <2>1, <2>2 DEF RecordedInv, Kinds, IsPacket
  <2>4. ASSUME IsPacket(i)', whole'[i].line.number > made
        PROVE  Introduced(i)'
    <3>1. PICK j \in 1 .. L :
            /\ j < i /\ whole[j].part = "head" /\ whole[j].line.kind = "session"
            /\ whole[j].line.number > made
      BY <2>1, <2>4 DEF RecordedInv, Kinds, IsPacket, Introduced
    <3>2. whole'[j] = whole[j] /\ j \in 1 .. L + 2
      BY <1>1 DEF Grows
    <3> QED BY <1>1, <3>1, <3>2 DEF Introduced
  <2> QED BY <2>3, <2>4
<1>3. ASSUME NEW i \in {L + 1, L + 2}
      PROVE  /\ IsPacket(i)' <=> whole'[i].line.number \in tracked'
             /\ IsPacket(i)' /\ whole'[i].line.number > made => Introduced(i)'
  <2>1. whole'[i].line = line
    BY DEF Grows
  <2>2. lines + 1 \notin tracked
    BY <1>1
  <2>3. IsPacket(i)' <=> whole'[i].line.number \in tracked'
    BY <2>1, <2>2 DEF IsPacket
  <2>4. ASSUME IsPacket(i)'
        PROVE  Introduced(i)'
    <3>1. handle
      BY <2>1, <2>4 DEF IsPacket
    <3>2. PICK j \in 1 .. L : Header(whole[j], opened)
      BY <3>1 DEF CaptureInv, HeaderWritten
    <3>3. whole'[j] = whole[j] /\ j \in 1 .. L + 2 /\ j < i
      BY <1>1 DEF Grows
    <3>4. opened + 1 > made
      BY <3>1 DEF RecordedInv, InMemory, CaptureInv, Types
    <3> QED BY <1>1, <3>2, <3>3, <3>4 DEF Introduced, Header
  <2> QED BY <2>3, <2>4
<1>4. \A i \in 1 .. L + 2 : i \in 1 .. L \/ i \in {L + 1, L + 2}
  BY <1>1
<1> QED BY <1>1, <1>2, <1>3, <1>4 DEF Kinds

(* The packets in memory, and one more.                                    *)
LEMMA RecordingKeepsMemory ==
    ASSUME CaptureInv, RecordedInv, packets' = Append(packets, lines + 1),
           lines' = lines + 1, UNCHANGED <<made, handle, opened>>
    PROVE  /\ InMemory'
           /\ Known(lines)'
           /\ \A p : Known(p) => Known(p)'
<1> DEFINE n == Len(packets)
           c == Append(packets, lines + 1)
<1>1. packets \in Seq(Nat) /\ n \in Nat /\ lines \in Nat /\ lines + 1 \in Nat
  BY LenProperties DEF RecordedInv, InMemory, CaptureInv, Types
<1>2. /\ c \in Seq(Nat) /\ Len(c) = n + 1 /\ c[n + 1] = lines + 1
      /\ \A i \in 1 .. n : c[i] = packets[i]
  BY <1>1, AppendProperties
<1>3. \A i \in 1 .. n : /\ packets[i] \in Nat /\ made < packets[i]
                        /\ packets[i] <= lines
  BY <1>1, ElementOfSeq DEF RecordedInv, InMemory
<1>4. \A i, j \in 1 .. n : i < j => packets[i] < packets[j]
  BY DEF RecordedInv, InMemory
<1>5. made \in Nat /\ made <= lines /\ (handle => made <= opened)
  BY DEF RecordedInv, InMemory
<1> HIDE DEF c, n
<1>6. \A i \in 1 .. n + 1 : i \in 1 .. n \/ i = n + 1
  BY <1>1
<1>7. \A i \in 1 .. n + 1 : made < c[i] /\ c[i] <= lines + 1
  BY <1>1, <1>2, <1>3, <1>5, <1>6
<1>8. ASSUME NEW i \in 1 .. n + 1, NEW j \in 1 .. n + 1, i < j
      PROVE  c[i] < c[j]
  <2>1. i \in 1 .. n
    BY <1>1, <1>8
  <2>2. CASE j \in 1 .. n
    BY <1>2, <1>4, <1>8, <2>1, <2>2
  <2>3. CASE j = n + 1
    BY SMTT(40), <1>1, <1>2, <1>3, <2>1, <2>3
  <2> QED BY <1>6, <2>2, <2>3
<1>9. packets' = c
  BY DEF c
<1>10. InMemory'
  BY <1>1, <1>2, <1>5, <1>7, <1>8, <1>9 DEF InMemory
<1>11. Known(lines)'
  <2>1. n + 1 \in 1 .. n + 1
    BY <1>1
  <2> QED BY <1>2, <1>9, <2>1 DEF Known
<1>12. \A p : Known(p) => Known(p)'
  <2>1. \A i \in 1 .. n : i \in 1 .. n + 1
    BY <1>1
  <2> QED BY <1>2, <1>9, <2>1 DEF Known, n
<1> QED BY <1>10, <1>11, <1>12

LEMMA InitEstablishesRecordedInv == Init => RecordedInv
<1> SUFFICES ASSUME Init PROVE RecordedInv
  OBVIOUS
<1>1. <<>> \in Seq(Nat) /\ Len(<<>>) = 0
  BY EmptySeq
<1>2. whole = <<>>
  BY DEF Init, whole
<1>3. /\ packets = <<>> /\ made = 0 /\ lines = 0 /\ handle = FALSE
      /\ tracked = {} /\ acknowledged = {}
  BY DEF Init
<1>4. InMemory
  BY <1>1, <1>3 DEF InMemory
<1>5. TrackedInv /\ Kinds
  BY <1>1, <1>2, <1>3 DEF TrackedInv, Kinds
<1> QED BY <1>4, <1>5 DEF RecordedInv

(* A line that is no packet's. *)
LEMMA OtherLineKeepsRecordedInv ==
    ASSUME CaptureInv, RecordedInv, NEW line \in LineType,
           line.number = lines + 1, line.kind # "packet",
           WriteLine(line), UNCHANGED <<file, packets, made, tracked, acknowledged>>,
           \/ UNCHANGED <<handle, opened>>
           \/ opened' = lines
    PROVE  RecordedInv'
<1>1. Grows(line) /\ lines' = lines + 1
  BY Growing
<1>2. Kinds'
  BY <1>1, GrowingKeepsKinds
<1>3. lines \in Nat /\ opened \in Nat
  BY DEF CaptureInv, Types
<1>4. InMemory'
  <2>1. packets \in Seq(Nat) /\ made \in Nat /\ made <= lines
    BY DEF RecordedInv, InMemory
  <2>2. \A i \in 1 .. Len(packets) : packets[i] \in Nat
    BY <2>1, ElementOfSeq
  <2>3. \A i \in 1 .. Len(packets) : packets[i] <= lines + 1
    BY <1>3, <2>2 DEF RecordedInv, InMemory
  <2> QED BY <1>1, <1>3, <2>1, <2>3 DEF RecordedInv, InMemory
<1>5. TrackedInv'
  BY <1>1, <1>3 DEF RecordedInv, TrackedInv, Known, CaptureInv, Types
<1> QED BY <1>2, <1>4, <1>5 DEF RecordedInv

LEMMA EventKeepsRecordedInv ==
    ASSUME CaptureInv, RecordedInv, RecordEvent
    PROVE  RecordedInv'
<1>1. CASE ~handle
  <2>1. UNCHANGED <<file, buffer, packets, made, opened, handle, lines, tracked,
                    acknowledged>>
    BY <1>1 DEF RecordEvent, world
  <2> QED BY <2>1 DEF RecordedInv, InMemory, TrackedInv, Known, Kinds, IsPacket,
                      Introduced, whole
<1>2. CASE handle
  <2> DEFINE line == Line("event", "NONE")
  <2>1. /\ line \in LineType /\ line.number = lines + 1
        /\ line.kind # "packet"
    BY DEF Line, LineType, CaptureInv, Types
  <2>2. /\ WriteLine(line)
        /\ UNCHANGED <<file, packets, made, tracked, acknowledged, handle, opened>>
    BY <1>2 DEF RecordEvent, world
  <2> HIDE DEF line
  <2> QED BY <2>1, <2>2, OtherLineKeepsRecordedInv
<1> QED BY <1>1, <1>2

LEMMA CallsKeepRecordedInv ==
    ASSUME CaptureInv, RecordedInv, Open \/ Record
    PROVE  RecordedInv'
<1>1. CASE Open
  <2> DEFINE line == Line("session", level)
  <2>1. /\ line \in LineType /\ line.number = lines + 1
        /\ line.kind # "packet"
    BY DEF Line, LineType, CaptureInv, Types
  <2>2. /\ WriteLine(line) /\ opened' = lines
        /\ UNCHANGED <<file, packets, made, tracked, acknowledged>>
    BY <1>1 DEF Open, world
  <2> HIDE DEF line
  <2> QED BY <2>1, <2>2, OtherLineKeepsRecordedInv
<1>2. CASE Record /\ handle
  <2> DEFINE line == Line("packet", "NONE")
  <2>1. /\ line \in LineType /\ line.number = lines + 1
        /\ line.kind = "packet"
    BY DEF Line, LineType, CaptureInv, Types
  <2>2. /\ WriteLine(line) /\ tracked' = tracked \cup {lines + 1}
        /\ UNCHANGED <<file, made, opened, handle>>
        /\ packets' = Append(packets, lines + 1)
    BY <1>2 DEF Record, world
  <2>3. acknowledged' = acknowledged
    BY <1>2, <2>2 DEF Record, WriteLine
  <2> HIDE DEF line
  <2>4. Grows(line) /\ lines' = lines + 1
    BY <2>1, <2>2, Growing
  <2>5. Kinds'
    BY <1>2, <2>1, <2>2, <2>4, GrowingKeepsKinds
  <2>6. InMemory' /\ Known(lines)' /\ \A p : Known(p) => Known(p)'
    BY <2>2, <2>4, RecordingKeepsMemory
  <2>7. TrackedInv'
    <3>1. lines \in Nat /\ tracked \subseteq Nat
      BY DEF CaptureInv, Types
    <3>2. ASSUME NEW p \in tracked'
          PROVE  p <= lines + 1 /\ (p > made => Known(p)')
      <4>1. CASE p \in tracked
        <5>1. p <= lines /\ p \in Nat /\ (p > made => Known(p))
          BY <3>1, <4>1 DEF RecordedInv, TrackedInv
        <5> QED BY <2>6, <3>1, <5>1
      <4>2. CASE p = lines + 1
        BY <2>4, <2>6, <3>1, <4>2 DEF Known
      <4> QED BY <2>2, <4>1, <4>2
    <3> QED BY <2>2, <2>3, <2>4, <3>2 DEF RecordedInv, TrackedInv
  <2> QED BY <2>5, <2>6, <2>7 DEF RecordedInv
<1>3. CASE Record /\ ~handle
  <2>1. /\ UNCHANGED <<file, buffer, tracked, made, opened, handle, acknowledged>>
        /\ packets' = Append(packets, lines + 1) /\ lines' = lines + 1
    BY <1>3 DEF Record, world
  <2>2. InMemory' /\ \A p : Known(p) => Known(p)'
    BY <2>1, RecordingKeepsMemory
  <2>3. TrackedInv'
    <3>1. lines \in Nat /\ tracked \subseteq Nat
      BY DEF CaptureInv, Types
    <3> QED BY <2>1, <2>2, <3>1 DEF RecordedInv, TrackedInv
  <2>4. Kinds'
    BY <2>1 DEF RecordedInv, Kinds, IsPacket, Introduced, whole
  <2> QED BY <2>2, <2>3, <2>4 DEF RecordedInv
<1> QED BY <1>1, <1>2, <1>3

LEMMA FlushesKeepRecordedInv ==
    ASSUME CaptureInv, RecordedInv, Flush \/ FlushFails \/ Close \/ CloseFails
    PROVE  RecordedInv'
<1>1. PICK n \in 0 .. Len(buffer) : \E k \in n .. Len(buffer) : Leaves(n, k)
  BY FlushLeaves
<1>2. PICK k \in n .. Len(buffer) : Leaves(n, k)
  BY <1>1
<1>3. Shrinks(Len(file) + k)
  BY <1>2, Shrinking DEF Leaves
<1>4. /\ UNCHANGED <<packets, lines, made, opened, tracked>>
      /\ handle' \in {FALSE, handle}
      /\ acknowledged' \subseteq acknowledged \cup tracked
  <2>1. CASE Flush
    BY <2>1 DEF Flush
  <2>2. CASE FlushFails
    BY <2>2 DEF FlushFails, history
  <2>3. CASE Close
    BY <2>3 DEF Close, history
  <2>4. CASE CloseFails
    BY <2>4 DEF CloseFails, history
  <2> QED BY <2>1, <2>2, <2>3, <2>4
<1>5. Kinds'
  BY <1>3, <1>4, ShrinkingKeepsKinds DEF RecordedInv
<1>6. handle' => handle
  BY <1>4 DEF CaptureInv, Types
<1>7. InMemory'
  BY <1>4, <1>6 DEF RecordedInv, InMemory
<1>8. TrackedInv'
  BY <1>4 DEF RecordedInv, TrackedInv, Known
<1> QED BY <1>5, <1>7, <1>8 DEF RecordedInv

LEMMA WorldKeepsRecordedInv ==
    ASSUME CaptureInv, RecordedInv,
           Crash \/ NextSession \/ DiskFills \/ OpenFails \/ UNCHANGED vars
    PROVE  RecordedInv'
<1>0. <<>> \in Seq(Nat) /\ Len(<<>>) = 0
  BY EmptySeq
<1>1. ASSUME NewLogger, NEW n \in 0 .. Len(buffer), file' = file \o SubSeq(buffer, 1, n)
      PROVE  RecordedInv'
  <2>1. /\ handle' = FALSE /\ packets' = <<>> /\ made' = lines /\ buffer' = <<>>
        /\ UNCHANGED <<lines, tracked, acknowledged>> /\ lines \in Nat
    BY <1>1 DEF NewLogger, CaptureInv, Types
  <2>2. InMemory'
    BY <1>0, <2>1 DEF InMemory
  <2>3. TrackedInv'
    BY <2>1 DEF RecordedInv, TrackedInv, CaptureInv, Types
  <2>4. Len(buffer) \in Nat /\ n \in n .. n /\ n \in n .. Len(buffer)
    BY WholeIsTyped
  <2>5. buffer' = SubSeq(buffer, n + 1, n)
    <3>1. /\ SubSeq(buffer, n + 1, n) \in Seq(Piece)
          /\ Len(SubSeq(buffer, n + 1, n)) = 0
      <4>1. \A i \in n + 1 .. n : buffer[i] \in Piece
        BY <2>4
      <4> QED BY <2>4, <4>1, SubSeqProperties
    <3>2. <<>> \in Seq(Piece) /\ Len(<<>>) = 0
      BY EmptySeq
    <3> QED BY <2>1, <3>1, <3>2, SeqEqual
  <2>6. Shrinks(Len(file) + n)
    BY <1>1, <2>4, <2>5, Shrinking
  <2>7. Kinds'
    <3>1. ASSUME NEW i \in 1 .. Len(whole')
          PROVE  /\ IsPacket(i)' <=> whole'[i].line.number \in tracked
                 /\ ~(whole'[i].line.number > lines)
      <4>1. i \in 1 .. Len(whole) /\ whole'[i] = whole[i]
        BY <2>6, WholeIsTyped DEF Shrinks
      <4>2. whole[i].line.number \in Nat /\ whole[i].line.number <= lines
        BY <4>1, WholeIsTyped
      <4> QED BY <2>1, <4>1, <4>2 DEF RecordedInv, Kinds, IsPacket
    <3> QED BY <2>1, <3>1 DEF Kinds
  <2> QED BY <2>2, <2>3, <2>7 DEF RecordedInv
<1>2. CASE Crash
  BY <1>1, <1>2 DEF Crash
<1>3. CASE NextSession
  <2>1. SubSeq(buffer, 1, 0) = <<>>
    <3>1. \A i \in 1 .. 0 : buffer[i] \in Piece
      OBVIOUS
    <3>2. /\ SubSeq(buffer, 1, 0) \in Seq(Piece)
          /\ Len(SubSeq(buffer, 1, 0)) = 0
      BY <3>1, SubSeqProperties
    <3>3. <<>> \in Seq(Piece) /\ Len(<<>>) = 0
      BY EmptySeq
    <3> QED BY <3>2, <3>3, SeqEqual
  <2>2. file \o <<>> = file
    BY ConcatEmptySeq DEF CaptureInv, Types
  <2>3. NewLogger /\ file' = file \o SubSeq(buffer, 1, 0)
    BY <1>3, <2>1, <2>2 DEF NextSession
  <2>4. 0 \in 0 .. Len(buffer)
    BY WholeIsTyped
  <2> QED BY <1>1, <2>3, <2>4
<1>4. CASE DiskFills \/ OpenFails \/ UNCHANGED vars
  <2>1. UNCHANGED <<file, buffer, packets, made, opened, handle, lines, tracked,
                    acknowledged>>
    BY <1>4 DEF DiskFills, OpenFails, vars, logger, world, history
  <2> QED BY <2>1 DEF RecordedInv, InMemory, TrackedInv, Known, Kinds, IsPacket,
                      Introduced, whole
<1> QED BY <1>2, <1>3, <1>4

LEMMA StepKeepsRecordedInv ==
    ASSUME CaptureInv, RecordedInv, [Next]_vars
    PROVE  RecordedInv'
<1>1. ASSUME NEW l \in Levels, UpdateCommsLevel(l)
      PROVE  RecordedInv'
  BY <1>1, EventKeepsRecordedInv DEF UpdateCommsLevel
<1>2. CASE RecordOther
  BY <1>2, EventKeepsRecordedInv DEF RecordOther
<1>3. CASE Open \/ Record
  BY <1>3, CallsKeepRecordedInv
<1>4. CASE Flush \/ FlushFails \/ Close \/ CloseFails
  BY <1>4, FlushesKeepRecordedInv
<1>5. CASE Crash \/ NextSession \/ DiskFills \/ OpenFails \/ UNCHANGED vars
  BY <1>5, WorldKeepsRecordedInv
<1> QED BY <1>1, <1>2, <1>3, <1>4, <1>5 DEF Next

(* Memory and disk tell of the same packets: those of this logger that     *)
(* reached the file are in memory, each behind a header of this logger,    *)
(* and nothing in the file is a packet that record() never took.           *)
THEOREM RecordedInvariant == Spec => []RecordedInv
BY CaptureInvariant, InitEstablishesRecordedInv, StepKeepsRecordedInv, PTL
   DEF Spec

(* Lines of a kind, in the file. *)
LEMMA KindsInFile ==
    ASSUME CaptureInv, NEW kind, NEW i \in OfKind(kind)
    PROVE  /\ i \in 1 .. Len(file) /\ i \in 1 .. Len(whole) /\ i \in Nat
           /\ Len(file) \in Nat
           /\ whole[i] = file[i] /\ file[i].part = "head"
           /\ file[i].line.kind = kind /\ file[i].line.number \in Nat
BY FileIsFirst DEF OfKind, Starts

LEMMA OrderInFile ==
    ASSUME CaptureInv, NEW k1, NEW k2, NEW i \in OfKind(k1), NEW j \in OfKind(k2),
           i < j
    PROVE  file[i].line.number < file[j].line.number
<1>1. Rank(whole[i]) < Rank(whole[j])
  BY KindsInFile DEF CaptureInv, Ordered
<1>2. /\ Rank(whole[i]) = 2 * file[i].line.number
      /\ Rank(whole[j]) = 2 * file[j].line.number
  BY KindsInFile DEF Rank
<1>3. file[i].line.number \in Nat /\ file[j].line.number \in Nat
  BY KindsInFile
<1> QED BY <1>1, <1>2, <1>3

(* What load_capture returns: the numbers of the packet lines, rising.     *)
LEMMA LoadedPackets ==
    ASSUME CaptureInv, load_capture.ok
    PROVE  LET P == load_capture.packets
           IN /\ P \in Seq(Nat) /\ Len(P) \in Nat /\ DOMAIN P = 1 .. Len(P)
              /\ \A k \in 1 .. Len(P) :
                    \E i \in OfKind("packet") : P[k] = file[i].line.number
              /\ \A i \in OfKind("packet") :
                    \E k \in 1 .. Len(P) : P[k] = file[i].line.number
              /\ \A j, k \in 1 .. Len(P) : j < k => P[j] < P[k]
<1> DEFINE I == OfKind("packet")
           n == Cardinality(I)
           s == Ascending(I)
           P == load_capture.packets
           number(i) == file[i].line.number
<1>1. I \in SUBSET Nat /\ IsFiniteSet(I)
  <2>1. I \in SUBSET (1 .. Len(file)) /\ Len(file) \in Nat
    BY FileIsFirst DEF OfKind, Starts
  <2>2. IsFiniteSet(1 .. Len(file)) /\ 1 .. Len(file) \subseteq Nat
    BY <2>1, FS_Interval
  <2> HIDE DEF I
  <2> QED BY <2>1, <2>2, FS_Subset
<1>2. \A i \in I : number(i) \in Nat
  BY KindsInFile
<1>3. \A i, j \in I : i < j => number(i) < number(j)
  BY OrderInFile
<1>4. P = [k \in DOMAIN s |-> number(s[k])]
  BY DEF load_capture, Unreadable
<1> HIDE DEF I, P, number
<1>5. /\ s \in [1 .. n -> I]
      /\ \A j, k \in DOMAIN s : j < k => s[j] < s[k]
  BY <1>1, ListedInOrder DEF Ascending
<1> HIDE DEF s
<1>6. n \in Nat /\ \A i \in I : \E k \in 1 .. n : s[k] = i
  BY <1>1, <1>5, ListedWhole
<1> HIDE DEF n
<1>7. P \in [1 .. n -> Nat] /\ \A k \in 1 .. n : P[k] = number(s[k]) /\ s[k] \in I
  BY <1>2, <1>4, <1>5
<1>8. P \in Seq(Nat) /\ Len(P) = n /\ DOMAIN P = 1 .. n
  BY <1>6, <1>7, SeqDef
<1>9. \A j, k \in 1 .. n : j < k => P[j] < P[k]
  BY <1>3, <1>5, <1>7
<1>10. \A i \in I : \E k \in 1 .. n : P[k] = number(i)
  BY <1>6, <1>7
<1>11. \A k \in 1 .. n : \E i \in I : P[k] = number(i)
  BY <1>7
<1> QED BY <1>6, <1>8, <1>9, <1>10, <1>11 DEF P, I, number

(* What load_capture returns is what record() took while the capture was   *)
(* open, in that order, and all that record() acknowledged.                *)
LEMMA LoadedIsRecorded ==
    ASSUME CaptureInv, RecordedInv
    PROVE  LoadReturnsRecorded
<1> DEFINE P == load_capture.packets
<1> SUFFICES ASSUME load_capture.ok
             PROVE  /\ \A i \in 1 .. Len(P) - 1 : P[i] < P[i + 1]
                    /\ acknowledged \subseteq ToSet(P)
                    /\ ToSet(P) \subseteq tracked
  BY DEF LoadReturnsRecorded
<1>1. /\ Len(P) \in Nat /\ DOMAIN P = 1 .. Len(P)
      /\ \A k \in 1 .. Len(P) :
            \E i \in OfKind("packet") : P[k] = file[i].line.number
      /\ \A i \in OfKind("packet") :
            \E k \in 1 .. Len(P) : P[k] = file[i].line.number
      /\ \A j, k \in 1 .. Len(P) : j < k => P[j] < P[k]
  BY LoadedPackets
<1> HIDE DEF P
<1>2. \A i \in 1 .. Len(P) - 1 : P[i] < P[i + 1]
  BY <1>1
<1>3. ASSUME NEW p \in acknowledged
      PROVE  p \in ToSet(P)
  <2>1. PICK i \in 1 .. Len(file) - 1 :
          file[i].part = "head" /\ file[i].line.number = p
    BY DEF CaptureInv, OnDisk
  <2>2. /\ i \in DOMAIN file /\ i \in 1 .. Len(whole) /\ whole[i] = file[i]
    BY FileIsFirst
  <2>3. p \in tracked
    BY DEF RecordedInv, TrackedInv
  <2>4. file[i].line.kind = "packet"
    BY <2>1, <2>2, <2>3 DEF RecordedInv, Kinds, IsPacket
  <2>5. i \in OfKind("packet")
    BY <2>1, <2>2, <2>4 DEF OfKind, Starts
  <2>6. PICK k \in 1 .. Len(P) : P[k] = p
    BY <1>1, <2>1, <2>5
  <2> QED BY <1>1, <2>6 DEF ToSet
<1>4. ASSUME NEW p \in ToSet(P)
      PROVE  p \in tracked
  <2>1. PICK k \in 1 .. Len(P) : P[k] = p
    BY <1>1 DEF ToSet
  <2>2. PICK i \in OfKind("packet") : p = file[i].line.number
    BY <1>1, <2>1
  <2> QED BY <2>2, KindsInFile DEF RecordedInv, Kinds, IsPacket
<1> QED BY <1>2, <1>3, <1>4

(* A capture that loads is what was recorded, whatever was written badly,  *)
(* made up for or cut off on the way.                                      *)
THEOREM LoadingIsFaithful == Spec => []LoadReturnsRecorded
BY CaptureInvariant, RecordedInvariant, LoadedIsRecorded, PTL

(* The session an export names is the last in the file: one of this logger,*)
(* as soon as there is a packet of it.                                     *)
LEMMA LastSessionIsOurs ==
    ASSUME CaptureInv, RecordedInv, load_capture.ok,
           NEW i \in OfKind("packet"), file[i].line.number > made
    PROVE  load_capture.session.number > made
<1> DEFINE S == OfKind("session")
<1>1. PICK j \in 1 .. Len(whole) :
        /\ j < i /\ whole[j].part = "head" /\ whole[j].line.kind = "session"
        /\ whole[j].line.number > made
  BY KindsInFile DEF RecordedInv, Kinds, IsPacket, Introduced
<1>2. j \in DOMAIN file /\ whole[j] = file[j]
  BY SMTT(40), <1>1, KindsInFile, FileIsFirst, WholeIsTyped
<1>3. j \in S
  BY <1>1, <1>2 DEF OfKind, Starts
<1>4. S \subseteq Nat /\ \A x \in S : x <= Len(file) /\ Len(file) \in Nat
  BY KindsInFile
<1> HIDE DEF S
<1>5. Max(S) \in S /\ j <= Max(S)
  BY <1>3, <1>4, MaxIsGreatest
<1>6. \/ Max(S) = j
      \/ file[j].line.number < file[Max(S)].line.number
  <2>1. j \in Nat /\ Max(S) \in Nat
    BY <1>3, <1>4, <1>5
  <2>2. CASE j < Max(S)
    BY <1>3, <1>5, <2>2, OrderInFile DEF S
  <2> QED BY <1>5, <2>1, <2>2
<1>7. /\ file[j].line.number \in Nat /\ file[Max(S)].line.number \in Nat
      /\ made \in Nat
  BY <1>3, <1>5, KindsInFile DEF S, RecordedInv, InMemory
<1>8. file[Max(S)].line.number > made
  BY <1>1, <1>2, <1>6, <1>7
<1>9. load_capture.session = file[Max(S)].line
  BY DEF load_capture, Unreadable, S
<1> QED BY <1>8, <1>9

(* The exports from memory and from the file do not contradict each other. *)
THEOREM ExportsTellOneStory == Spec => []ExportsAgree
<1>1. CaptureInv /\ RecordedInv => ExportsAgree
  <2> DEFINE M    == packets
             D    == load_capture.packets
             ours == {p \in ToSet(D) : p > made}
  <2> SUFFICES ASSUME CaptureInv, RecordedInv, load_capture.ok
               PROVE  /\ ours = ToSet(M) \cap ToSet(D)
                      /\ \A i, j \in DOMAIN M, k, l \in DOMAIN D :
                            M[i] = D[k] /\ M[j] = D[l] /\ i < j => k < l
                      /\ acknowledged \cap ToSet(M) \subseteq ours
                      /\ ours # {} => load_capture.session.number > made
    BY DEF ExportsAgree, to_document, export_capture
  <2>1. /\ D \in Seq(Nat) /\ Len(D) \in Nat /\ DOMAIN D = 1 .. Len(D)
        /\ \A k \in 1 .. Len(D) :
              \E i \in OfKind("packet") : D[k] = file[i].line.number
        /\ \A j, k \in 1 .. Len(D) : j < k => D[j] < D[k]
    BY LoadedPackets
  <2>2. /\ acknowledged \subseteq ToSet(D) /\ ToSet(D) \subseteq tracked
    BY LoadedIsRecorded DEF LoadReturnsRecorded
  <2>3. /\ M \in Seq(Nat) /\ DOMAIN M = 1 .. Len(M) /\ Len(M) \in Nat
        /\ \A i, j \in 1 .. Len(M) : i < j => M[i] < M[j]
        /\ \A i \in 1 .. Len(M) : made < M[i] /\ M[i] \in Nat
        /\ made \in Nat
    BY LenProperties, ElementOfSeq DEF RecordedInv, InMemory
  <2>4. \A p \in tracked : p > made => p \in ToSet(M)
    BY <2>3 DEF RecordedInv, TrackedInv, Known, ToSet
  <2>5. \A p \in ToSet(M) : p > made
    BY <2>3 DEF ToSet
  <2>6. \A k \in 1 .. Len(D) : D[k] \in Nat
    BY <2>1, ElementOfSeq
  <2>7. ours # {} => load_capture.session.number > made
    <3> SUFFICES ASSUME NEW k \in 1 .. Len(D), D[k] > made
                 PROVE  load_capture.session.number > made
      BY <2>1 DEF ToSet
    <3>1. PICK i \in OfKind("packet") : D[k] = file[i].line.number
      BY <2>1
    <3> QED BY <3>1, LastSessionIsOurs
  <2> HIDE DEF M, D
  <2>8. ours = ToSet(M) \cap ToSet(D)
    BY <2>2, <2>4, <2>5
  <2>9. ASSUME NEW i \in DOMAIN M, NEW j \in DOMAIN M,
               NEW k \in DOMAIN D, NEW l \in DOMAIN D,
               M[i] = D[k], M[j] = D[l], i < j
        PROVE  k < l
    <3>1. D[k] < D[l]
      BY <2>3, <2>9
    <3>2. ~(l < k) /\ l # k
      BY <2>1, <2>6, <2>9, <3>1
    <3> QED BY <2>1, <2>9, <3>2
  <2>10. acknowledged \cap ToSet(M) \subseteq ours
    BY <2>2, <2>5
  <2> QED BY <2>7, <2>8, <2>9, <2>10
<1> QED BY <1>1, CaptureInvariant, RecordedInvariant, PTL
=============================================================================
