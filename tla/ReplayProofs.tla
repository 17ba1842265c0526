---------------------------- MODULE ReplayProofs ----------------------------
(***************************************************************************)
(* Theorems of ReplayTransport: what a replay returns and accepts is what  *)
(* was recorded, in the recorded order, and the contract of the base class *)
(* is kept - for every capture, read size and payload.                     *)
(***************************************************************************)
EXTENDS ReplayTransport, SequenceLemmas

(* The packets the cursor has not passed.                                  *)
Rest == SubSeq(packets, cursor + 1, Len(packets))

Types ==
    /\ capture \in Captures /\ strict \in BOOLEAN
    /\ packets \in Seq(Packet)
    /\ cursor \in 0 .. Len(packets)
    /\ read \in Seq(Nat) /\ wrote \in Seq(Seq(Nat))
    /\ shown_tx \in Nat /\ shown_rx \in Nat
    /\ state \in {"disconnected", "connected", "error"}

(* The list only grows, so at its old length it is the old list; and no    *)
(* split leaves an empty packet.                                           *)
Loaded ==
    /\ Len(packets) >= Len(capture)
    /\ Len(packets) = Len(capture) => packets = capture
    /\ \A i \in DOMAIN packets :
          packets[i].direction = "RX" => packets[i].data # <<>>

(* In a pass that began with the list as loaded, what is left to read is   *)
(* numbered like a capture and lies above what was read.                   *)
Ordered ==
    ~grown =>
      /\ Increasing(read) /\ Numbered(Rest)
      /\ \A i \in DOMAIN Rest :
            Rest[i].direction = "RX" => Below(read, Rest[i].data)

(* What was read and what is left to read make up the capture, as long as  *)
(* no send skipped replies.                                                *)
Whole ==
    ~grown /\ wrote = <<>> =>
      read \o FlattenSeq(Received(Rest)) = FlattenSeq(Received(capture))

(* Every packet comes from one of the capture, in the capture's order;     *)
(* only replies are ever split.                                            *)
From(ps, qs, org) ==
    /\ org \in [DOMAIN ps -> DOMAIN qs]
    /\ \A i, j \in DOMAIN ps : i < j => org[i] <= org[j]
    /\ \A i \in DOMAIN ps :
          ps[i].direction = "TX" =>
            /\ ps[i] = qs[org[i]]
            /\ \A j \in DOMAIN ps : i < j => org[i] < org[j]

Originates == \E org : From(packets, capture, org)

(* The requests that sends consumed, all behind the cursor.                *)
Consumes(ps, at) ==
    /\ at \in [DOMAIN wrote -> 1 .. cursor] /\ Increasing(at)
    /\ \A i \in DOMAIN wrote :
          ps[at[i]] = [direction |-> "TX", data |-> wrote[i]]

Consumed == strict \/ mismatches = <<>> => \E at : Consumes(packets, at)

ReplayInv ==
    Types /\ Loaded /\ Ordered /\ Whole /\ Originates /\ Consumed

-----------------------------------------------------------------------------
(* Sequences of numbers: what joining keeps in order.                      *)
LEMMA Joining ==
    ASSUME NEW s \in Seq(Nat), NEW t \in Seq(Nat)
    PROVE  /\ Increasing(s \o t)
                <=> Increasing(s) /\ Increasing(t) /\ Below(s, t)
           /\ \A u \in Seq(Nat) :
                 /\ Below(s \o t, u) <=> Below(s, u) /\ Below(t, u)
                 /\ Below(u, s \o t) <=> Below(u, s) /\ Below(u, t)
<1> DEFINE st == s \o t
           m == Len(s)
           n == Len(t)
<1>0. /\ m \in Nat /\ n \in Nat
      /\ DOMAIN s = 1 .. m /\ DOMAIN t = 1 .. n
      /\ \A i \in 1 .. m : s[i] \in Nat
      /\ \A i \in 1 .. n : t[i] \in Nat
  BY LenProperties, ElementOfSeq
<1>1. /\ st \in Seq(Nat) /\ DOMAIN st = 1 .. m + n
      /\ \A i \in 1 .. m + n : st[i] = IF i <= m THEN s[i] ELSE t[i - m]
  BY ConcatProperties, LenProperties
<1> HIDE DEF st, m, n
<1>2. \A i \in 1 .. m : i \in DOMAIN st /\ st[i] = s[i]
  BY <1>0, <1>1
<1>3. \A i \in 1 .. n : m + i \in DOMAIN st /\ st[m + i] = t[i]
  <2> SUFFICES ASSUME NEW i \in 1 .. n
               PROVE  m + i \in DOMAIN st /\ st[m + i] = t[i]
    OBVIOUS
  <2>1. m + i \in 1 .. m + n /\ ~(m + i <= m) /\ (m + i) - m = i
    BY <1>0
  <2> QED BY <1>1, <2>1
<1>4. \A i \in DOMAIN st : \/ i \in 1 .. m
                           \/ i - m \in 1 .. n /\ i = m + (i - m)
  BY <1>0, <1>1
<1>5. Increasing(st) <=> Increasing(s) /\ Increasing(t) /\ Below(s, t)
  <2>1. ASSUME Increasing(st)
        PROVE  Increasing(s) /\ Increasing(t) /\ Below(s, t)
    <3>1. Increasing(s)
      BY <1>0, <1>2, <2>1 DEF Increasing
    <3>2. ASSUME NEW i \in 1 .. n, NEW j \in 1 .. n, i < j
          PROVE  t[i] < t[j]
      <4>1. m + i < m + j
        BY <1>0, <3>2
      <4>2. st[m + i] < st[m + j]
        BY <1>3, <2>1, <4>1 DEF Increasing
      <4> QED BY <1>3, <4>2
    <3>3. ASSUME NEW i \in 1 .. m, NEW j \in 1 .. n
          PROVE  s[i] < t[j]
      <4>1. i < m + j
        BY <1>0
      <4>2. st[i] < st[m + j]
        BY <1>2, <1>3, <2>1, <4>1 DEF Increasing
      <4> QED BY <1>2, <1>3, <4>2
    <3> QED BY <1>0, <3>1, <3>2, <3>3 DEF Increasing, Below
  <2>2. ASSUME Increasing(s), Increasing(t), Below(s, t),
               NEW i \in DOMAIN st, NEW j \in DOMAIN st, i < j
        PROVE  st[i] < st[j]
    <3>1. CASE i \in 1 .. m /\ j \in 1 .. m
      BY <1>0, <1>2, <2>2, <3>1 DEF Increasing
    <3>2. CASE i \in 1 .. m /\ j \notin 1 .. m
      <4>1. j - m \in 1 .. n /\ st[j] = t[j - m] /\ st[i] = s[i]
        BY <1>2, <1>3, <1>4, <3>2
      <4> QED BY <1>0, <2>2, <3>2, <4>1 DEF Below
    <3>3. CASE i \notin 1 .. m
      <4>1. j \notin 1 .. m
        BY <1>0, <1>1, <2>2, <3>3
      <4>2. /\ i - m \in 1 .. n /\ j - m \in 1 .. n
            /\ st[i] = t[i - m] /\ st[j] = t[j - m]
        BY <1>3, <1>4, <3>3, <4>1
      <4>3. i - m < j - m
        BY <1>0, <1>1, <2>2
      <4> QED BY <1>0, <2>2, <4>2, <4>3 DEF Increasing
    <3> QED BY <3>1, <3>2, <3>3
  <2> QED BY <2>1, <2>2 DEF Increasing
<1>6. \A i \in DOMAIN st : \/ \E k \in 1 .. m : st[i] = s[k]
                           \/ \E k \in 1 .. n : st[i] = t[k]
  <2> SUFFICES ASSUME NEW i \in DOMAIN st
               PROVE  \/ \E k \in 1 .. m : st[i] = s[k]
                      \/ \E k \in 1 .. n : st[i] = t[k]
    OBVIOUS
  <2>1. CASE i \in 1 .. m
    BY <1>2, <2>1
  <2>2. CASE i - m \in 1 .. n /\ i = m + (i - m)
    <3>1. st[m + (i - m)] = t[i - m]
      BY <1>3, <2>2
    <3> QED BY <2>2, <3>1
  <2> QED BY <1>4, <2>1, <2>2
<1>7. ASSUME NEW u \in Seq(Nat)
      PROVE  /\ Below(st, u) <=> Below(s, u) /\ Below(t, u)
             /\ Below(u, st) <=> Below(u, s) /\ Below(u, t)
  <2>1. Below(st, u) => Below(s, u) /\ Below(t, u)
    BY <1>0, <1>2, <1>3 DEF Below
  <2>2. Below(s, u) /\ Below(t, u) => Below(st, u)
    BY <1>0, <1>6 DEF Below
  <2>3. Below(u, st) => Below(u, s) /\ Below(u, t)
    BY <1>0, <1>2, <1>3 DEF Below
  <2>4. Below(u, s) /\ Below(u, t) => Below(u, st)
    BY <1>0, <1>6 DEF Below
  <2> QED BY <2>1, <2>2, <2>3, <2>4
<1> QED BY <1>5, <1>7 DEF st


-----------------------------------------------------------------------------
LEMMA RestIsRest ==
    ASSUME packets \in Seq(Packet), cursor \in 0 .. Len(packets)
    PROVE  /\ Rest \in Seq(Packet) /\ Len(Rest) \in Nat
           /\ Len(Rest) = Len(packets) - cursor /\ DOMAIN Rest = 1 .. Len(Rest)
           /\ \A i \in 1 .. Len(Rest) :
                 Rest[i] = packets[cursor + i] /\ Rest[i] \in Packet
<1>1. /\ Rest \in Seq(Packet) /\ Len(Rest) = Len(packets) - cursor
      /\ \A i \in 1 .. Len(packets) - cursor : Rest[i] = packets[cursor + i]
  BY Leaving DEF Rest
<1>2. /\ Len(Rest) \in Nat /\ DOMAIN Rest = 1 .. Len(Rest)
      /\ \A i \in 1 .. Len(Rest) : Rest[i] \in Packet
  BY <1>1, LenProperties, ElementOfSeq
<1> QED BY <1>1, <1>2

(* The next packet of a direction, seen from the cursor.                   *)
LEMMA NextIsFirst ==
    ASSUME packets \in Seq(Packet), cursor \in 0 .. Len(packets),
           NEW d, Ahead(d) # {}
    PROVE  \E k \in 1 .. Len(Rest) :
             /\ NextIndex(d) = cursor + k - 1
             /\ Rest[k].direction = d
             /\ \A i \in 1 .. k - 1 : Rest[i].direction # d
<1> DEFINE n == NextIndex(d)
           k == n + 1 - cursor
<1>1. cursor \in Nat /\ Len(packets) \in Nat /\ cursor <= Len(packets)
  BY LenProperties
<1>2. Ahead(d) \subseteq Nat
  BY <1>1 DEF Ahead
<1>3. n \in Ahead(d) /\ \A j \in Ahead(d) : n <= j
  BY <1>2, LeastNatural DEF NextIndex
<1> HIDE DEF n
<1>4. n \in cursor .. Len(packets) - 1 /\ packets[n + 1].direction = d
  BY <1>3 DEF Ahead
<1>5. k \in 1 .. Len(packets) - cursor /\ cursor + k = n + 1
      /\ n = cursor + k - 1
  BY <1>1, <1>4
<1>6. k \in 1 .. Len(Rest) /\ Rest[k] = packets[n + 1]
  BY <1>5, RestIsRest
<1>7. ASSUME NEW i \in 1 .. k - 1
      PROVE  Rest[i].direction # d
  <2>1. /\ cursor + i - 1 \in cursor .. Len(packets) - 1
        /\ (cursor + i - 1) + 1 = cursor + i
        /\ ~(n <= cursor + i - 1) /\ i \in 1 .. Len(packets) - cursor
    BY <1>1, <1>4
  <2>2. cursor + i - 1 \notin Ahead(d)
    BY <1>3, <2>1
  <2>3. packets[cursor + i].direction # d
    BY <2>1, <2>2 DEF Ahead
  <2> QED BY <2>1, <2>3, RestIsRest
<1> QED BY <1>4, <1>5, <1>6, <1>7 DEF n

-----------------------------------------------------------------------------
(* Numbering, with packets taken from or put in front.                     *)
LEMMA NumberedBehind ==
    ASSUME NEW ps \in Seq(Packet), Numbered(ps), NEW k \in 0 .. Len(ps)
    PROVE  Numbered(SubSeq(ps, k + 1, Len(ps)))
<1> DEFINE qs == SubSeq(ps, k + 1, Len(ps))
           N == Len(ps)
<1>1. /\ qs \in Seq(Packet) /\ Len(qs) = N - k
      /\ \A i \in 1 .. N - k : qs[i] = ps[k + i]
  BY Leaving
<1>2. /\ N \in Nat /\ DOMAIN ps = 1 .. N /\ DOMAIN qs = 1 .. N - k
  BY <1>1, LenProperties
<1> HIDE DEF qs, N
<1>3. \A i \in DOMAIN qs : k + i \in DOMAIN ps /\ qs[i] = ps[k + i]
  BY <1>1, <1>2
<1>4. \A i, j \in DOMAIN qs : i < j => k + i < k + j
  BY <1>2
<1>5. ASSUME NEW i \in DOMAIN qs, qs[i].direction = "RX"
      PROVE  /\ qs[i].data # <<>> /\ Increasing(qs[i].data)
             /\ \A j \in DOMAIN qs : i < j /\ qs[j].direction = "RX" =>
                   Below(qs[i].data, qs[j].data)
  BY <1>3, <1>4, <1>5 DEF Numbered
<1> QED BY <1>5 DEF Numbered, qs

LEMMA NumberedFront ==
    ASSUME NEW ps \in Seq(Packet), Numbered(ps), NEW e \in Packet,
           e.data # <<>>, Increasing(e.data),
           \A j \in DOMAIN ps :
              ps[j].direction = "RX" => Below(e.data, ps[j].data)
    PROVE  Numbered(<<e>> \o ps)
<1> DEFINE qs == <<e>> \o ps
           N == Len(ps)
<1>1. <<e>> \in Seq(Packet) /\ Len(<<e>>) = 1 /\ <<e>>[1] = e
  OBVIOUS
<1>2. /\ qs \in Seq(Packet) /\ Len(qs) = 1 + N
      /\ \A i \in 1 .. 1 + N : qs[i] = IF i <= 1 THEN <<e>>[i] ELSE ps[i - 1]
  BY <1>1, ConcatProperties
<1>3. N \in Nat /\ DOMAIN ps = 1 .. N /\ DOMAIN qs = 1 .. 1 + N
  BY <1>2, LenProperties
<1> HIDE DEF qs, N
<1>4. \A i \in DOMAIN qs : \/ i = 1 /\ qs[i] = e
                           \/ /\ i # 1 /\ i - 1 \in DOMAIN ps
                              /\ qs[i] = ps[i - 1]
  BY <1>1, <1>2, <1>3
<1>5. ASSUME NEW i \in DOMAIN qs, qs[i].direction = "RX"
      PROVE  /\ qs[i].data # <<>> /\ Increasing(qs[i].data)
             /\ \A j \in DOMAIN qs : i < j /\ qs[j].direction = "RX" =>
                   Below(qs[i].data, qs[j].data)
  <2>1. CASE i = 1
    <3>1. qs[i] = e
      BY <1>4, <2>1
    <3>2. \A j \in DOMAIN qs : i < j =>
             j - 1 \in DOMAIN ps /\ qs[j] = ps[j - 1]
      BY <1>4, <2>1
    <3> QED BY <3>1, <3>2
  <2>2. CASE i # 1
    <3>1. i - 1 \in DOMAIN ps /\ qs[i] = ps[i - 1]
      BY <1>4, <2>2
    <3>2. \A j \in DOMAIN qs : i < j =>
             /\ j - 1 \in DOMAIN ps /\ qs[j] = ps[j - 1] /\ i - 1 < j - 1
      BY <1>3, <1>4, <2>2
    <3> QED BY <1>5, <3>1, <3>2 DEF Numbered
  <2> QED BY <2>1, <2>2
<1> QED BY <1>5 DEF Numbered, qs

-----------------------------------------------------------------------------
(* What is left of the list when the cursor passes k more of its packets.  *)
LEMMA RestBehind ==
    ASSUME packets \in Seq(Packet), cursor \in 0 .. Len(packets),
           NEW k \in 0 .. Len(Rest), UNCHANGED packets, cursor' = cursor + k
    PROVE  /\ Rest' = SubSeq(Rest, k + 1, Len(Rest))
           /\ cursor' \in 0 .. Len(packets')
<1>1. SubSeq(Rest, k + 1, Len(Rest))
        = SubSeq(packets, (cursor + k) + 1, Len(packets))
  BY LeavingTwice DEF Rest
<1>2. Rest' = SubSeq(packets', cursor' + 1, Len(packets'))
  BY DEF Rest
<1>3. cursor + k \in 0 .. Len(packets)
  BY RestIsRest, LenProperties
<1> QED BY <1>1, <1>2, <1>3

(* A send that goes through consumes the next recorded request.            *)
LEMMA SendConsumes ==
    ASSUME Types, NEW payload, Send(payload)
    PROVE  \E k \in 1 .. Len(Rest) :
             /\ Rest[k].direction = "TX"
             /\ \A i \in 1 .. k - 1 : Rest[i].direction # "TX"
             /\ UNCHANGED packets /\ cursor' = cursor + k
             /\ Rest[k].data = payload \/ (~strict /\ mismatches' # <<>>)
             /\ (mismatches' = <<>> => mismatches = <<>>)
<1>1. packets \in Seq(Packet) /\ cursor \in 0 .. Len(packets)
  BY DEF Types
<1>2. PICK k \in 1 .. Len(Rest) :
             /\ NextIndex("TX") = cursor + k - 1
             /\ Rest[k].direction = "TX"
             /\ \A i \in 1 .. k - 1 : Rest[i].direction # "TX"
  BY <1>1, NextIsFirst DEF Send
<1> DEFINE n == NextIndex("TX")
<1>3. n + 1 = cursor + k /\ cursor + k \in Nat
  BY <1>1, <1>2, RestIsRest, LenProperties
<1>4. packets[n + 1].data = Rest[k].data
  BY <1>1, <1>3, RestIsRest
<1>5. /\ Acceptable(n, payload) /\ NoteMismatch(n, payload)
      /\ cursor' = n + 1 /\ UNCHANGED packets
  BY DEF Send
<1> HIDE DEF n
<1>6. CASE Matches(n, payload)
  BY <1>2, <1>3, <1>4, <1>5, <1>6 DEF Matches, NoteMismatch
<1>7. CASE ~Matches(n, payload)
  <2>1. ~strict /\ mismatches' = Append(mismatches, <<n, payload>>)
    BY <1>5, <1>7 DEF Acceptable, NoteMismatch
  <2>2. mismatches' # <<>>
    BY <2>1
  <2> QED BY <1>2, <1>3, <1>5, <2>1, <2>2
<1> QED BY <1>6, <1>7

LEMMA ListInserted ==
    ASSUME packets \in Seq(Packet), NEW i \in 1 .. Len(packets) + 1,
           NEW e \in Packet
    PROVE  /\ InsertAt(packets, i, e) \in Seq(Packet)
           /\ Len(InsertAt(packets, i, e)) = Len(packets) + 1
           /\ \A j \in 1 .. Len(packets) + 1 :
                 InsertAt(packets, i, e)[j]
                   = IF j < i THEN packets[j]
                     ELSE IF j = i THEN e ELSE packets[j - 1]
           /\ SubSeq(InsertAt(packets, i, e), i, Len(packets) + 1)
                 = <<e>> \o SubSeq(packets, i, Len(packets))
BY InsertingAt

(* A read takes the head of the next reply, and leaves the rest of it.     *)
Splits(k, chunk, e) ==
    /\ e \in Packet /\ e.direction = "RX" /\ e.data # <<>>
    /\ Rest[k].data = chunk \o e.data
    /\ packets' = InsertAt(packets, cursor + k + 1, e)
    /\ Rest' = <<e>> \o SubSeq(Rest, k + 1, Len(Rest))

Empties(k, chunk) ==
    /\ Rest[k].data = chunk
    /\ UNCHANGED packets
    /\ Rest' = SubSeq(Rest, k + 1, Len(Rest))

Takes(k, chunk) ==
    /\ Rest[k].direction = "RX"
    /\ \A i \in 1 .. k - 1 : Rest[i].direction # "RX"
    /\ chunk # <<>>
    /\ read' = read \o chunk /\ shown_rx' = shown_rx + Len(chunk)
    /\ cursor' = cursor + k /\ cursor' \in 0 .. Len(packets')
    /\ Empties(k, chunk) \/ \E e \in Packet : Splits(k, chunk, e)

LEMMA ReceiveTakes ==
    ASSUME Types, Loaded, NEW size \in Nat \ {0}, Receive(size)
    PROVE  \E k \in 1 .. Len(Rest), chunk \in Seq(Nat) : Takes(k, chunk)
<1>1. packets \in Seq(Packet) /\ cursor \in 0 .. Len(packets)
  BY DEF Types
<1>2. PICK k \in 1 .. Len(Rest) :
             /\ NextIndex("RX") = cursor + k - 1
             /\ Rest[k].direction = "RX"
             /\ \A i \in 1 .. k - 1 : Rest[i].direction # "RX"
  BY <1>1, NextIsFirst DEF Receive
<1> DEFINE n     == NextIndex("RX")
           p     == packets[n + 1]
           N     == Len(p.data)
           chunk == SubSeq(p.data, 1, IF N > size THEN size ELSE N)
           rest  == SubSeq(p.data, size + 1, N)
           e     == [p EXCEPT !.data = rest]
<1>3. /\ n + 1 = cursor + k /\ n + 2 = cursor + k + 1
      /\ cursor + k \in 1 .. Len(packets) /\ Len(packets) \in Nat
  BY <1>1, <1>2, RestIsRest, LenProperties
<1>4. p = Rest[k] /\ p \in Packet
  BY <1>1, <1>3, RestIsRest
<1>5. /\ packets' = KeepRest(n, size) /\ cursor' = n + 1
      /\ read' = read \o chunk /\ shown_rx' = shown_rx + Len(chunk)
  BY DEF Receive
<1>6. KeepRest(n, size) = IF N <= size THEN packets
                          ELSE InsertAt(packets, n + 2, e)
  BY DEF KeepRest
<1>7. p.data \in Seq(Nat) /\ p.data # <<>> /\ N \in Nat /\ N # 0
  <2>1. p.data \in Seq(Nat)
    BY <1>4 DEF Packet
  <2>2. n + 1 \in DOMAIN packets
    BY <1>1, <1>3, LenProperties
  <2>3. p.data # <<>>
    BY <1>2, <1>4, <2>2 DEF Loaded
  <2> QED BY <2>1, <2>3, EmptySeq, LenProperties
<1> HIDE DEF n, p
<1>8. CASE N <= size
  <2>1. chunk = p.data
    <3>1. ~(N > size)
      BY <1>7, <1>8
    <3>2. chunk = SubSeq(p.data, 1, N)
      BY <3>1
    <3> QED BY <1>7, <3>2, SubSeqFull
  <2>2. UNCHANGED packets /\ cursor' = cursor + k
    BY <1>3, <1>5, <1>6, <1>8
  <2>3. k \in 0 .. Len(Rest)
    OBVIOUS
  <2>4. /\ Rest' = SubSeq(Rest, k + 1, Len(Rest))
        /\ cursor' \in 0 .. Len(packets')
    BY <1>1, <2>2, <2>3, RestBehind
  <2>5. Empties(k, p.data)
    BY <1>4, <2>2, <2>4 DEF Empties
  <2> HIDE DEF chunk, N
  <2> QED BY <1>2, <1>5, <1>7, <2>1, <2>2, <2>4, <2>5 DEF Takes
<1>9. CASE ~(N <= size)
  <2>1. /\ N > size /\ chunk = SubSeq(p.data, 1, size)
    BY <1>7, <1>9
  <2>2. /\ chunk \in Seq(Nat) /\ Len(chunk) = size
        /\ rest \in Seq(Nat) /\ Len(rest) = N - size
        /\ chunk \o rest = p.data
    <3>1. size \in 0 .. N
      BY <1>7, <2>1
    <3>2. rest \in Seq(Nat) /\ Len(rest) = N - size
      BY <1>7, <3>1, Leaving
    <3>3. \A i \in 1 .. size : p.data[i] \in Nat
      BY <1>7, <3>1, ElementOfSeq
    <3>4. SubSeq(p.data, 1, size) \in Seq(Nat)
          /\ Len(SubSeq(p.data, 1, size)) = size
      BY <3>1, <3>3, <1>7, SubSeqProperties
    <3>5. SubSeq(p.data, 1, size) \o SubSeq(p.data, size + 1, N)
            = SubSeq(p.data, 1, N)
      <4>1. 1 \in 1 .. N + 1 /\ size \in 1 - 1 .. N /\ N \in size .. N
        BY <1>7, <3>1
      <4> QED BY <1>7, <4>1, ConcatAdjacentSubSeq
    <3>6. SubSeq(p.data, 1, N) = p.data
      BY <1>7, SubSeqFull
    <3> QED BY <2>1, <3>2, <3>4, <3>5, <3>6
  <2> HIDE DEF chunk, rest, N
  <2>3. rest # <<>> /\ chunk # <<>>
    <3>1. Len(rest) # 0 /\ Len(chunk) # 0
      BY <1>7, <2>1, <2>2
    <3>2. Len(<<>>) = 0
      OBVIOUS
    <3> QED BY <3>1, <3>2
  <2>4. e \in Packet /\ e.direction = "RX" /\ e.data = rest
    BY <1>2, <1>4, <2>2 DEF Packet
  <2>5. packets' = InsertAt(packets, cursor + k + 1, e)
    BY <1>3, <1>5, <1>6, <1>9
  <2> HIDE DEF e
  <2>6. /\ Len(packets') = Len(packets) + 1
        /\ SubSeq(packets', cursor + k + 1, Len(packets) + 1)
              = <<e>> \o SubSeq(packets, cursor + k + 1, Len(packets))
    <3> DEFINE i == cursor + k + 1
    <3>1. i \in 1 .. Len(packets) + 1
      BY <1>3
    <3> HIDE DEF i
    <3>2. /\ Len(InsertAt(packets, i, e)) = Len(packets) + 1
          /\ SubSeq(InsertAt(packets, i, e), i, Len(packets) + 1)
                = <<e>> \o SubSeq(packets, i, Len(packets))
      BY <1>1, <2>4, <3>1, ListInserted
    <3> QED BY <2>5, <3>2 DEF i
  <2>7. cursor' = cursor + k /\ cursor' \in 0 .. Len(packets')
    <3>1. cursor' = cursor + k
      BY <1>3, <1>5
    <3>2. cursor + k \in 0 .. Len(packets) + 1
      BY <1>3
    <3> QED BY <2>6, <3>1, <3>2
  <2>8. Rest' = <<e>> \o SubSeq(Rest, k + 1, Len(Rest))
    <3>1. SubSeq(Rest, k + 1, Len(Rest))
            = SubSeq(packets, (cursor + k) + 1, Len(packets))
      <4>1. k \in 0 .. Len(Rest)
        OBVIOUS
      <4> QED BY <1>1, <4>1, LeavingTwice DEF Rest
    <3>2. Rest' = SubSeq(packets', cursor' + 1, Len(packets'))
      BY DEF Rest
    <3> QED BY <2>6, <2>7, <3>1, <3>2
  <2>9. Splits(k, chunk, e)
    BY <1>4, <2>2, <2>3, <2>4, <2>5, <2>8 DEF Splits
  <2> QED BY <1>2, <1>5, <2>2, <2>3, <2>4, <2>7, <2>9 DEF Takes
<1> QED BY <1>8, <1>9

-----------------------------------------------------------------------------
LEMMA CaptureTyped ==
    ASSUME Types
    PROVE  /\ capture \in Seq(Packet) /\ Numbered(capture)
           /\ Payloads \cup Requests \subseteq Seq(Nat)
<1>1. capture \in Seq(Packet) /\ Numbered(capture)
  BY ReplayAssumption DEF Types
<1>2. ASSUME NEW r \in Requests
      PROVE  r \in Seq(Nat)
  <2>1. PICK q \in ToSet(capture) : r = q.data
    BY DEF Requests
  <2>2. PICK i \in DOMAIN capture : q = capture[i]
    BY DEF ToSet
  <2>3. q \in Packet
    BY <1>1, <2>2, ElementOfSeq, LenProperties
  <2> QED BY <2>1, <2>3 DEF Packet
<1> QED BY <1>1, <1>2, ReplayAssumption

(* What holds of any pass over a list at its start.                        *)
Fresh ==
    /\ capture \in Seq(Packet) /\ Numbered(capture) /\ Len(capture) \in Nat
    /\ packets \in Seq(Packet) /\ Loaded
    /\ cursor = 0 /\ read = <<>> /\ wrote = <<>>
    /\ (grown <=> Len(packets) > Len(capture))

LEMMA FreshPass == Fresh => Ordered /\ Whole /\ Consumed
<1> SUFFICES ASSUME Fresh PROVE Ordered /\ Whole /\ Consumed
  OBVIOUS
<1> USE DEF Fresh
<1>1. Len(packets) \in Nat /\ Rest = packets
  <2>1. SubSeq(packets, 1, Len(packets)) = packets
    BY SubSeqFull
  <2>2. Len(packets) \in Nat
    BY LenProperties
  <2>3. Rest = SubSeq(packets, 1, Len(packets))
    BY DEF Rest
  <2> QED BY <2>1, <2>2, <2>3
<1>2. ~grown => packets = capture
  BY <1>1 DEF Loaded
<1>3. /\ Increasing(<<>>) /\ DOMAIN <<>> = {}
      /\ \A s \in Seq(Nat) : Below(<<>>, s)
  BY DEF Increasing, Below
<1>4. Ordered
  <2>1. ASSUME NEW i \in DOMAIN Rest
        PROVE  Below(read, Rest[i].data)
    BY <1>3 DEF Below
  <2> QED BY <1>1, <1>2, <1>3, <2>1 DEF Ordered
<1>5. Whole
  <2>1. Received(capture) \in Seq(Seq(Nat))
    <3>1. ASSUME NEW i \in 1 .. Len(capture)
          PROVE  (IF capture[i].direction = "RX" THEN capture[i].data
                                                 ELSE <<>>) \in Seq(Nat)
      <4>1. capture[i] \in Packet
        BY ElementOfSeq
      <4> QED BY <4>1, EmptySeq DEF Packet
    <3>2. DOMAIN capture = 1 .. Len(capture)
      BY LenProperties
    <3> QED BY <3>1, <3>2, IsASeq DEF Received
  <2>2. FlattenSeq(Received(capture)) \in Seq(Nat)
    BY <2>1, FlattenKeepsType
  <2>3. <<>> \o FlattenSeq(Received(capture)) = FlattenSeq(Received(capture))
    BY <2>2, ConcatEmptySeq
  <2> QED BY <1>1, <1>2, <2>3 DEF Whole
<1>6. Consumed
  <2> DEFINE none == [i \in {} |-> 0]
  <2>1. DOMAIN wrote = {}
    BY <1>3
  <2>2. none \in [DOMAIN wrote -> 1 .. cursor] /\ Increasing(none)
    BY <2>1 DEF Increasing
  <2>3. Consumes(packets, none)
    BY <2>1, <2>2 DEF Consumes
  <2> QED BY <2>3 DEF Consumed
<1> QED BY <1>4, <1>5, <1>6

LEMMA InitEstablishesReplayInv == Init => ReplayInv
<1> SUFFICES ASSUME Init PROVE ReplayInv
  OBVIOUS
<1>1. /\ capture \in Captures /\ capture \in Seq(Packet) /\ Numbered(capture)
      /\ packets = capture /\ Len(capture) \in Nat
      /\ DOMAIN packets = 1 .. Len(packets)
  BY ReplayAssumption, LenProperties DEF Init
<1>2. Types
  <2>1. <<>> \in Seq(Nat) /\ <<>> \in Seq(Seq(Nat))
    BY EmptySeq
  <2> QED BY <1>1, <2>1 DEF Init, Types
<1>3. Loaded
  BY <1>1 DEF Loaded, Numbered
<1>4. Ordered /\ Whole /\ Consumed
  <2>1. /\ cursor = 0 /\ read = <<>> /\ wrote = <<>>
        /\ (grown <=> Len(packets) > Len(capture))
    BY <1>1 DEF Init
  <2>2. Fresh
    BY <1>1, <1>3, <2>1 DEF Fresh
  <2> QED BY <2>2, FreshPass
<1>5. Originates
  <2> DEFINE same == [i \in DOMAIN packets |-> i]
  <2>1. /\ same \in [DOMAIN packets -> DOMAIN capture]
        /\ \A i \in DOMAIN packets : same[i] = i
    BY <1>1
  <2>2. \A i, j \in DOMAIN packets : i < j => i <= j
    BY <1>1
  <2> HIDE DEF same
  <2>3. From(packets, capture, same)
    BY <1>1, <2>1, <2>2 DEF From
  <2> QED BY <2>3 DEF Originates
<1> QED BY <1>2, <1>3, <1>4, <1>5 DEF ReplayInv

-----------------------------------------------------------------------------
(* Connecting and rewinding start a pass over the list as it is.           *)
LEMMA StartKeepsReplayInv ==
    ASSUME ReplayInv, StartPass, UNCHANGED <<packets, capture, strict>>,
           state' \in {state, "connected"}, UNCHANGED shown
    PROVE  ReplayInv'
<1>1. /\ capture \in Captures /\ capture \in Seq(Packet) /\ Numbered(capture)
      /\ packets \in Seq(Packet) /\ Len(capture) \in Nat
      /\ Len(packets) \in Nat
  BY CaptureTyped, LenProperties DEF ReplayInv, Types
<1>2. Types'
  <2>1. <<>> \in Seq(Nat) /\ <<>> \in Seq(Seq(Nat))
    BY EmptySeq
  <2> QED BY <1>1, <2>1 DEF ReplayInv, Types, StartPass, shown
<1>3. Loaded' /\ Originates'
  BY DEF ReplayInv, Loaded, Originates
<1>4. /\ cursor' = 0 /\ read' = <<>> /\ wrote' = <<>>
      /\ (grown' <=> Len(packets') > Len(capture'))
  BY DEF StartPass
<1>5. Ordered' /\ Whole' /\ Consumed'
  <2>1. /\ capture' \in Seq(Packet) /\ Numbered(capture)'
        /\ packets' \in Seq(Packet) /\ Len(capture') \in Nat
    BY <1>1 DEF Numbered
  <2>2. Fresh'
    BY <1>3, <1>4, <2>1 DEF Fresh
  <2>3. Fresh' => (Ordered /\ Whole /\ Consumed)'
    BY FreshPass, PTL
  <2> QED BY <2>2, <2>3
<1> QED BY <1>2, <1>3, <1>5 DEF ReplayInv

(* A call that fails before it moves the cursor changes no history.        *)
LEMMA StandingKeepsReplayInv ==
    ASSUME ReplayInv, UNCHANGED <<packets, cursor, given, pass, shown>>,
           state' \in {state, "error", "disconnected"},
           strict \/ UNCHANGED mismatches
    PROVE  ReplayInv'
<1>1. UNCHANGED <<packets, cursor, strict, capture, read, wrote, grown,
                  shown_tx, shown_rx>> /\ Rest' = Rest
  BY DEF given, pass, shown, Rest
<1>2. Types'
  BY <1>1 DEF ReplayInv, Types
<1>3. Loaded' /\ Originates'
  BY <1>1 DEF ReplayInv, Loaded, Originates
<1>4. Ordered' /\ Whole'
  BY <1>1 DEF ReplayInv, Ordered, Whole
<1>5. Consumed'
  BY <1>1 DEF ReplayInv, Consumed, Consumes
<1> QED BY <1>2, <1>3, <1>4, <1>5 DEF ReplayInv

-----------------------------------------------------------------------------
(* The bytes of a list of packets, from its front.                         *)
LEMMA ReceivedTyped ==
    ASSUME NEW ps \in Seq(Packet)
    PROVE  /\ Received(ps) \in Seq(Seq(Nat)) /\ Len(Received(ps)) = Len(ps)
           /\ \A i \in 1 .. Len(ps) :
                 Received(ps)[i] = IF ps[i].direction = "RX" THEN ps[i].data
                                                            ELSE <<>>
<1> DEFINE e(i) == IF ps[i].direction = "RX" THEN ps[i].data ELSE <<>>
           N    == Len(ps)
           r    == [i \in 1 .. N |-> e(i)]
<1>1. N \in Nat /\ DOMAIN ps = 1 .. N /\ \A i \in 1 .. N : ps[i] \in Packet
  BY LenProperties, ElementOfSeq
<1>2. \A i \in 1 .. N : e(i) \in Seq(Nat)
  BY <1>1, EmptySeq DEF Packet
<1>3. Received(ps) = r
  BY <1>1 DEF Received
<1>4. \A i \in 1 .. N : r[i] = e(i)
  OBVIOUS
<1>5. r \in [1 .. N -> Seq(Nat)]
  BY <1>2
<1> HIDE DEF e, r, N
<1>6. r \in Seq(Seq(Nat)) /\ Len(r) = N
  BY <1>1, <1>5
<1> QED BY <1>3, <1>4, <1>6 DEF e, N

LEMMA ReceivedFront ==
    ASSUME NEW ps \in Seq(Packet), NEW e \in Packet, e.direction = "RX"
    PROVE  FlattenSeq(Received(<<e>> \o ps))
             = e.data \o FlattenSeq(Received(ps))
<1> DEFINE qs == <<e>> \o ps
           a  == Received(qs)
           b  == <<e.data>> \o Received(ps)
           N  == Len(ps)
<1>1. /\ <<e>> \in Seq(Packet) /\ Len(<<e>>) = 1 /\ <<e>>[1] = e
      /\ e.data \in Seq(Nat) /\ <<e.data>> \in Seq(Seq(Nat))
      /\ Len(<<e.data>>) = 1 /\ <<e.data>>[1] = e.data
  BY DEF Packet
<1>2. /\ qs \in Seq(Packet) /\ Len(qs) = 1 + N /\ N \in Nat
      /\ \A i \in 1 .. 1 + N : qs[i] = IF i <= 1 THEN <<e>>[i] ELSE ps[i - 1]
  BY <1>1, ConcatProperties, LenProperties
<1>3. /\ Received(ps) \in Seq(Seq(Nat)) /\ Len(Received(ps)) = N
      /\ \A i \in 1 .. N :
            Received(ps)[i] = IF ps[i].direction = "RX" THEN ps[i].data
                                                        ELSE <<>>
  BY ReceivedTyped
<1>4. /\ b \in Seq(Seq(Nat)) /\ Len(b) = 1 + N
      /\ \A i \in 1 .. 1 + N :
            b[i] = IF i <= 1 THEN <<e.data>>[i] ELSE Received(ps)[i - 1]
  <2> DEFINE front == <<e.data>>
             rest  == Received(ps)
  <2>1. front \in Seq(Seq(Nat)) /\ rest \in Seq(Seq(Nat))
    BY <1>1, <1>3
  <2>2. Len(front) = 1 /\ Len(rest) = N
    BY <1>1, <1>3
  <2> HIDE DEF front, rest
  <2>3. /\ front \o rest \in Seq(Seq(Nat))
        /\ Len(front \o rest) = Len(front) + Len(rest)
        /\ \A i \in 1 .. Len(front) + Len(rest) :
              (front \o rest)[i] = IF i <= Len(front) THEN front[i]
                                   ELSE rest[i - Len(front)]
    BY <2>1, ConcatProperties
  <2>4. b = front \o rest
    BY DEF front, rest
  <2> HIDE DEF b
  <2>5. /\ b \in Seq(Seq(Nat)) /\ Len(b) = 1 + N
        /\ \A i \in 1 .. 1 + N :
              b[i] = IF i <= 1 THEN front[i] ELSE rest[i - 1]
    BY <2>2, <2>3, <2>4
  <2> QED BY <2>5 DEF front, rest
<1> HIDE DEF qs, b, N
<1>5. /\ a \in Seq(Seq(Nat)) /\ Len(a) = 1 + N
      /\ \A i \in 1 .. 1 + N :
            a[i] = IF qs[i].direction = "RX" THEN qs[i].data ELSE <<>>
  BY <1>2, ReceivedTyped
<1> HIDE DEF a
<1>6. ASSUME NEW i \in 1 .. 1 + N
      PROVE  a[i] = b[i]
  <2>1. CASE i = 1
    <3>1. qs[i] = e /\ b[i] = e.data
      BY <1>1, <1>2, <1>4, <2>1
    <3> QED BY <1>5, <3>1
  <2>2. CASE i # 1
    <3>1. i - 1 \in 1 .. N /\ ~(i <= 1)
      BY <1>2, <2>2
    <3>2. qs[i] = ps[i - 1] /\ b[i] = Received(ps)[i - 1]
      BY <1>2, <1>4, <3>1
    <3> QED BY <1>3, <1>5, <3>1, <3>2
  <2> QED BY <2>1, <2>2
<1>7. a = b
  BY <1>4, <1>5, <1>6, SeqEqual
<1>8. FlattenSeq(b) = e.data \o FlattenSeq(Received(ps))
  BY <1>1, <1>3, FlattenPrepend DEF b
<1> QED BY <1>7, <1>8 DEF a, qs

LEMMA ReceivedNext ==
    ASSUME NEW ps \in Seq(Packet), NEW k \in 1 .. Len(ps),
           ps[k].direction = "RX",
           \A i \in 1 .. k - 1 : ps[i].direction # "RX"
    PROVE  FlattenSeq(Received(ps))
             = ps[k].data
                 \o FlattenSeq(Received(SubSeq(ps, k + 1, Len(ps))))
<1> DEFINE q  == Received(ps)
           N  == Len(ps)
           qs == SubSeq(ps, k + 1, N)
           j  == k - 1
<1>1. N \in Nat /\ k \in 1 .. N /\ k \in 0 .. N /\ j \in 0 .. N /\ j + 1 = k
  BY LenProperties
<1>2. /\ q \in Seq(Seq(Nat)) /\ Len(q) = N
      /\ \A i \in 1 .. N :
            q[i] = IF ps[i].direction = "RX" THEN ps[i].data ELSE <<>>
  BY ReceivedTyped
<1>3. /\ qs \in Seq(Packet) /\ Len(qs) = N - k
      /\ \A i \in 1 .. N - k : qs[i] = ps[k + i]
  BY <1>1, Leaving
<1>4. /\ Received(qs) \in Seq(Seq(Nat)) /\ Len(Received(qs)) = N - k
      /\ \A i \in 1 .. N - k :
            Received(qs)[i] = IF qs[i].direction = "RX" THEN qs[i].data
                                                        ELSE <<>>
  BY <1>3, ReceivedTyped
<1> HIDE DEF q, qs, N, j
<1>5. /\ SubSeq(q, k + 1, N) \in Seq(Seq(Nat))
      /\ Len(SubSeq(q, k + 1, N)) = N - k
      /\ \A i \in 1 .. N - k : SubSeq(q, k + 1, N)[i] = q[k + i]
  BY <1>1, <1>2, Leaving
<1>6. SubSeq(q, k + 1, N) = Received(qs)
  <2>1. ASSUME NEW i \in 1 .. N - k
        PROVE  SubSeq(q, k + 1, N)[i] = Received(qs)[i]
    <3>1. k + i \in 1 .. N
      BY <1>1
    <3> QED BY <1>2, <1>3, <1>4, <1>5, <3>1
  <2> QED BY <1>4, <1>5, <2>1, SeqEqual
<1>7. FlattenSeq(q) = FlattenSeq(SubSeq(q, j + 1, N))
  <2>1. \A i \in 1 .. j : q[i] = <<>>
    <3>1. \A i \in 1 .. j : i \in 1 .. N /\ i \in 1 .. k - 1
      BY <1>1
    <3> QED BY <1>2, <3>1
  <2> QED BY <1>1, <1>2, <2>1, FlattenSkips
<1>8. SubSeq(q, k, N) = <<q[k]>> \o SubSeq(q, k + 1, N)
  <2>1. k \in 1 .. Len(q) /\ N \in k .. Len(q)
    BY <1>1, <1>2
  <2> QED BY <1>2, <2>1, SubSeqRecursiveFirst
<1>9. q[k] = ps[k].data /\ q[k] \in Seq(Nat)
  BY <1>1, <1>2, ElementOfSeq
<1>10. FlattenSeq(<<q[k]>> \o Received(qs)) = q[k] \o FlattenSeq(Received(qs))
  BY <1>4, <1>9, FlattenPrepend
<1> QED BY <1>1, <1>6, <1>7, <1>8, <1>9, <1>10 DEF q, qs, N

-----------------------------------------------------------------------------
(* A send passes over packets and uses up one request.                     *)
LEMMA SendKeepsReplayInv ==
    ASSUME ReplayInv, NEW payload \in Payloads \cup Requests, Send(payload)
    PROVE  ReplayInv'
<1>1. PICK k \in 1 .. Len(Rest) :
             /\ Rest[k].direction = "TX"
             /\ \A i \in 1 .. k - 1 : Rest[i].direction # "TX"
             /\ UNCHANGED packets /\ cursor' = cursor + k
             /\ Rest[k].data = payload \/ (~strict /\ mismatches' # <<>>)
             /\ (mismatches' = <<>> => mismatches = <<>>)
  BY SendConsumes DEF ReplayInv
<1>2. /\ packets \in Seq(Packet) /\ cursor \in 0 .. Len(packets)
      /\ cursor \in Nat /\ payload \in Seq(Nat) /\ wrote \in Seq(Seq(Nat))
      /\ k \in 0 .. Len(Rest) /\ Len(wrote) \in Nat
  BY CaptureTyped, LenProperties DEF ReplayInv, Types
<1>3. /\ Rest' = SubSeq(Rest, k + 1, Len(Rest))
      /\ cursor' \in 0 .. Len(packets')
  BY <1>1, <1>2, RestBehind
<1>4. /\ wrote' = Append(wrote, payload) /\ shown_tx' = shown_tx + Len(payload)
      /\ UNCHANGED <<state, strict, capture, read, grown, shown_rx>>
  BY DEF Send, given
<1>5. /\ Rest \in Seq(Packet) /\ Len(Rest) \in Nat
      /\ DOMAIN Rest = 1 .. Len(Rest)
      /\ \A i \in 1 .. Len(Rest) :
            Rest[i] = packets[cursor + i] /\ Rest[i] \in Packet
  BY <1>2, RestIsRest
<1>6. /\ wrote' \in Seq(Seq(Nat)) /\ wrote' # <<>>
      /\ Len(wrote') = Len(wrote) + 1
      /\ \A i \in 1 .. Len(wrote) : wrote'[i] = wrote[i]
      /\ wrote'[Len(wrote) + 1] = payload
      /\ DOMAIN wrote = 1 .. Len(wrote)
      /\ DOMAIN wrote' = 1 .. Len(wrote) + 1
  <2> DEFINE w == Append(wrote, payload)
  <2>1. /\ w \in Seq(Seq(Nat)) /\ Len(w) = Len(wrote) + 1
        /\ \A i \in 1 .. Len(wrote) : w[i] = wrote[i]
        /\ w[Len(wrote) + 1] = payload
    BY <1>2, AppendProperties
  <2>2. wrote' = w
    BY <1>4
  <2> HIDE DEF w
  <2>3. w # <<>>
    BY <1>2, <2>1
  <2> QED BY <1>2, <2>1, <2>2, <2>3, LenProperties
<1>7. Types'
  BY <1>1, <1>2, <1>3, <1>4, <1>6, LenProperties DEF ReplayInv, Types
<1>8. Loaded' /\ Originates'
  BY <1>1, <1>4 DEF ReplayInv, Loaded, Originates
<1>9. Ordered'
  <2> SUFFICES ASSUME ~grown
               PROVE  /\ Increasing(read) /\ Numbered(Rest')
                      /\ \A i \in DOMAIN Rest' :
                            Rest'[i].direction = "RX"
                              => Below(read, Rest'[i].data)
    BY <1>4 DEF Ordered
  <2>1. Increasing(read) /\ Numbered(Rest)
    BY DEF ReplayInv, Ordered
  <2>2. Numbered(Rest')
    BY <1>2, <1>3, <1>5, <2>1, NumberedBehind
  <2>3. \A i \in DOMAIN Rest' : k + i \in DOMAIN Rest /\ Rest'[i] = Rest[k + i]
    <3> DEFINE r == SubSeq(Rest, k + 1, Len(Rest))
    <3>1. /\ r \in Seq(Packet) /\ Len(r) = Len(Rest) - k
          /\ \A i \in 1 .. Len(Rest) - k : r[i] = Rest[k + i]
      BY <1>2, <1>5, Leaving
    <3>2. DOMAIN r = 1 .. Len(Rest) - k
      BY <3>1, LenProperties
    <3>3. Rest' = r
      BY <1>3
    <3> HIDE DEF r
    <3>4. \A i \in 1 .. Len(Rest) - k :
             k + i \in DOMAIN Rest /\ r[i] = Rest[k + i]
      BY <1>2, <1>5, <3>1
    <3> QED BY <3>2, <3>3, <3>4
  <2>4. \A i \in DOMAIN Rest :
           Rest[i].direction = "RX" => Below(read, Rest[i].data)
    BY DEF ReplayInv, Ordered
  <2> QED BY <2>1, <2>2, <2>3, <2>4
<1>10. Whole'
  BY <1>6 DEF Whole
<1>11. Consumed'
  <2> SUFFICES ASSUME strict \/ mismatches' = <<>>
               PROVE  \E at : Consumes(packets, at)'
    BY <1>4 DEF Consumed
  <2>1. PICK at : Consumes(packets, at)
    BY <1>1 DEF ReplayInv, Consumed
  <2> DEFINE n   == Len(wrote)
             at1 == [i \in 1 .. n + 1 |-> IF i = n + 1 THEN cursor + k ELSE at[i]]
  <2>2. /\ at \in [1 .. n -> 1 .. cursor] /\ Increasing(at)
        /\ \A i \in 1 .. n :
              packets[at[i]] = [direction |-> "TX", data |-> wrote[i]]
    BY <1>6, <2>1 DEF Consumes
  <2>3. /\ Rest[k] = [direction |-> "TX", data |-> payload]
        /\ packets[cursor + k] = Rest[k]
    <3>1. Rest[k].data = payload
      BY <1>1
    <3> QED BY <1>1, <1>5, <3>1 DEF Packet
  <2>4. /\ at1[n + 1] = cursor + k /\ \A i \in 1 .. n : at1[i] = at[i]
        /\ at1 \in [1 .. n + 1 -> 1 .. cursor + k]
    BY <1>2, <1>5, <2>2
  <2>5. n \in Nat /\ \A i \in 1 .. n + 1 : i \in 1 .. n \/ i = n + 1
    BY <1>2
  <2> HIDE DEF at1, n
  <2>6. Increasing(at1)
    <3>1. DOMAIN at1 = 1 .. n + 1 /\ DOMAIN at = 1 .. n
      BY <2>2, <2>4
    <3>2. ASSUME NEW i \in 1 .. n + 1, NEW j \in 1 .. n + 1, i < j
          PROVE  at1[i] < at1[j]
      <4>1. i \in 1 .. n /\ at1[i] = at[i] /\ at[i] \in 1 .. cursor
        BY <2>2, <2>4, <2>5, <3>2
      <4>2. CASE j \in 1 .. n
        BY <2>2, <2>4, <3>1, <3>2, <4>1, <4>2 DEF Increasing
      <4>3. CASE j = n + 1
        BY <1>2, <2>4, <4>1, <4>3
      <4> QED BY <2>5, <4>2, <4>3
    <3> QED BY <3>1, <3>2 DEF Increasing
  <2>7. \A i \in 1 .. n + 1 :
           packets'[at1[i]] = [direction |-> "TX", data |-> wrote'[i]]
    <3>1. UNCHANGED packets
      BY <1>1
    <3>2. \A i \in 1 .. n : wrote'[i] = wrote[i] /\ at1[i] = at[i]
      BY <1>6, <2>4 DEF n
    <3>3. wrote'[n + 1] = payload /\ at1[n + 1] = cursor + k
      BY <1>6, <2>4 DEF n
    <3> QED BY <2>2, <2>3, <2>5, <3>1, <3>2, <3>3
  <2>8. \E a : /\ a \in [DOMAIN wrote' -> 1 .. cursor'] /\ Increasing(a)
              /\ \A i \in DOMAIN wrote' :
                    packets'[a[i]] = [direction |-> "TX", data |-> wrote'[i]]
    <3>1. cursor' = cursor + k /\ DOMAIN wrote' = 1 .. n + 1
      BY <1>1, <1>6 DEF n
    <3>2. /\ at1 \in [DOMAIN wrote' -> 1 .. cursor']
          /\ \A i \in DOMAIN wrote' :
                packets'[at1[i]] = [direction |-> "TX", data |-> wrote'[i]]
      BY <2>4, <2>7, <3>1
    <3> QED BY <2>6, <3>2
  <2> QED BY <2>8 DEF Consumes
<1> QED BY <1>7, <1>8, <1>9, <1>10, <1>11 DEF ReplayInv

-----------------------------------------------------------------------------
(* A read, conjunct by conjunct.                                           *)
LEMMA ReceiveKeepsTypes ==
    ASSUME Types, Loaded, NEW k \in 1 .. Len(Rest), NEW chunk \in Seq(Nat),
           Takes(k, chunk), UNCHANGED <<capture, strict, state, wrote, shown_tx>>
    PROVE  Types' /\ Loaded'
<1>1. /\ packets \in Seq(Packet) /\ cursor \in 0 .. Len(packets)
      /\ cursor \in Nat /\ Len(packets) \in Nat /\ Len(capture) \in Nat
      /\ DOMAIN packets = 1 .. Len(packets)
      /\ cursor + k \in 1 .. Len(packets)
  <2>1. packets \in Seq(Packet) /\ cursor \in 0 .. Len(packets)
    BY DEF Types
  <2>2. capture \in Seq(Packet)
    BY CaptureTyped
  <2> QED BY <2>1, <2>2, LenProperties, RestIsRest
<1>2. read' \in Seq(Nat) /\ shown_rx' \in Nat
  <2>1. read \o chunk \in Seq(Nat)
    BY ConcatProperties DEF Types
  <2>2. Len(chunk) \in Nat
    BY LenProperties
  <2> QED BY <2>1, <2>2 DEF Takes, Types
<1>3. CASE Empties(k, chunk)
  <2>1. UNCHANGED packets
    BY <1>3 DEF Empties
  <2> QED BY <1>2, <2>1 DEF Types, Loaded, Takes
<1>4. ASSUME NEW e \in Packet, Splits(k, chunk, e)
      PROVE  Types' /\ Loaded'
  <2> DEFINE i == cursor + k + 1
             ps == InsertAt(packets, i, e)
  <2>1. i \in 1 .. Len(packets) + 1
    BY <1>1
  <2> HIDE DEF i
  <2>2. /\ ps \in Seq(Packet) /\ Len(ps) = Len(packets) + 1
        /\ \A j \in 1 .. Len(packets) + 1 :
              ps[j] = IF j < i THEN packets[j]
                      ELSE IF j = i THEN e ELSE packets[j - 1]
    BY <1>1, <2>1, ListInserted
  <2>3. packets' = ps /\ e.data # <<>>
    BY <1>4 DEF Splits, i
  <2> HIDE DEF ps
  <2>4. DOMAIN ps = 1 .. Len(packets) + 1
    BY <2>2, LenProperties
  <2>5. ASSUME NEW j \in 1 .. Len(packets) + 1, ps[j].direction = "RX"
        PROVE  ps[j].data # <<>>
    <3>1. \A m \in 1 .. Len(packets) :
             packets[m].direction = "RX" => packets[m].data # <<>>
      BY <1>1 DEF Loaded
    <3>2. CASE j < i
      <4>1. j \in 1 .. Len(packets)
        BY <1>1, <2>1, <3>2
      <4> QED BY <2>2, <2>5, <3>1, <3>2, <4>1
    <3>3. CASE j = i
      <4>1. ps[j] = e
        BY SMTT(40), <1>1, <2>1, <2>2, <3>3
      <4> QED BY <2>3, <4>1
    <3>4. CASE ~(j < i) /\ j # i
      <4>1. j - 1 \in 1 .. Len(packets)
        BY <1>1, <2>1, <3>4
      <4>2. ps[j] = packets[j - 1]
        BY <2>2, <3>4
      <4> QED BY <2>5, <3>1, <4>1, <4>2
    <3> QED BY <3>2, <3>3, <3>4
  <2>6. Loaded'
    <3>1. Len(packets) >= Len(capture)
      BY DEF Loaded
    <3>2. Len(packets) + 1 >= Len(capture) /\ Len(packets) + 1 # Len(capture)
      BY <1>1, <3>1
    <3> QED BY <2>2, <2>3, <2>4, <2>5, <3>2 DEF Loaded
  <2>7. Types'
    BY <1>2, <2>2, <2>3 DEF Types, Takes
  <2> QED BY <2>6, <2>7
<1> QED BY <1>3, <1>4 DEF Takes

(* The list behind the packet that is read.                                *)
LEMMA BehindTheRead ==
    ASSUME packets \in Seq(Packet), cursor \in 0 .. Len(packets),
           NEW k \in 1 .. Len(Rest), NEW T, T = SubSeq(Rest, k + 1, Len(Rest))
    PROVE  /\ T \in Seq(Packet) /\ DOMAIN T = 1 .. Len(Rest) - k
           /\ \A i \in DOMAIN T :
                 k + i \in DOMAIN Rest /\ T[i] = Rest[k + i] /\ k < k + i
<1>1. /\ Rest \in Seq(Packet) /\ Len(Rest) \in Nat
      /\ DOMAIN Rest = 1 .. Len(Rest)
  BY RestIsRest
<1>2. k \in 0 .. Len(Rest)
  BY <1>1
<1>3. /\ T \in Seq(Packet) /\ Len(T) = Len(Rest) - k
      /\ \A i \in 1 .. Len(Rest) - k : T[i] = Rest[k + i]
  BY <1>1, <1>2, Leaving
<1>4. DOMAIN T = 1 .. Len(Rest) - k
  BY <1>3, LenProperties
<1>5. \A i \in 1 .. Len(Rest) - k : k + i \in 1 .. Len(Rest) /\ k < k + i
  BY <1>1
<1> QED BY <1>1, <1>3, <1>4, <1>5

LEMMA ReceiveKeepsOrder ==
    ASSUME Types, Ordered, NEW k \in 1 .. Len(Rest), NEW chunk \in Seq(Nat),
           Takes(k, chunk), UNCHANGED grown
    PROVE  Ordered'
<1> SUFFICES ASSUME ~grown
             PROVE  /\ Increasing(read') /\ Numbered(Rest')
                    /\ \A i \in DOMAIN Rest' : Rest'[i].direction = "RX"
                          => Below(read', Rest'[i].data)
  BY DEF Ordered
<1> DEFINE T == SubSeq(Rest, k + 1, Len(Rest))
           d == Rest[k].data
<1>1. /\ packets \in Seq(Packet) /\ cursor \in 0 .. Len(packets)
      /\ read \in Seq(Nat)
  BY DEF Types
<1>2. /\ Rest \in Seq(Packet) /\ Len(Rest) \in Nat
      /\ DOMAIN Rest = 1 .. Len(Rest) /\ k \in DOMAIN Rest
      /\ k \in 0 .. Len(Rest)
      /\ \A i \in DOMAIN Rest : Rest[i] \in Packet /\ Rest[i].data \in Seq(Nat)
  BY SMTT(40), <1>1, RestIsRest DEF Packet
<1>3. /\ T \in Seq(Packet)
      /\ \A i \in DOMAIN T :
            k + i \in DOMAIN Rest /\ T[i] = Rest[k + i] /\ k < k + i
  BY <1>1, BehindTheRead
<1>4. Numbered(T)
  BY <1>2, NumberedBehind DEF Ordered
<1> HIDE DEF T
<1>5. /\ Increasing(read) /\ Increasing(d) /\ Below(read, d)
      /\ d \in Seq(Nat)
      /\ \A i \in DOMAIN T : T[i].direction = "RX" =>
            /\ T[i].data \in Seq(Nat)
            /\ Below(read, T[i].data) /\ Below(d, T[i].data)
  BY <1>2, <1>3 DEF Ordered, Numbered, Takes
<1>6. read' = read \o chunk /\ chunk # <<>>
  BY DEF Takes
<1> HIDE DEF d
<1>7. CASE Empties(k, chunk)
  <2>1. chunk = d /\ Rest' = T
    BY <1>7 DEF Empties, T, d
  <2>2. Increasing(read \o d)
    BY <1>1, <1>5, Joining
  <2>3. \A i \in DOMAIN T :
           T[i].direction = "RX" => Below(read \o d, T[i].data)
    BY <1>1, <1>5, Joining
  <2> QED BY <1>4, <1>6, <2>1, <2>2, <2>3
<1>8. ASSUME NEW e \in Packet, Splits(k, chunk, e)
      PROVE  /\ Increasing(read') /\ Numbered(Rest')
             /\ \A i \in DOMAIN Rest' : Rest'[i].direction = "RX"
                   => Below(read', Rest'[i].data)
  <2>1. /\ d = chunk \o e.data /\ Rest' = <<e>> \o T /\ e.data # <<>>
        /\ e.direction = "RX" /\ e.data \in Seq(Nat)
    BY <1>8 DEF Splits, T, d, Packet
  <2> DEFINE x == e.data
  <2>2. x \in Seq(Nat)
    BY <2>1
  <2> HIDE DEF x
  <2>3. Increasing(chunk) /\ Increasing(x) /\ Below(chunk, x)
    <3>1. Increasing(chunk \o x)
      BY <1>5, <2>1 DEF x
    <3> QED BY <2>2, <3>1, Joining
  <2>4. Below(read, chunk) /\ Below(read, x)
    <3>1. Below(read, chunk \o x)
      BY <1>5, <2>1 DEF x
    <3> QED BY <1>1, <2>2, <3>1, Joining
  <2>5. Increasing(read \o chunk) /\ Below(read \o chunk, x)
    BY <1>1, <1>5, <2>2, <2>3, <2>4, Joining
  <2>6. ASSUME NEW i \in DOMAIN T, T[i].direction = "RX"
        PROVE  Below(x, T[i].data) /\ Below(read \o chunk, T[i].data)
    <3> DEFINE y == T[i].data
    <3>1. y \in Seq(Nat) /\ Below(read, y) /\ Below(chunk \o x, y)
      BY <1>5, <2>1, <2>6 DEF x
    <3> HIDE DEF y
    <3>2. Below(chunk, y) /\ Below(x, y)
      BY <2>2, <3>1, Joining
    <3>3. Below(read \o chunk, y)
      BY <1>1, <3>1, <3>2, Joining
    <3> QED BY <3>2, <3>3 DEF y
  <2>7. Numbered(<<e>> \o T)
    BY <1>3, <1>4, <2>1, <2>3, <2>6, NumberedFront DEF x
  <2>8. ASSUME NEW i \in DOMAIN (<<e>> \o T),
               (<<e>> \o T)[i].direction = "RX"
        PROVE  Below(read \o chunk, (<<e>> \o T)[i].data)
    <3>1. <<e>> \in Seq(Packet) /\ Len(<<e>>) = 1 /\ <<e>>[1] = e
      OBVIOUS
    <3> DEFINE r == <<e>> \o T
    <3>2. /\ r \in Seq(Packet) /\ Len(r) = 1 + Len(T)
          /\ \A j \in 1 .. 1 + Len(T) :
                r[j] = IF j <= 1 THEN <<e>>[j] ELSE T[j - 1]
      BY <1>3, <3>1, ConcatProperties
    <3>3. /\ Len(T) \in Nat /\ DOMAIN T = 1 .. Len(T)
          /\ DOMAIN r = 1 .. 1 + Len(T)
      BY <1>3, <3>2, LenProperties
    <3> HIDE DEF r
    <3>4. i \in 1 .. 1 + Len(T)
      BY <2>8, <3>3 DEF r
    <3>5. CASE i = 1
      <4>1. r[i] = e
        BY <3>1, <3>2, <3>4, <3>5
      <4> QED BY <2>5, <4>1 DEF r, x
    <3>6. CASE i # 1
      <4>1. r[i] = T[i - 1] /\ i - 1 \in DOMAIN T
        BY <3>2, <3>3, <3>4, <3>6
      <4> QED BY <2>6, <2>8, <4>1 DEF r
    <3> QED BY <3>5, <3>6
  <2> QED BY <1>6, <2>1, <2>5, <2>7, <2>8
<1> QED BY <1>7, <1>8 DEF Takes

LEMMA ReceiveKeepsWhole ==
    ASSUME Types, Whole, NEW k \in 1 .. Len(Rest), NEW chunk \in Seq(Nat),
           Takes(k, chunk), UNCHANGED <<grown, wrote, capture>>
    PROVE  Whole'
<1> SUFFICES ASSUME ~grown, wrote = <<>>
             PROVE  read' \o FlattenSeq(Received(Rest'))
                      = FlattenSeq(Received(capture))
  BY DEF Whole, Received
<1> DEFINE T == SubSeq(Rest, k + 1, Len(Rest))
           d == Rest[k].data
           F == FlattenSeq(Received(T))
<1>1. /\ packets \in Seq(Packet) /\ cursor \in 0 .. Len(packets)
      /\ read \in Seq(Nat)
  BY DEF Types
<1>2. Rest \in Seq(Packet) /\ Rest[k] \in Packet /\ d \in Seq(Nat)
  BY <1>1, RestIsRest DEF Packet
<1>3. T \in Seq(Packet)
  BY <1>1, BehindTheRead
<1>4. FlattenSeq(Received(Rest)) = d \o F
  BY <1>2, ReceivedNext DEF Takes
<1>5. F \in Seq(Nat)
  BY <1>3, ReceivedTyped, FlattenKeepsType
<1>6. read \o FlattenSeq(Received(Rest)) = FlattenSeq(Received(capture))
  BY DEF Whole
<1>7. read' = read \o chunk
  BY DEF Takes
<1>10. \A a, b, c \in Seq(Nat) : (a \o b) \o c = a \o (b \o c)
  <2> DEFINE B == Nat
  <2> HIDE DEF B
  <2>1. \A a, b, c \in Seq(B) : (a \o b) \o c = a \o (b \o c)
    BY SMTT(40), ConcatAssociative
  <2> QED BY <2>1 DEF B
<1> HIDE DEF T, d, F
<1>8. CASE Empties(k, chunk)
  <2>1. chunk = d /\ Rest' = T
    BY <1>8 DEF Empties, T, d
  <2>2. (read \o d) \o F = read \o (d \o F)
    BY <1>1, <1>2, <1>5, <1>10
  <2> QED BY <1>4, <1>6, <1>7, <2>1, <2>2 DEF F
<1>9. ASSUME NEW e \in Packet, Splits(k, chunk, e)
      PROVE  read' \o FlattenSeq(Received(Rest'))
               = FlattenSeq(Received(capture))
  <2>1. /\ d = chunk \o e.data /\ Rest' = <<e>> \o T /\ e.direction = "RX"
    BY <1>9 DEF Splits, T, d
  <2>2. FlattenSeq(Received(<<e>> \o T)) = e.data \o F
    BY <1>3, <2>1, ReceivedFront DEF F
  <2> DEFINE x == e.data
  <2>3. x \in Seq(Nat)
    BY DEF Packet
  <2> HIDE DEF x
  <2>4. x \o F \in Seq(Nat)
    BY <1>5, <2>3, ConcatProperties
  <2>5. (read \o chunk) \o (x \o F) = read \o (chunk \o (x \o F))
    BY <1>1, <1>10, <2>4
  <2>6. (chunk \o x) \o F = chunk \o (x \o F)
    BY <1>5, <1>10, <2>3
  <2> QED BY <1>4, <1>6, <1>7, <2>1, <2>2, <2>5, <2>6 DEF x
<1> QED BY <1>8, <1>9 DEF Takes

LEMMA ReceiveKeepsOrigins ==
    ASSUME Types, Originates, NEW k \in 1 .. Len(Rest), NEW chunk \in Seq(Nat),
           Takes(k, chunk), UNCHANGED capture
    PROVE  Originates'
<1>1. CASE Empties(k, chunk)
  <2>1. UNCHANGED packets
    BY <1>1 DEF Empties
  <2> QED BY <2>1 DEF Originates
<1>2. ASSUME NEW e \in Packet, Splits(k, chunk, e)
      PROVE  Originates'
  <2> DEFINE p  == cursor + k
             N  == Len(packets)
             ps == InsertAt(packets, p + 1, e)
  <2>1. /\ packets \in Seq(Packet) /\ cursor \in 0 .. Len(packets)
        /\ N \in Nat /\ DOMAIN packets = 1 .. N
    BY LenProperties DEF Types
  <2>2. /\ p \in 1 .. N /\ p + 1 \in 1 .. N + 1 /\ packets[p] = Rest[k]
        /\ p \in Nat
    <3>1. /\ Len(Rest) = N - cursor
          /\ \A i \in 1 .. Len(Rest) :
                Rest[i] = packets[cursor + i] /\ Rest[i] \in Packet
      BY <2>1, RestIsRest
    <3>2. k \in 1 .. N - cursor /\ Rest[k] = packets[cursor + k]
      BY <3>1
    <3>3. cursor \in Nat
      BY <2>1
    <3> QED BY SMTT(40), <2>1, <3>2, <3>3
  <2>3. packets' = ps /\ e.direction = "RX" /\ packets[p].direction = "RX"
    BY <1>2, <2>2 DEF Splits, Takes
  <2> DEFINE i0 == p + 1
  <2>4. i0 \in 1 .. N + 1
    BY <2>2
  <2> HIDE DEF i0
  <2>5. /\ InsertAt(packets, i0, e) \in Seq(Packet)
        /\ Len(InsertAt(packets, i0, e)) = N + 1
        /\ \A j \in 1 .. N + 1 :
              InsertAt(packets, i0, e)[j] =
                 IF j < i0 THEN packets[j]
                 ELSE IF j = i0 THEN e ELSE packets[j - 1]
    BY <2>1, <2>4, ListInserted
  <2>6. /\ ps \in Seq(Packet) /\ DOMAIN ps = 1 .. N + 1
        /\ \A j \in 1 .. N + 1 :
              ps[j] = IF j < p + 1 THEN packets[j]
                      ELSE IF j = p + 1 THEN e ELSE packets[j - 1]
    BY <2>5, LenProperties DEF i0
  <2>7. PICK org : From(packets, capture, org)
    BY DEF Originates
  <2> DEFINE src(j) == IF j <= p THEN j ELSE j - 1
             org1   == [j \in 1 .. N + 1 |-> org[src(j)]]
  <2> HIDE DEF p, N, ps
  <2>8. \A j \in 1 .. N + 1 : src(j) \in 1 .. N
    BY <2>1, <2>2
  <2>9. \A i, j \in 1 .. N + 1 : i < j => src(i) <= src(j)
    BY <2>1, <2>2
  <2>10. ASSUME NEW i \in 1 .. N + 1, ps[i].direction = "TX"
         PROVE  /\ ps[i] = packets[src(i)]
                /\ \A j \in 1 .. N + 1 : i < j => src(i) < src(j)
    <3>1. CASE i < p + 1
      <4>1. i # p /\ i <= p
        BY <2>1, <2>2, <2>3, <2>6, <2>10, <3>1
      <4>2. \A j \in 1 .. N + 1 : i < j => src(i) < src(j)
        BY <2>1, <2>2, <4>1
      <4> QED BY <2>6, <3>1, <4>1, <4>2
    <3>2. CASE ~(i < p + 1)
      <4>1. i # p + 1
        BY <2>2, <2>3, <2>6, <2>10
      <4>2. ~(i <= p) /\ ps[i] = packets[i - 1]
        BY <2>1, <2>2, <2>6, <3>2, <4>1
      <4>3. \A j \in 1 .. N + 1 : i < j => src(i) < src(j)
        BY <2>1, <2>2, <3>2, <4>1
      <4> QED BY <4>2, <4>3
    <3> QED BY <3>1, <3>2
  <2> HIDE DEF src
  <2>11. /\ \A j \in 1 .. N + 1 : org1[j] = org[src(j)]
         /\ DOMAIN org1 = 1 .. N + 1
    OBVIOUS
  <2>12. /\ org \in [1 .. N -> DOMAIN capture]
         /\ \A i, j \in 1 .. N : i < j => org[i] <= org[j]
         /\ \A i \in 1 .. N : packets[i].direction = "TX" =>
               /\ packets[i] = capture[org[i]]
               /\ \A j \in 1 .. N : i < j => org[i] < org[j]
    BY <2>1, <2>7 DEF From
  <2>13. org1 \in [1 .. N + 1 -> DOMAIN capture]
    BY <2>8, <2>12
  <2> HIDE DEF org1
  <2>14. DOMAIN capture \subseteq Nat
    <3>1. capture \in Seq(Packet)
      BY CaptureTyped
    <3> QED BY <3>1, LenProperties
  <2>15. ASSUME NEW i \in 1 .. N + 1, NEW j \in 1 .. N + 1, i < j
         PROVE  org1[i] <= org1[j]
    <3> DEFINE a == src(i)
               b == src(j)
    <3>1. a \in 1 .. N /\ b \in 1 .. N /\ a <= b
      BY <2>8, <2>9, <2>15
    <3>2. org[a] \in Nat /\ org[b] \in Nat
      BY <2>12, <2>14, <3>1
    <3> HIDE DEF a, b
    <3>3. org[a] <= org[b]
      <4>1. CASE a = b
        BY <3>2, <4>1
      <4>2. CASE a # b
        <5>1. a < b
          BY <2>1, <3>1, <4>2
        <5> QED BY <2>12, <3>1, <5>1
      <4> QED BY <4>1, <4>2
    <3> QED BY <2>11, <3>3 DEF a, b
  <2>16. ASSUME NEW i \in 1 .. N + 1, ps[i].direction = "TX"
         PROVE  /\ ps[i] = capture[org1[i]]
                /\ \A j \in 1 .. N + 1 : i < j => org1[i] < org1[j]
    <3>1. /\ ps[i] = packets[src(i)] /\ src(i) \in 1 .. N
          /\ \A j \in 1 .. N + 1 : i < j => src(i) < src(j)
      BY <2>8, <2>10, <2>16
    <3> QED BY <2>8, <2>11, <2>12, <2>16, <3>1
  <2>17. From(ps, capture, org1)
    BY <2>6, <2>13, <2>15, <2>16 DEF From
  <2>18. \E o : From(packets', capture', o)
    BY <2>3, <2>17 DEF ps
  <2> QED BY <2>18 DEF Originates, From
<1> QED BY <1>1, <1>2 DEF Takes

LEMMA ReceiveKeepsConsumed ==
    ASSUME Types, Consumed, NEW k \in 1 .. Len(Rest), NEW chunk \in Seq(Nat),
           Takes(k, chunk), UNCHANGED <<strict, mismatches, wrote>>
    PROVE  Consumed'
<1> SUFFICES ASSUME strict \/ mismatches = <<>>
             PROVE  \E at : Consumes(packets, at)'
  BY DEF Consumed
<1>1. PICK at : Consumes(packets, at)
  BY DEF Consumed
<1>2. /\ packets \in Seq(Packet) /\ cursor \in 0 .. Len(packets)
      /\ cursor \in Nat /\ Len(packets) \in Nat /\ cursor' = cursor + k
  BY LenProperties DEF Types, Takes
<1>3. cursor + k \in 1 .. Len(packets) /\ k \in Nat
  BY <1>2, RestIsRest
<1>4. \A i \in 1 .. cursor : packets'[i] = packets[i]
  <2>1. CASE Empties(k, chunk)
    BY <2>1 DEF Empties
  <2>2. ASSUME NEW e \in Packet, Splits(k, chunk, e)
        PROVE  \A i \in 1 .. cursor : packets'[i] = packets[i]
    <3> DEFINE p == cursor + k + 1
    <3>1. p \in 1 .. Len(packets) + 1 /\ packets' = InsertAt(packets, p, e)
      BY <1>2, <1>3, <2>2 DEF Splits
    <3>2. \A i \in 1 .. cursor : i \in 1 .. Len(packets) + 1 /\ i < p
      BY <1>2, <1>3
    <3> HIDE DEF p
    <3>3. \A j \in 1 .. Len(packets) + 1 :
             InsertAt(packets, p, e)[j] =
                IF j < p THEN packets[j]
                ELSE IF j = p THEN e ELSE packets[j - 1]
      BY <1>2, <3>1, ListInserted
    <3> QED BY <3>1, <3>2, <3>3
  <2> QED BY <2>1, <2>2 DEF Takes
<1>5. /\ at \in [DOMAIN wrote -> 1 .. cursor] /\ Increasing(at)
      /\ \A i \in DOMAIN wrote :
            packets[at[i]] = [direction |-> "TX", data |-> wrote[i]]
  BY <1>1 DEF Consumes
<1>6. \A i \in DOMAIN wrote :
         /\ at[i] \in 1 .. cursor /\ at[i] \in 1 .. cursor'
         /\ packets'[at[i]] = packets[at[i]]
  BY <1>2, <1>3, <1>4, <1>5
<1>7. /\ at \in [DOMAIN wrote' -> 1 .. cursor'] /\ Increasing(at)
      /\ \A i \in DOMAIN wrote' :
            packets'[at[i]] = [direction |-> "TX", data |-> wrote'[i]]
  BY <1>5, <1>6
<1> QED BY <1>7 DEF Consumes

-----------------------------------------------------------------------------
LEMMA ReceiveKeepsReplayInv ==
    ASSUME ReplayInv, NEW size \in Sizes, Receive(size)
    PROVE  ReplayInv'
<1>1. size \in Nat \ {0}
  BY ReplayAssumption
<1>2. PICK k \in 1 .. Len(Rest), chunk \in Seq(Nat) : Takes(k, chunk)
  BY <1>1, ReceiveTakes DEF ReplayInv
<1>3. UNCHANGED <<state, strict, capture, mismatches, wrote, grown, shown_tx>>
  BY DEF Receive, given
<1>4. Types' /\ Loaded'
  BY <1>2, <1>3, ReceiveKeepsTypes DEF ReplayInv
<1>5. Ordered'
  BY <1>2, <1>3, ReceiveKeepsOrder DEF ReplayInv
<1>6. Whole'
  BY <1>2, <1>3, ReceiveKeepsWhole DEF ReplayInv
<1>7. Originates'
  BY <1>2, <1>3, ReceiveKeepsOrigins DEF ReplayInv
<1>8. Consumed'
  BY <1>2, <1>3, ReceiveKeepsConsumed DEF ReplayInv
<1> QED BY <1>4, <1>5, <1>6, <1>7, <1>8 DEF ReplayInv

LEMMA NextKeepsReplayInv == ReplayInv /\ [Next]_vars => ReplayInv'
<1> SUFFICES ASSUME ReplayInv, [Next]_vars
             PROVE  ReplayInv'
  OBVIOUS
<1>0. state \in {"disconnected", "connected", "error"}
  BY DEF ReplayInv, Types
<1>1. CASE Rewind
  BY <1>1, StartKeepsReplayInv DEF Rewind, given, shown
<1>2. CASE Connect
  BY <1>2, StartKeepsReplayInv DEF Connect, given, shown
<1>3. CASE ConnectEmpty
  BY <1>3, StandingKeepsReplayInv DEF ConnectEmpty
<1>4. CASE Disconnect
  BY <1>4, StandingKeepsReplayInv DEF Disconnect
<1>5. CASE Refused
  BY <1>5, StandingKeepsReplayInv DEF Refused
<1>6. ASSUME NEW d \in {"TX", "RX"}, Exhausted(d)
      PROVE  ReplayInv'
  BY <1>6, StandingKeepsReplayInv DEF Exhausted
<1>7. ASSUME NEW p \in Payloads \cup Requests, Send(p)
      PROVE  ReplayInv'
  BY <1>7, SendKeepsReplayInv
<1>8. ASSUME NEW p \in Payloads \cup Requests, SendMismatch(p)
      PROVE  ReplayInv'
  <2>1. strict
    BY <1>8 DEF SendMismatch, Acceptable
  <2>2. UNCHANGED <<packets, cursor, given, pass, shown>> /\ state' = state
    BY <1>8 DEF SendMismatch
  <2> QED BY <2>1, <2>2, StandingKeepsReplayInv
<1>9. ASSUME NEW n \in Sizes, Receive(n)
      PROVE  ReplayInv'
  BY <1>9, ReceiveKeepsReplayInv
<1>10. CASE UNCHANGED vars
  BY <1>10, StandingKeepsReplayInv DEF vars
<1> QED
  BY <1>1, <1>2, <1>3, <1>4, <1>5, <1>6, <1>7, <1>8, <1>9, <1>10 DEF Next

(* The list of packets, where a pass stands in it and what it has read and *)
(* sent fit together, for every capture.                                   *)
THEOREM ReplayInvariant == Spec => []ReplayInv
BY InitEstablishesReplayInv, NextKeepsReplayInv, PTL DEF Spec

(* In a pass over the list as it was loaded every recorded byte is read at *)
(* most once and in the recorded order, however reads split the packets;   *)
(* and no read is ever empty.                                              *)
THEOREM FirstPassIsInOrder == Spec => []FirstPassOnceInOrder
<1>1. ReplayInv => FirstPassOnceInOrder
  BY DEF ReplayInv, Loaded, Ordered, FirstPassOnceInOrder, OnceInOrder
<1> QED BY <1>1, ReplayInvariant, PTL

(* What was sent is what was recorded, in that order: always in strict     *)
(* mode, and in a tolerant replay that reports no mismatch.                *)
THEOREM RequestsFollowRecording == Spec => []SentFollowsRecording
<1>1. ReplayInv => SentFollowsRecording
  <2> SUFFICES ASSUME ReplayInv, strict \/ mismatches = <<>>
               PROVE  \E at \in [DOMAIN wrote -> DOMAIN capture] :
                        /\ Increasing(at)
                        /\ \A i \in DOMAIN wrote : capture[at[i]]
                              = [direction |-> "TX", data |-> wrote[i]]
    BY DEF SentFollowsRecording
  <2>1. PICK org : From(packets, capture, org)
    BY DEF ReplayInv, Originates
  <2>2. PICK at : Consumes(packets, at)
    BY DEF ReplayInv, Consumed
  <2>3. /\ cursor \in 0 .. Len(packets) /\ Len(packets) \in Nat
        /\ DOMAIN packets = 1 .. Len(packets)
        /\ DOMAIN wrote \subseteq Nat
    BY LenProperties DEF ReplayInv, Types
  <2>4. /\ at \in [DOMAIN wrote -> 1 .. cursor] /\ Increasing(at)
        /\ \A i \in DOMAIN wrote :
              packets[at[i]] = [direction |-> "TX", data |-> wrote[i]]
    BY <2>2 DEF Consumes
  <2>5. \A i \in DOMAIN wrote : at[i] \in DOMAIN packets
    BY <2>3, <2>4
  <2>6. /\ org \in [DOMAIN packets -> DOMAIN capture]
        /\ \A i \in DOMAIN packets :
              packets[i].direction = "TX" =>
                /\ packets[i] = capture[org[i]]
                /\ \A j \in DOMAIN packets : i < j => org[i] < org[j]
    BY <2>1 DEF From
  <2> DEFINE through == [i \in DOMAIN wrote |-> org[at[i]]]
  <2>7. through \in [DOMAIN wrote -> DOMAIN capture]
    BY <2>5, <2>6
  <2>8. ASSUME NEW i \in DOMAIN wrote
        PROVE  /\ capture[through[i]]
                     = [direction |-> "TX", data |-> wrote[i]]
               /\ \A j \in DOMAIN wrote : i < j => through[i] < through[j]
    <3>1. packets[at[i]].direction = "TX" /\ at[i] \in DOMAIN packets
      <4>1. packets[at[i]] = [direction |-> "TX", data |-> wrote[i]]
        BY <2>4
      <4>2. [direction |-> "TX", data |-> wrote[i]].direction = "TX"
        OBVIOUS
      <4> QED BY <2>5, <4>1, <4>2
    <3>2. /\ packets[at[i]] = capture[org[at[i]]]
          /\ \A j \in DOMAIN packets : at[i] < j => org[at[i]] < org[j]
      BY <2>6, <3>1
    <3>3. ASSUME NEW j \in DOMAIN wrote, i < j
          PROVE  org[at[i]] < org[at[j]]
      <4>1. at[i] < at[j] /\ at[j] \in DOMAIN packets
        BY <2>4, <2>5, <3>3 DEF Increasing
      <4> QED BY <3>2, <4>1
    <3> QED BY <2>4, <3>2, <3>3
  <2> HIDE DEF through
  <2>9. Increasing(through)
    BY <2>7, <2>8 DEF Increasing
  <2> QED BY <2>7, <2>8, <2>9
<1> QED BY <1>1, ReplayInvariant, PTL

(* A reader that never sends gets every recorded byte before it is told    *)
(* that nothing more is there.                                             *)
THEOREM NothingIsWithheld == Spec => NothingWithheld
<1>1. ASSUME ReplayInv, Ahead("RX") = {}, wrote = <<>>, ~grown
      PROVE  read = FlattenSeq(Received(capture))
  <2>1. /\ packets \in Seq(Packet) /\ cursor \in 0 .. Len(packets)
        /\ cursor \in Nat /\ Len(packets) \in Nat /\ read \in Seq(Nat)
    BY <1>1, LenProperties DEF ReplayInv, Types
  <2>2. /\ Rest \in Seq(Packet) /\ Len(Rest) = Len(packets) - cursor
        /\ \A i \in 1 .. Len(Rest) :
              Rest[i] = packets[cursor + i] /\ Rest[i] \in Packet
    BY <2>1, RestIsRest
  <2>3. ASSUME NEW i \in 1 .. Len(Rest)
        PROVE  Rest[i].direction # "RX"
    <3>1. /\ cursor + i - 1 \in cursor .. Len(packets) - 1
          /\ (cursor + i - 1) + 1 = cursor + i
      BY <2>1, <2>2
    <3>2. packets[cursor + i].direction # "RX"
      BY <1>1, <3>1 DEF Ahead
    <3> QED BY <2>2, <3>2
  <2>4. FlattenSeq(Received(Rest)) = <<>>
    <3>1. /\ Received(Rest) \in Seq(Seq(Nat))
          /\ \A i \in 1 .. Len(Received(Rest)) : Received(Rest)[i] = <<>>
      BY <2>2, <2>3, ReceivedTyped
    <3> QED BY <3>1, FlattenNothing
  <2>5. read \o <<>> = FlattenSeq(Received(capture))
    BY <1>1, <2>4 DEF ReplayInv, Whole
  <2> QED BY <2>1, <2>5, ConcatEmptySeq
<1>2. ReplayInv =>
        (result' = "TransportTimeoutError" /\ Ahead("RX") = {}
           /\ wrote = <<>> /\ ~grown /\ state = "connected"
           => read = FlattenSeq(Received(capture)))
  BY <1>1
<1> QED BY <1>2, ReplayInvariant, PTL DEF NothingWithheld

-----------------------------------------------------------------------------
(* A replay keeps the contract of the base class: every call of it is one  *)
(* step of that contract, or none that its callers see.                    *)
THEOREM ReplayRefinesTransport == Spec => ImplementsContract
<1> USE DEF Contract!Opened, Contract!OpenFailed, Contract!Closed,
            Contract!Refused, Contract!Transmitted, Contract!Delivered,
            Contract!TimedOut, Contract!Escaped, Contract!Trivial,
            Contract!Quiet, Contract!OpenErrors, Contract!Escapes
<1>1. Init => Contract!Init
  BY DEF Init, Contract!Init
<1>2. ReplayInv /\ [Next]_vars => [Contract!Next]_Contract!contract
  <2> SUFFICES ASSUME ReplayInv, [Next]_vars
               PROVE  [Contract!Next]_Contract!contract
    OBVIOUS
  <2>0. /\ state \in {"disconnected", "connected", "error"}
        /\ shown_tx \in Nat /\ shown_rx \in Nat
    BY DEF ReplayInv, Types
  <2>1. CASE Rewind
    <3>1. Contract!Trivial
      BY <2>1 DEF Rewind, shown
    <3> QED BY <3>1 DEF Contract!Next
  <2>2. CASE Connect
    <3>1. Contract!Opened
      BY <2>2 DEF Connect, shown
    <3> QED BY <3>1 DEF Contract!Next
  <2>3. CASE ConnectEmpty
    <3>1. Contract!OpenFailed
      BY <2>3 DEF ConnectEmpty, shown
    <3> QED BY <3>1 DEF Contract!Next
  <2>4. CASE Disconnect
    <3>1. Contract!Closed
      BY <2>4 DEF Disconnect, shown
    <3> QED BY <3>1 DEF Contract!Next
  <2>5. CASE Refused
    <3>1. Contract!Refused
      BY <2>5 DEF Refused, shown
    <3> QED BY <3>1 DEF Contract!Next
  <2>6. ASSUME NEW d \in {"TX", "RX"}, Exhausted(d)
        PROVE  Contract!Next
    <3>1. Contract!TimedOut
      BY <2>6 DEF Exhausted, shown
    <3> QED BY <3>1 DEF Contract!Next
  <2>7. ASSUME NEW p \in Payloads \cup Requests, Send(p)
        PROVE  Contract!Next
    <3>1. Len(p) \in Nat
      BY CaptureTyped, LenProperties DEF ReplayInv
    <3>2. Contract!Transmitted
      BY <2>0, <2>7, <3>1 DEF Send
    <3> QED BY <3>2 DEF Contract!Next
  <2>8. ASSUME NEW p \in Payloads \cup Requests, SendMismatch(p)
        PROVE  Contract!Next
    <3>1. Contract!Escaped
      BY <2>8 DEF SendMismatch, shown
    <3> QED BY <3>1 DEF Contract!Next
  <2>9. ASSUME NEW n \in Sizes, Receive(n)
        PROVE  Contract!Next
    <3>1. n \in Nat \ {0}
      BY ReplayAssumption
    <3>2. PICK k \in 1 .. Len(Rest), chunk \in Seq(Nat) : Takes(k, chunk)
      BY <2>9, <3>1, ReceiveTakes DEF ReplayInv
    <3>3. Len(chunk) \in Nat /\ Len(chunk) # 0
      <4>1. chunk # <<>>
        BY <3>2 DEF Takes
      <4> QED BY <4>1, EmptySeq, LenProperties
    <3>4. shown_rx' > shown_rx
      BY <2>0, <3>2, <3>3 DEF Takes
    <3>5. Contract!Delivered
      BY <2>9, <3>4 DEF Receive
    <3> QED BY <3>5 DEF Contract!Next
  <2>10. CASE UNCHANGED vars
    BY <2>10 DEF vars, shown, Contract!contract
  <2> QED
    BY <2>1, <2>2, <2>3, <2>4, <2>5, <2>6, <2>7, <2>8, <2>9, <2>10 DEF Next
<1> QED
  BY <1>1, <1>2, ReplayInvariant, PTL
  DEF Spec, ImplementsContract, Contract!Spec
=============================================================================
