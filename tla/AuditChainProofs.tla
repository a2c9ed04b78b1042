-------------------------- MODULE AuditChainProofs --------------------------
(***************************************************************************)
(* Proofs about AuditChain for every number of writers, every ring size,   *)
(* every set of zones and every bound on faults.                           *)
(*                                                                         *)
(* The properties are not inductive by themselves: that an accepted entry  *)
(* is really inserted (and not ignored as a duplicate) rests on nextSeq    *)
(* being above every row while a store is attached, and that rows are      *)
(* linked rests on the hash the next entry is linked to being the hash of  *)
(* the last row whenever that row is the predecessor in sequence.          *)
(* What VerifyChain decides rests on which number each digest ends with.   *)
(***************************************************************************)
EXTENDS AuditChain, TLAPS, WellFoundedInduction

\* A leaf that names no prover is for the SMT solver, with more time if need be.
USE SMTT(10), SMTT(20), SMTT(30)

\* A run that has a store and has been able to resume from it.
Attached == up /\ sink /\ Resumed

\* Writers are between two steps only while the agent runs; one that is about
\* to take the chain's last entry finds a chain that is not empty.
WritersOK ==
    /\ ~up => \A w \in Writers : pc[w] = "idle"
    /\ \A w \in Writers : pc[w] = "pick" => entries # <<>>

\* Every sequence number in use is below the number of entries created, so the
\* table has a last row whenever it has one at all.
SeqBound ==
    /\ nextSeq <= issued
    /\ \A s \in DOMAIN db : s < issued

\* While attached, nextSeq is above every row.
AboveRows == Attached => \A s \in DOMAIN db : s < nextSeq

\* While attached, the next entry is linked to the row just below it, if any.
LinkReady ==
    Attached => \A s \in DOMAIN db : s + 1 = nextSeq => db[s].hash = PrevHash

\* While attached, every sequence number below nextSeq is a row or a refusal.
HolesReady ==
    Attached => \A t \in Nat : t < nextSeq =>
        t \in DOMAIN db \/ \E e \in refused : e.seq = t

\* A chain that has issued nothing starts from the genesis hash.
GenesisReady == nextSeq = 0 => resumedHash = GenesisHash

IInv ==
    /\ TypeOK
    /\ WritersOK
    /\ SeqBound
    /\ AboveRows
    /\ LinkReady
    /\ HolesReady
    /\ GenesisReady
    /\ WindowVerifies
    /\ AckedDurable
    /\ ConsecutiveRowsLinked
    /\ HolesAreRefusals

-----------------------------------------------------------------------------
\* The payloads of the writers of the trail are payloads.
LEMMA PayloadTypes == \A w : Payloads(w) \subseteq Details
BY DEF Payloads, Details

\* The entry Append builds is well typed and carries the hash of its content.
LEMMA NextEntryType ==
    ASSUME TypeOK, NEW pay \in Details
    PROVE  PrevHash \in Hash /\ NextEntry(pay) \in Entry
<1>1. PrevHash \in Hash
  <2>1. entries \in Seq(Entry) /\ resumedHash \in Hash
    BY DEF TypeOK
  <2>2. entries # <<>> => entries[Len(entries)] \in Entry
    BY <2>1
  <2>3. \A e \in Entry : e.hash \in Hash
    BY DEF Entry
  <2> QED
    BY <2>1, <2>2, <2>3 DEF PrevHash
<1>2. [id |-> issued, seq |-> nextSeq, zone |-> zone, details |-> Marshal(pay)] \in Digested
    BY DEF TypeOK, Digested, Marshal, Details, JSON
<1>3. computeHash(issued, nextSeq, zone, pay, PrevHash) \in Hash
    BY <1>1, <1>2 DEF computeHash, Hash
<1> QED
    BY <1>1, <1>3 DEF TypeOK, NextEntry, Entry

\* The ring after an append: the new entry comes last, the others are the most
\* recent of the old ones in their order, and the capacity is kept.
LEMMA RingProperties ==
    ASSUME TypeOK, Len(entries) <= MaxEntries, NEW e \in Entry
    PROVE  /\ Ring(e) \in Seq(Entry)
           /\ Len(Ring(e)) \in 1..MaxEntries
           /\ Ring(e)[Len(Ring(e))] = e
           /\ Len(Ring(e)) <= Len(entries) + 1
           /\ \A i \in 1..(Len(Ring(e)) - 1) :
                /\ i + Len(entries) + 1 - Len(Ring(e)) \in 1..Len(entries)
                /\ Ring(e)[i] = entries[i + Len(entries) + 1 - Len(Ring(e))]
<1> DEFINE s == Append(entries, e)
           n == Len(entries)
<1>1. /\ s \in Seq(Entry) /\ Len(s) = n + 1 /\ n \in Nat
      /\ s[n + 1] = e /\ \A i \in 1..n : s[i] = entries[i]
    BY DEF TypeOK
<1>2. MaxEntries \in Nat \ {0}
    BY ConstantsAssumption
<1>3. CASE n + 1 <= MaxEntries
  <2>1. Ring(e) = s
    BY <1>1, <1>2, <1>3 DEF Ring
  <2> HIDE DEF s, n
  <2>2. Len(Ring(e)) = n + 1 /\ Ring(e) \in Seq(Entry) /\ Ring(e)[n + 1] = e
    BY <1>1, <2>1
  <2>3. \A i \in 1..n : i + n + 1 - (n + 1) = i /\ Ring(e)[i] = entries[i]
    BY <1>1, <2>1
  <2> QED
    BY <1>1, <1>2, <1>3, <2>2, <2>3 DEF n
<1>4. CASE n + 1 > MaxEntries
  <2>1. n = MaxEntries
    BY <1>1, <1>2, <1>4
  <2>2. Ring(e) = SubSeq(s, 2, n + 1)
    BY <1>1, <1>2, <2>1 DEF Ring
  <2>3. /\ Ring(e) \in Seq(Entry) /\ Len(Ring(e)) = n
        /\ \A i \in 1..n : Ring(e)[i] = s[i + 1]
    <3> HIDE DEF s, n
    <3>1. 2 \in 1..(Len(s) + 1) /\ n + 1 \in 1..Len(s)
      BY <1>1, <1>2, <2>1
    <3>2. \A i \in 2..(n + 1) : s[i] \in Entry
      BY <1>1
    <3> QED
      BY <1>1, <2>2, <3>1, <3>2
  <2>4. n \in 1..n /\ Ring(e)[n] = e
    BY <1>1, <1>2, <2>1, <2>3
  <2>5. \A i \in 1..(n - 1) :
            i + n + 1 - n = i + 1 /\ i + 1 \in 1..n /\ Ring(e)[i] = entries[i + 1]
    BY <1>1, <1>2, <2>1, <2>3
  <2> QED
    BY <1>1, <1>2, <2>1, <2>3, <2>4, <2>5
<1>5. n + 1 <= MaxEntries \/ n + 1 > MaxEntries
    BY <1>1, <1>2
<1> QED
    BY <1>3, <1>4, <1>5, Zenon

\* The last row exists: a set of sequence numbers with an upper bound has a
\* greatest element (the distances to the bound have a least one).
LEMMA LastSeqMax ==
    ASSUME TypeOK, SeqBound, DOMAIN db # {}
    PROVE  LastSeq \in DOMAIN db /\ \A t \in DOMAIN db : t <= LastSeq
<1> DEFINE D == {issued - s : s \in DOMAIN db}
<1>1. DOMAIN db \subseteq Nat /\ issued \in Nat /\ \A s \in DOMAIN db : s < issued
    BY DEF TypeOK, SeqBound
<1>2. D \subseteq Nat /\ D # {}
    BY <1>1
<1>3. PICK d \in D : \A y \in D : ~(<<y, d>> \in OpToRel(<, Nat))
  <2> HIDE DEF D
  <2> QED
    BY Zenon, <1>2, NatLessThanWellFounded, WFMin
<1>4. PICK s \in DOMAIN db : d = issued - s
    OBVIOUS
<1>5. ASSUME NEW t \in DOMAIN db PROVE t <= s
  <2>1. issued - t \in D
    OBVIOUS
  <2>2. ~(issued - t < d)
    BY Zenon, <1>2, <1>3, <2>1 DEF OpToRel
  <2> QED
    BY <1>1, <1>4, <2>2
<1> QED
    BY <1>5 DEF LastSeq

\* Writing a row keeps the rows there are, and adds the one given when its
\* sequence number is free.
LEMMA WriteProperties ==
    ASSUME TypeOK, NEW e \in Entry
    PROVE  /\ DOMAIN Write(e) = DOMAIN db \cup {e.seq}
           /\ DOMAIN Write(e) \subseteq Nat
           /\ Write(e) \in [DOMAIN Write(e) -> Row]
           /\ \A s \in DOMAIN db : Write(e)[s] = db[s]
           /\ e.seq \notin DOMAIN db => Write(e)[e.seq] = RowOf(e)
<1>1. RowOf(e) \in Row /\ e.seq \in Nat
  <2>1. Marshal(e.details) \in JSON
    BY DEF Entry, Marshal, Details, JSON
  <2> QED
    BY <2>1 DEF RowOf, Row, Entry
<1>2. DOMAIN db \subseteq Nat /\ db \in [DOMAIN db -> Row]
    BY DEF TypeOK
<1> QED
    BY <1>1, <1>2 DEF Write

\* In a run of consecutive numbers only the first can be zero: a is the number
\* at place j of n, b the first one, and q the number that comes next.
LEMMA ZeroIsFirst ==
    ASSUME NEW a \in Nat, NEW b \in Nat, NEW n \in Nat, NEW q \in Nat, NEW j \in 1..n,
           a + n = q + j - 1, b + n = q + 1 - 1
    PROVE  a = 0 => j = 1
    OBVIOUS

\* After an append the window is again a verified run of consecutive entries,
\* one further on, and its last hash is the new entry's.
LEMMA AppendWindow ==
    ASSUME IInv, NEW pay \in Details
    PROVE  /\ Verify(Ring(NextEntry(pay)))
           /\ Len(Ring(NextEntry(pay))) <= MaxEntries
           /\ \A i \in 1..Len(Ring(NextEntry(pay))) :
                Ring(NextEntry(pay))[i].seq + Len(Ring(NextEntry(pay))) = nextSeq + 1 + i - 1
<1> DEFINE e == NextEntry(pay)
           r == Ring(e)
           n == Len(entries)
           k == Len(r)
<1>1. /\ TypeOK /\ entries \in Seq(Entry) /\ n \in Nat /\ nextSeq \in Nat
      /\ n <= MaxEntries /\ MaxEntries \in Nat \ {0} /\ e \in Entry
  <2>1. TypeOK /\ n <= MaxEntries
    BY DEF IInv, WindowVerifies
  <2>2. entries \in Seq(Entry) /\ nextSeq \in Nat
    BY <2>1 DEF TypeOK
  <2>3. n \in Nat
    BY <2>2
  <2>4. e \in Entry
    BY <2>1, NextEntryType
  <2>5. MaxEntries \in Nat \ {0}
    BY ConstantsAssumption
  <2> QED
    BY <2>1, <2>2, <2>3, <2>4, <2>5
<1>2. /\ r \in Seq(Entry) /\ k \in 1..MaxEntries /\ k \in Nat /\ r[k] = e /\ k <= n + 1
      /\ \A i \in 1..(k - 1) : i + n + 1 - k \in 1..n /\ r[i] = entries[i + n + 1 - k]
  <2>1. /\ r \in Seq(Entry) /\ k \in 1..MaxEntries /\ r[k] = e /\ k <= n + 1
        /\ \A i \in 1..(k - 1) : i + n + 1 - k \in 1..n /\ r[i] = entries[i + n + 1 - k]
    <3> HIDE DEF e
    <3> QED
      BY Zenon, <1>1, RingProperties
  <2> HIDE DEF e, r, n, k
  <2> QED
    BY <1>1, <2>1
<1>3. /\ \A i \in 1..n : entries[i].seq + n = nextSeq + i - 1
      /\ \A i \in 1..n : entries[i].seq \in Nat
      /\ \A i \in 1..n :
            /\ entries[i].hash = computeHash(entries[i].id, entries[i].seq, entries[i].zone,
                                             entries[i].details, entries[i].prev)
            /\ i = 1 => (entries[i].seq = 0 => entries[i].prev = GenesisHash)
            /\ i > 1 => entries[i].prev = entries[i - 1].hash
  <2>1. \A i \in 1..n : entries[i].seq \in Nat
    <3>1. \A i \in 1..n : entries[i] \in Entry
      BY <1>1
    <3>2. \A x \in Entry : x.seq \in Nat
      BY DEF Entry
    <3> QED
      BY <3>1, <3>2
  <2> QED
    BY <2>1 DEF IInv, WindowVerifies, Verify
<1>4. /\ e.seq = nextSeq /\ e.prev = PrevHash
      /\ e.hash = computeHash(e.id, e.seq, e.zone, e.details, e.prev)
    BY DEF NextEntry
<1>5. n # 0 => PrevHash = entries[n].hash
    BY <1>1 DEF PrevHash
<1>6. n = 0 => PrevHash = resumedHash
    BY <1>1 DEF PrevHash
<1>7. nextSeq = 0 => resumedHash = GenesisHash
    BY DEF IInv, GenesisReady
<1> HIDE DEF e, r, n, k
<1>0. n \in Nat /\ k \in Nat /\ k >= 1 /\ k <= n + 1 /\ nextSeq \in Nat
    BY <1>1, <1>2
<1>8. ASSUME NEW i \in 1..k PROVE r[i].seq + k = nextSeq + 1 + i - 1
  <2>1. CASE i = k
    BY <1>1, <1>2, <1>4, <2>1
  <2>2. CASE i < k
    <3>1. i \in 1..(k - 1)
      BY <1>2, <2>2
    <3>2. PICK j \in 1..n : j = i + n + 1 - k /\ r[i] = entries[j]
      BY <1>2, <3>1
    <3>3. entries[j].seq + n = nextSeq + j - 1 /\ entries[j].seq \in Nat
      BY <1>3, <3>2
    <3> QED
      BY <1>0, <3>2, <3>3
  <2> QED
    BY <1>2, <2>1, <2>2
<1>9. ASSUME NEW i \in 1..k
      PROVE  /\ r[i].hash = computeHash(r[i].id, r[i].seq, r[i].zone, r[i].details, r[i].prev)
             /\ i = 1 => (r[i].seq = 0 => r[i].prev = GenesisHash)
             /\ i > 1 => r[i].prev = r[i - 1].hash
  <2>1. CASE i = k /\ n = 0
    BY <1>1, <1>2, <1>4, <1>6, <1>7, <2>1
  <2>2. CASE i = k /\ n # 0
    <3>1. n \in 1..n /\ entries[n].seq + n = nextSeq + n - 1 /\ entries[n].seq \in Nat
      BY <1>1, <1>3, <2>2
    <3>2. nextSeq # 0
      BY <1>1, <3>1
    <3>3. i > 1 => k - 1 \in 1..(k - 1) /\ r[k - 1] = entries[n]
      <4> SUFFICES ASSUME i > 1 PROVE k - 1 \in 1..(k - 1) /\ r[k - 1] = entries[n]
        OBVIOUS
      <4>1. k - 1 \in 1..(k - 1) /\ k - 1 + n + 1 - k = n
        BY <1>1, <1>2, <2>2
      <4> QED
        BY <1>2, <4>1
    <3> QED
      BY <1>2, <1>4, <1>5, <2>2, <3>2, <3>3
  <2>3. CASE i < k
    <3>1. i \in 1..(k - 1)
      BY <1>2, <2>3
    <3>2. PICK j \in 1..n : j = i + n + 1 - k /\ r[i] = entries[j]
      BY <1>2, <3>1
    <3>3. CASE i > 1
      <4>1. i - 1 \in 1..(k - 1) /\ i - 1 + n + 1 - k = j - 1 /\ j > 1
        BY <1>0, <3>1, <3>2, <3>3
      <4>2. r[i - 1] = entries[j - 1]
        BY <1>2, <4>1
      <4> QED
        BY <1>3, <3>2, <3>3, <4>1, <4>2
    <3>4. CASE i = 1
      <4>1. entries[j].seq + n = nextSeq + j - 1 /\ entries[j].seq \in Nat
        BY <1>3, <3>2
      <4>2. entries[1].seq + n = nextSeq + 1 - 1 /\ entries[1].seq \in Nat
        BY <1>3, <3>2, <1>1
      <4>3. entries[j].seq = 0 => j = 1
        BY <1>0, <4>1, <4>2, ZeroIsFirst, Zenon
      <4> QED
        BY <1>3, <3>2, <3>4, <4>3
    <3> QED
      BY <3>2, <3>3, <3>4
  <2> QED
    BY <1>1, <1>2, <2>1, <2>2, <2>3
<1>10. Verify(r)
    BY Zenon, <1>9 DEF Verify, k
<1>11. k <= MaxEntries
    BY <1>1, <1>2
<1> QED
    BY Zenon, <1>8, <1>10, <1>11 DEF k, r, e

\* The initial state satisfies the invariant.
LEMMA InitInductive ==
    ASSUME Init
    PROVE  IInv
<1>1. TypeOK
  <2>1. entries \in Seq(Entry) /\ file \in Seq(Entry) /\ resumedHash \in Hash
    BY DEF Init, GenesisHash, Hash
  <2>2. DOMAIN db = {} /\ db \in [DOMAIN db -> Row]
    BY DEF Init
  <2>3. faults \in [refusals : Nat, crashes : Nat, detached : Nat, lostResumes : Nat]
    BY DEF Init, NoFaults
  <2> QED
    BY Zenon, <2>1, <2>2, <2>3 DEF Init, TypeOK
<1>2. WritersOK /\ SeqBound /\ AboveRows /\ LinkReady /\ HolesReady /\ GenesisReady
    BY DEF Init, WritersOK, SeqBound, AboveRows, LinkReady, HolesReady, GenesisReady, Attached
<1>3. WindowVerifies
    BY ConstantsAssumption DEF Init, WindowVerifies, Verify
<1>4. AckedDurable /\ ConsecutiveRowsLinked /\ HolesAreRefusals
    BY DEF Init, AckedDurable, ConsecutiveRowsLinked, HolesAreRefusals
<1> QED
    BY <1>1, <1>2, <1>3, <1>4 DEF IInv

\* What both outcomes of Append do to the chain.
LEMMA AppendChain ==
    ASSUME IInv, NEW pay \in Details, entries' = Ring(NextEntry(pay)), nextSeq' = nextSeq + 1,
           issued' = issued + 1, UNCHANGED resumedHash
    PROVE  /\ entries' \in Seq(Entry) /\ nextSeq' \in Nat /\ issued' \in Nat
           /\ resumedHash' \in Hash
           /\ entries' # <<>>
           /\ PrevHash' = NextEntry(pay).hash
           /\ WindowVerifies'
           /\ GenesisReady'
           /\ nextSeq' <= issued'
<1>1. TypeOK /\ NextEntry(pay) \in Entry /\ Len(entries) <= MaxEntries
    BY NextEntryType DEF IInv, WindowVerifies
<1>2. /\ Ring(NextEntry(pay)) \in Seq(Entry) /\ Len(Ring(NextEntry(pay))) \in 1..MaxEntries
      /\ Ring(NextEntry(pay))[Len(Ring(NextEntry(pay)))] = NextEntry(pay)
    BY <1>1, RingProperties
<1>3. nextSeq \in Nat /\ issued \in Nat /\ resumedHash \in Hash /\ nextSeq <= issued
    BY DEF IInv, TypeOK, SeqBound
<1>4. WindowVerifies'
  <2>1. PICK r : r = Ring(NextEntry(pay))
    OBVIOUS
  <2>2. /\ Verify(r) /\ Len(r) <= MaxEntries
        /\ \A i \in 1..Len(r) : r[i].seq + Len(r) = nextSeq + 1 + i - 1
    BY <2>1, AppendWindow
  <2> QED
    BY Zenon, <2>1, <2>2 DEF WindowVerifies, Verify, computeHash, Marshal
<1>5. Ring(NextEntry(pay)) # <<>>
    BY <1>2, ConstantsAssumption
<1>6. PrevHash' = NextEntry(pay).hash
    BY <1>2, <1>5 DEF PrevHash
<1> QED
    BY <1>2, <1>3, <1>4, <1>5, <1>6 DEF GenesisReady

\* Append, the row being written (or no store attached).
LEMMA AcceptedInductive ==
    ASSUME IInv, NEW w \in Writers, NEW pay \in Details, AppendAccepted(w, pay)
    PROVE  IInv'
<1> DEFINE e == NextEntry(pay)
<1>1. /\ TypeOK /\ e \in Entry /\ e.seq = nextSeq /\ e.prev = PrevHash
      /\ nextSeq \in Nat /\ issued \in Nat
    BY NextEntryType DEF IInv, TypeOK, NextEntry
<1>2. /\ entries' \in Seq(Entry) /\ nextSeq' \in Nat /\ issued' \in Nat
      /\ resumedHash' \in Hash /\ entries' # <<>> /\ PrevHash' = e.hash
      /\ WindowVerifies' /\ GenesisReady' /\ nextSeq' <= issued'
    BY AppendChain DEF AppendAccepted
<1>3. /\ nextSeq' = nextSeq + 1 /\ issued' = issued + 1 /\ up /\ up' = up
      /\ sink' = sink /\ refused' = refused /\ Resumed' = Resumed
      /\ faults' = faults /\ file' = file /\ zone' = zone
      /\ db' = IF sink THEN Write(e) ELSE db
      /\ acked' = IF sink THEN acked \cup {[by |-> w, entry |-> e]} ELSE acked
    BY DEF AppendAccepted, Resumed
<1>4. /\ DOMAIN Write(e) = DOMAIN db \cup {nextSeq}
      /\ DOMAIN Write(e) \subseteq Nat /\ Write(e) \in [DOMAIN Write(e) -> Row]
      /\ \A s \in DOMAIN db : Write(e)[s] = db[s]
      /\ nextSeq \notin DOMAIN db => Write(e)[nextSeq] = RowOf(e)
    BY Zenon, <1>1, WriteProperties
<1>5. DOMAIN db \subseteq Nat /\ db \in [DOMAIN db -> Row]
    BY DEF IInv, TypeOK
<1>6. RowOf(e).prev = PrevHash /\ RowOf(e).hash = e.hash
    BY <1>1 DEF RowOf
<1> HIDE DEF e
<1>7. TypeOK'
  <2>1. pc' \in [Writers -> {"idle", "pick", "write"}] /\ held' \in [Writers -> SUBSET Entry]
    <3>1. AfterAppend(w, e)
      BY DEF AppendAccepted, e
    <3>2. pc \in [Writers -> {"idle", "pick", "write"}] /\ held \in [Writers -> SUBSET Entry]
      BY <1>1 DEF TypeOK
    <3>3. pc' \in [Writers -> {"idle", "pick", "write"}]
      BY <3>1, <3>2 DEF AfterAppend
    <3>4. held' \in [Writers -> SUBSET Entry]
      BY <1>1, <3>1, <3>2 DEF AfterAppend
    <3> QED
      BY <3>3, <3>4
  <2>2. DOMAIN db' \subseteq Nat /\ db' \in [DOMAIN db' -> Row]
    BY <1>3, <1>4, <1>5
  <2>3. acked' \subseteq [by : Writers, entry : Entry]
    BY <1>1, <1>3 DEF TypeOK
  <2> QED
    BY <1>1, <1>2, <1>3, <2>1, <2>2, <2>3 DEF TypeOK
<1>8. WritersOK'
    BY <1>2, <1>3 DEF WritersOK
<1>9. SeqBound'
  <2>1. nextSeq <= issued /\ \A s \in DOMAIN db : s < issued
    BY DEF IInv, SeqBound
  <2> QED
    BY <1>1, <1>2, <1>3, <1>4, <1>5, <2>1 DEF SeqBound
<1>10. Attached => nextSeq \notin DOMAIN db
    BY <1>1 DEF IInv, AboveRows
<1>11. Attached' <=> Attached
    BY <1>3 DEF Attached
<1>12. AboveRows'
    BY <1>1, <1>3, <1>4, <1>5, <1>11 DEF IInv, AboveRows, Attached
<1>13. LinkReady'
  <2> SUFFICES ASSUME Attached, NEW s \in DOMAIN db', s + 1 = nextSeq'
               PROVE  db'[s].hash = PrevHash'
    BY <1>11 DEF LinkReady
  <2>1. s = nextSeq
    BY <1>1, <1>3, <1>4, <1>5
  <2> QED
    BY <1>2, <1>3, <1>4, <1>6, <1>10, <2>1 DEF Attached
<1>14. HolesReady'
  <2> SUFFICES ASSUME Attached, NEW t \in Nat, t < nextSeq'
               PROVE  t \in DOMAIN db' \/ \E x \in refused' : x.seq = t
    BY <1>11 DEF HolesReady
  <2>1. t < nextSeq \/ t = nextSeq
    BY <1>1, <1>3
  <2> QED
    BY <1>3, <1>4, <2>1 DEF IInv, HolesReady, Attached
<1>15. AckedDurable'
  <2> SUFFICES ASSUME Resumed, NEW a \in acked'
               PROVE  a.entry.seq \in DOMAIN db' /\ db'[a.entry.seq] = RowOf(a.entry)
    BY Zenon, <1>3 DEF AckedDurable, RowOf
  <2>1. CASE a \in acked
    BY <1>3, <1>4, <2>1 DEF IInv, AckedDurable
  <2>2. CASE a \notin acked
    <3>1. sink /\ a.entry = e
      BY <1>3, <2>2
    <3> QED
      BY <1>1, <1>3, <1>4, <1>10, <3>1 DEF Attached
  <2> QED
    BY <2>1, <2>2
<1>16. ConsecutiveRowsLinked'
  <2> SUFFICES ASSUME Resumed, NEW s \in DOMAIN db', s + 1 \in DOMAIN db'
               PROVE  db'[s + 1].prev = db'[s].hash
    BY <1>3 DEF ConsecutiveRowsLinked
  <2>1. CASE ~sink
    BY <1>3, <2>1 DEF IInv, ConsecutiveRowsLinked
  <2>2. CASE sink
    <3>1. Attached /\ \A t \in DOMAIN db : t < nextSeq
      BY <1>3, <2>2 DEF Attached, IInv, AboveRows
    <3>2. s \in DOMAIN db
      BY <1>1, <1>3, <1>4, <1>5, <2>2, <3>1
    <3>3. CASE s + 1 \in DOMAIN db
      BY <1>3, <1>4, <2>2, <3>2, <3>3 DEF IInv, ConsecutiveRowsLinked
    <3>4. CASE s + 1 \notin DOMAIN db
      <4>1. s + 1 = nextSeq
        BY <1>3, <1>4, <2>2, <3>4
      <4>2. db[s].hash = PrevHash
        BY <3>1, <3>2, <4>1 DEF IInv, LinkReady
      <4> QED
        BY <1>3, <1>4, <1>6, <1>10, <2>2, <3>1, <3>2, <4>1, <4>2
    <3> QED
      BY <3>3, <3>4
  <2> QED
    BY <2>1, <2>2
<1>17. HolesAreRefusals'
  <2> SUFFICES ASSUME Resumed, NEW s \in DOMAIN db', NEW t \in 0..s
               PROVE  t \in DOMAIN db' \/ \E x \in refused' : x.seq = t
    BY <1>3 DEF HolesAreRefusals
  <2>1. CASE s \in DOMAIN db
    BY <1>3, <1>4, <2>1 DEF IInv, HolesAreRefusals
  <2>2. CASE s \notin DOMAIN db
    <3>1. sink /\ s = nextSeq
      BY <1>3, <1>4, <2>2
    <3>2. t \in Nat /\ t < nextSeq'
      BY <1>1, <1>3, <3>1
    <3> QED
      BY <1>3, <1>14, <3>1, <3>2 DEF HolesReady, Attached
  <2> QED
    BY <2>1, <2>2
<1> QED
    BY <1>2, <1>7, <1>8, <1>9, <1>12, <1>13, <1>14, <1>15, <1>16, <1>17 DEF IInv

\* Append, the durable write failing.
LEMMA RefusedInductive ==
    ASSUME IInv, NEW w \in Writers, NEW pay \in Details, AppendRefused(w, pay)
    PROVE  IInv'
<1> DEFINE e == NextEntry(pay)
<1>1. /\ TypeOK /\ e \in Entry /\ e.seq = nextSeq /\ nextSeq \in Nat /\ issued \in Nat
    BY NextEntryType DEF IInv, TypeOK, NextEntry
<1>2. /\ entries' \in Seq(Entry) /\ nextSeq' \in Nat /\ issued' \in Nat
      /\ resumedHash' \in Hash /\ entries' # <<>>
      /\ WindowVerifies' /\ GenesisReady' /\ nextSeq' <= issued'
    BY AppendChain DEF AppendRefused
<1>3. /\ nextSeq' = nextSeq + 1 /\ issued' = issued + 1 /\ up /\ up' = up
      /\ sink' = sink /\ refused' = refused \cup {e} /\ db' = db /\ acked' = acked
      /\ file' = file /\ zone' = zone /\ pc' = pc /\ held' = held
      /\ faults' = [faults EXCEPT !.refusals = @ + 1]
    BY DEF AppendRefused
<1>4. /\ faults' \in [refusals : Nat, crashes : Nat, detached : Nat, lostResumes : Nat]
      /\ Resumed' = Resumed
  <2>1. faults \in [refusals : Nat, crashes : Nat, detached : Nat, lostResumes : Nat]
    BY DEF IInv, TypeOK
  <2>2. /\ faults' \in [refusals : Nat, crashes : Nat, detached : Nat, lostResumes : Nat]
        /\ faults'.lostResumes = faults.lostResumes
    BY <1>3, <2>1
  <2> QED
    BY <2>2 DEF Resumed
<1>5. DOMAIN db \subseteq Nat
    BY DEF IInv, TypeOK
<1>6. Attached' <=> Attached
    BY <1>3, <1>4 DEF Attached
<1> HIDE DEF e
<1>7. TypeOK'
    BY Zenon, <1>1, <1>2, <1>3, <1>4 DEF TypeOK
<1>8. WritersOK'
    BY <1>2, <1>3 DEF IInv, WritersOK
<1>9. SeqBound' /\ AboveRows'
    BY <1>1, <1>2, <1>3, <1>5, <1>6 DEF IInv, SeqBound, AboveRows
<1>10. LinkReady'
    BY <1>1, <1>3, <1>5, <1>6 DEF IInv, LinkReady, AboveRows
<1>11. HolesReady'
  <2> SUFFICES ASSUME Attached, NEW t \in Nat, t < nextSeq'
               PROVE  t \in DOMAIN db' \/ \E x \in refused' : x.seq = t
    BY <1>6 DEF HolesReady
  <2>1. t < nextSeq \/ t = nextSeq
    BY <1>1, <1>3
  <2> QED
    BY <1>1, <1>3, <2>1 DEF IInv, HolesReady
<1>12. AckedDurable' /\ ConsecutiveRowsLinked' /\ HolesAreRefusals'
    BY <1>3, <1>4 DEF IInv, AckedDurable, ConsecutiveRowsLinked, HolesAreRefusals, RowOf
<1> QED
    BY <1>2, <1>7, <1>8, <1>9, <1>10, <1>11, <1>12 DEF IInv

\* A step that leaves the chain, the table and the histories alone keeps every
\* part of the invariant that speaks only of them.
LEMMA ChainUnchanged ==
    ASSUME IInv, UNCHANGED <<chainVars, db, issued, acked, refused>>,
           up' => up, Resumed' => Resumed
    PROVE  /\ SeqBound' /\ AboveRows' /\ LinkReady' /\ HolesReady' /\ GenesisReady'
           /\ WindowVerifies' /\ AckedDurable' /\ ConsecutiveRowsLinked' /\ HolesAreRefusals'
<1>1. Attached' => Attached
    BY DEF Attached, chainVars
<1>2. PrevHash' = PrevHash
    BY DEF PrevHash, chainVars
<1>3. SeqBound' /\ AboveRows' /\ LinkReady' /\ HolesReady' /\ GenesisReady'
    BY <1>1, <1>2 DEF IInv, SeqBound, AboveRows, LinkReady, HolesReady, GenesisReady, chainVars
<1>4. WindowVerifies'
    BY DEF IInv, WindowVerifies, Verify, computeHash, chainVars
<1>5. AckedDurable' /\ ConsecutiveRowsLinked' /\ HolesAreRefusals'
    BY DEF IInv, AckedDurable, ConsecutiveRowsLinked, HolesAreRefusals, RowOf, chainVars
<1> QED
    BY <1>3, <1>4, <1>5

\* The steps that follow Append, and a crash.
LEMMA WriterInductive ==
    ASSUME IInv, (\E w \in Writers : PickLast(w) \/ WriteFile(w)) \/ Crash
    PROVE  IInv'
<1>1. /\ UNCHANGED <<chainVars, db, issued, acked, refused, zone>>
      /\ up' => up
      /\ faults' \in [refusals : Nat, crashes : Nat, detached : Nat, lostResumes : Nat]
      /\ Resumed' = Resumed
  <2>1. faults \in [refusals : Nat, crashes : Nat, detached : Nat, lostResumes : Nat]
    BY DEF IInv, TypeOK
  <2>2. faults' = faults \/ faults' = [faults EXCEPT !.crashes = @ + 1]
    BY DEF PickLast, WriteFile, Crash
  <2>3. /\ faults' \in [refusals : Nat, crashes : Nat, detached : Nat, lostResumes : Nat]
        /\ faults'.lostResumes = faults.lostResumes
    BY <2>1, <2>2
  <2> QED
    BY <2>3 DEF PickLast, WriteFile, Crash, Resumed, chainVars
<1>2. /\ SeqBound' /\ AboveRows' /\ LinkReady' /\ HolesReady' /\ GenesisReady'
      /\ WindowVerifies' /\ AckedDurable' /\ ConsecutiveRowsLinked' /\ HolesAreRefusals'
    BY <1>1, ChainUnchanged
<1>3. TypeOK
    BY DEF IInv
<1>4. /\ pc' \in [Writers -> {"idle", "pick", "write"}] /\ held' \in [Writers -> SUBSET Entry]
      /\ up' \in BOOLEAN /\ file' \in Seq(Entry) /\ WritersOK'
  <2>1. CASE \E w \in Writers : PickLast(w)
    <3>1. PICK w \in Writers : PickLast(w)
      BY <2>1
    <3>2. entries \in Seq(Entry) /\ entries # <<>>
      BY <1>3, <3>1 DEF IInv, WritersOK, TypeOK, PickLast
    <3>3. entries[Len(entries)] \in Entry
      BY <3>2
    <3> QED
      BY <1>3, <3>1, <3>3 DEF IInv, WritersOK, TypeOK, PickLast, chainVars
  <2>2. CASE \E w \in Writers : WriteFile(w)
    <3>1. PICK w \in Writers : WriteFile(w)
      BY <2>2
    <3>2. file' \in Seq(Entry)
      BY <1>3, <3>1 DEF TypeOK, WriteFile
    <3> QED
      BY <1>3, <3>1, <3>2 DEF IInv, WritersOK, TypeOK, WriteFile, chainVars
  <2>3. CASE Crash
    BY Zenon, <1>3, <2>3 DEF WritersOK, TypeOK, Crash
  <2> QED
    BY <2>1, <2>2, <2>3
<1>5. TypeOK'
    BY <1>1, <1>3, <1>4 DEF TypeOK, chainVars
<1> QED
    BY <1>2, <1>4, <1>5 DEF IInv

\* A start of the agent: the chain is empty and takes up where the table ends,
\* unless no store is attached or its last row could not be read.
LEMMA RestartInductive ==
    ASSUME IInv, Restart \/ RestartUnresumed \/ RestartDetached
    PROVE  IInv'
<1>1. /\ TypeOK /\ SeqBound /\ ~up /\ entries' = <<>> /\ db' = db
      /\ pc' = pc /\ held' = held /\ issued' = issued /\ acked' = acked
      /\ refused' = refused /\ file' = file /\ up' /\ zone' \in Zones
      /\ sink' \in BOOLEAN
    BY Zenon DEF IInv, Restart, RestartUnresumed, RestartDetached, FreshChain
<1>2. /\ faults' \in [refusals : Nat, crashes : Nat, detached : Nat, lostResumes : Nat]
      /\ Resumed' => Resumed
      /\ RestartUnresumed => ~Resumed'
  <2>1. faults \in [refusals : Nat, crashes : Nat, detached : Nat, lostResumes : Nat]
    BY <1>1 DEF TypeOK
  <2>2. CASE Restart
    BY <2>1, <2>2 DEF Restart, Resumed, RestartUnresumed
  <2>3. CASE RestartUnresumed
    <3>1. faults' = [faults EXCEPT !.lostResumes = @ + 1]
      BY <2>3 DEF RestartUnresumed
    <3>2. faults'.lostResumes = faults.lostResumes + 1
      BY <2>1, <3>1
    <3> QED
      BY <2>1, <3>1, <3>2 DEF Resumed
  <2>4. CASE RestartDetached
    <3>1. faults' = [faults EXCEPT !.detached = @ + 1] /\ ~sink'
      BY <2>4 DEF RestartDetached
    <3>2. faults'.lostResumes = faults.lostResumes
      BY <2>1, <3>1
    <3> QED
      BY <2>1, <3>1, <3>2 DEF Resumed, RestartUnresumed
  <2> QED
    BY <2>2, <2>3, <2>4
<1>3. DOMAIN db # {} => LastSeq \in DOMAIN db /\ \A t \in DOMAIN db : t <= LastSeq
    BY <1>1, LastSeqMax
<1>4. DOMAIN db \subseteq Nat /\ db \in [DOMAIN db -> Row] /\ issued \in Nat
    BY <1>1 DEF TypeOK
<1>5. \A r \in Row : r.hash \in Hash
    BY DEF Row
<1>6. GenesisHash \in Hash
    BY DEF GenesisHash, Hash
<1>7. /\ nextSeq' \in Nat /\ resumedHash' \in Hash /\ nextSeq' <= issued
      /\ GenesisReady'
  <2>1. CASE nextSeq' = 0 /\ resumedHash' = GenesisHash
    BY <1>4, <1>6, <2>1 DEF GenesisReady
  <2>2. CASE Restart /\ DOMAIN db # {}
    <3>1. nextSeq' = LastSeq + 1 /\ resumedHash' = db[LastSeq].hash
      BY <2>2 DEF Restart
    <3>2. LastSeq \in Nat /\ LastSeq < issued /\ db[LastSeq] \in Row
      BY <1>1, <1>3, <1>4, <2>2 DEF SeqBound
    <3> QED
      BY <1>4, <1>5, <3>1, <3>2 DEF GenesisReady
  <2> QED
    BY Zenon, <2>1, <2>2 DEF Restart, RestartUnresumed, RestartDetached
<1>8. TypeOK'
  <2>1. entries' \in Seq(Entry)
    BY <1>1
  <2> QED
    BY <1>1, <1>2, <1>4, <1>7, <2>1 DEF TypeOK
<1>9. WritersOK' /\ SeqBound' /\ GenesisReady'
    BY <1>1, <1>4, <1>7 DEF IInv, WritersOK, SeqBound
<1>10. WindowVerifies'
  <2>1. Len(entries') = 0
    BY <1>1
  <2> QED
    BY <2>1, ConstantsAssumption DEF WindowVerifies, Verify
<1>11. AckedDurable' /\ ConsecutiveRowsLinked' /\ HolesAreRefusals'
    BY Zenon, <1>1, <1>2 DEF IInv, AckedDurable, ConsecutiveRowsLinked, HolesAreRefusals, RowOf
<1>12. ASSUME Attached' PROVE Restart /\ Resumed
    BY <1>2, <1>12 DEF Attached, RestartDetached
<1>13. AboveRows'
    BY <1>1, <1>3, <1>4, <1>12 DEF AboveRows, Restart
<1>14. LinkReady'
  <2> SUFFICES ASSUME Attached', NEW s \in DOMAIN db', s + 1 = nextSeq'
               PROVE  db'[s].hash = PrevHash'
    BY DEF LinkReady
  <2>1. DOMAIN db # {} /\ nextSeq' = LastSeq + 1 /\ resumedHash' = db[LastSeq].hash
    BY <1>1, <1>12 DEF Restart
  <2>2. s = LastSeq
    BY <1>1, <1>3, <1>4, <2>1
  <2> QED
    BY <1>1, <2>1, <2>2 DEF PrevHash
<1>15. HolesReady'
  <2> SUFFICES ASSUME Attached', NEW t \in Nat, t < nextSeq'
               PROVE  t \in DOMAIN db' \/ \E x \in refused' : x.seq = t
    BY DEF HolesReady
  <2>1. DOMAIN db # {} /\ nextSeq' = LastSeq + 1
    BY <1>1, <1>12 DEF Restart
  <2>2. t \in 0..LastSeq
    BY <1>3, <1>4, <2>1
  <2> QED
    BY <1>1, <1>3, <1>12, <2>1, <2>2 DEF IInv, HolesAreRefusals
<1> QED
    BY <1>8, <1>9, <1>10, <1>11, <1>13, <1>14, <1>15 DEF IInv

\* IInv is an invariant of the audit trail.
THEOREM Inductive == Spec => []IInv
<1>1. Init => IInv
    BY InitInductive
<1>2. IInv /\ [Next]_vars => IInv'
  <2> SUFFICES ASSUME IInv, [Next]_vars PROVE IInv'
    OBVIOUS
  <2>1. CASE UNCHANGED vars
    <3>1. UNCHANGED <<chainVars, db, issued, acked, refused>> /\ up' = up /\ Resumed' = Resumed
      BY <2>1 DEF vars, chainVars, Resumed
    <3>2. TypeOK' /\ WritersOK'
      BY <2>1 DEF IInv, TypeOK, WritersOK, vars
    <3> QED
      BY <3>1, <3>2, ChainUnchanged DEF IInv
  <2>2. CASE Next
    BY <2>2, PayloadTypes, AcceptedInductive, RefusedInductive, WriterInductive, RestartInductive DEF Next
  <2> QED
    BY <2>1, <2>2
<1> QED
    BY <1>1, <1>2, PTL DEF Spec

\* Every variable of the audit trail keeps its type.
THEOREM TypeCorrect == Spec => []TypeOK
BY Inductive, PTL DEF IInv

\* Chain.Verify accepts the in-memory window in every reachable state.
THEOREM WindowAlwaysVerifies == Spec => []WindowVerifies
BY Inductive, PTL DEF IInv

\* An entry Append accepted with a store attached is never lost.
THEOREM AcceptedEntriesDurable == Spec => []AckedDurable
BY Inductive, PTL DEF IInv

\* The table never forks, and has no hole but a refused write.
THEOREM TableIntegrity == Spec => [](ConsecutiveRowsLinked /\ HolesAreRefusals)
BY Inductive, PTL DEF IInv

\* The bound on unresumed starts is kept.
LEMMA LostResumesBounded == Spec => [](faults.lostResumes <= MaxLostResumes)
<1> DEFINE B == faults.lostResumes <= MaxLostResumes
<1>1. Init => B
    BY ConstantsAssumption DEF Init, NoFaults
<1>2. IInv /\ B /\ [Next]_vars => B'
  <2> SUFFICES ASSUME IInv, B, [Next]_vars PROVE B'
    OBVIOUS
  <2>1. /\ faults \in [refusals : Nat, crashes : Nat, detached : Nat, lostResumes : Nat]
        /\ MaxLostResumes \in Nat
    BY ConstantsAssumption DEF IInv, TypeOK
  <2>2. \/ faults' = faults
        \/ faults' = [faults EXCEPT !.refusals = @ + 1]
        \/ faults' = [faults EXCEPT !.crashes = @ + 1]
        \/ faults' = [faults EXCEPT !.detached = @ + 1]
        \/ faults.lostResumes < MaxLostResumes /\ faults' = [faults EXCEPT !.lostResumes = @ + 1]
    BY DEF Next, AppendAccepted, AppendRefused, PickLast, WriteFile, Crash, Restart,
           RestartUnresumed, RestartDetached, vars
  <2> QED
    BY <2>1, <2>2
<1> QED
    BY <1>1, <1>2, Inductive, PTL DEF Spec

\* While Resumed, a step that changes the table extends the log: AboveRows puts
\* the row below nextSeq and so above every other.
LEMMA ExtendsLog ==
    ASSUME IInv, Resumed, Next, db' # db
    PROVE  Log!Extend
<1>1. PICK w \in Writers, pay \in Details : AppendAccepted(w, pay)
    BY PayloadTypes DEF Next, AppendRefused, PickLast, WriteFile, Crash, Restart, RestartUnresumed,
           RestartDetached, FreshChain, vars
<1>2. TypeOK /\ NextEntry(pay) \in Entry /\ NextEntry(pay).seq = nextSeq /\ nextSeq \in Nat
    BY NextEntryType DEF IInv, TypeOK, NextEntry
<1>3. sink /\ up /\ db' = Write(NextEntry(pay))
    BY <1>1 DEF AppendAccepted
<1>4. Attached
    BY <1>2, <1>3 DEF TypeOK, Attached, Resumed
<1>5. DOMAIN db \subseteq Nat /\ \A s \in DOMAIN db : s < nextSeq
    BY <1>2, <1>4 DEF IInv, AboveRows, TypeOK
<1>6. /\ DOMAIN db' = DOMAIN db \cup {nextSeq} /\ db'[nextSeq] \in Row
      /\ \A s \in DOMAIN db : db'[s] = db[s]
    BY Zenon, <1>2, <1>3, WriteProperties
<1> QED
    BY <1>2, <1>5, <1>6 DEF Log!Extend

\* The audit_entries table (sqlite_store.go) is an append-only log as long as
\* every start could read the last row back.
THEOREM LogKept == Spec => LogUnlessLost
<1>1. Init => Log!Init
    BY DEF Init, Log!Init
<1>2. IInv /\ [Next]_vars => [Resumed => Log!Extend]_db
    BY ExtendsLog DEF vars
<1> QED
    BY <1>1, <1>2, Inductive, PTL DEF Spec, LogUnlessLost

\* Where LastSeqHash never fails, the chain and its table implement AuditLog:
\* every step of the agent, restarts included, adds one row or leaves db alone.
THEOREM ImplementsLog ==
    ASSUME MaxLostResumes = 0
    PROVE  Spec => LogSpec
<1>1. Init => Log!Init
    BY DEF Init, Log!Init
<1>2. IInv /\ faults.lostResumes <= MaxLostResumes => Resumed
    BY DEF IInv, TypeOK, Resumed
<1>3. IInv /\ Resumed /\ [Next]_vars => [Log!Extend]_db
    BY ExtendsLog DEF vars
<1> QED
    BY <1>1, <1>2, <1>3, Inductive, LostResumesBounded, PTL DEF Spec, LogSpec, Log!Spec

-----------------------------------------------------------------------------
(* What VerifyChain decides.  A digest says which sequence number it ends  *)
(* with; that every row and the chain itself agree with it is inductive on *)
(* top of IInv, and needs no start to have read the last row back.         *)

\* What computeHash digests on top of the previous hash.
Content(i, n, z, g) == [id |-> i, seq |-> n, zone |-> z, details |-> Marshal(g)]

\* The sequence number that comes after the digest h is n.
EndsBelow(h, n) == IF n = 0 THEN h = GenesisHash ELSE h # <<>> /\ h[Len(h)].seq = n - 1

\* Row s holds the digest of the content it was appended with, taken in some
\* zone, on top of a digest that s comes after, and that content's JSON.
RowDigested(s) ==
    /\ db[s].seq = s
    /\ \E z \in Zones, g \in Details :
        /\ db[s].hash = computeHash(db[s].id, s, z, g, db[s].prev)
        /\ db[s].details = Marshal(g)
    /\ EndsBelow(db[s].prev, s)

DigestInv == EndsBelow(PrevHash, nextSeq) /\ \A s \in DOMAIN db : RowDigested(s)

\* A digest ends with what was digested last (computeHash, audit.go).
LEMMA DigestEnds ==
    ASSUME NEW h \in Hash, NEW i \in Nat, NEW n \in Nat, NEW z \in Zones, NEW g \in Details
    PROVE  /\ computeHash(i, n, z, g, h) # <<>>
           /\ computeHash(i, n, z, g, h)[Len(computeHash(i, n, z, g, h))] = Content(i, n, z, g)
           /\ EndsBelow(computeHash(i, n, z, g, h), n + 1)
<1>1. PICK d : d = computeHash(i, n, z, g, h)
  OBVIOUS
<1>2. Content(i, n, z, g) \in Digested
  BY DEF Content, Digested, Marshal, Details, JSON
<1>3. d = Append(h, Content(i, n, z, g)) /\ h \in Seq(Digested)
  BY <1>1 DEF Content, computeHash, Hash
<1>4. Len(d) = Len(h) + 1 /\ Len(h) \in Nat /\ d[Len(h) + 1] = Content(i, n, z, g)
  BY <1>2, <1>3
<1>5. d # <<>> /\ d[Len(d)] = Content(i, n, z, g)
  BY <1>4
<1>6. d[Len(d)].seq = n
  BY <1>5 DEF Content
<1>7. EndsBelow(d, n + 1)
  BY <1>5, <1>6 DEF EndsBelow
<1> QED
  BY Zenon, <1>1, <1>5, <1>7

\* Append leaves a chain whose next number comes after its last digest, and a
\* row, when it is written, that holds the digest of its content.
LEMMA AppendDigests ==
    ASSUME IInv, DigestInv, NEW w \in Writers, NEW pay \in Details,
           AppendAccepted(w, pay) \/ AppendRefused(w, pay)
    PROVE  DigestInv'
<1>1. TypeOK /\ PrevHash \in Hash /\ NextEntry(pay) \in Entry /\ Len(entries) <= MaxEntries
  BY NextEntryType DEF IInv, WindowVerifies
<1>2. zone \in Zones /\ issued \in Nat /\ nextSeq \in Nat
  BY <1>1 DEF TypeOK
<1>3. /\ NextEntry(pay).id = issued /\ NextEntry(pay).seq = nextSeq /\ NextEntry(pay).prev = PrevHash
      /\ NextEntry(pay).details = pay /\ NextEntry(pay).hash = computeHash(issued, nextSeq, zone, pay, PrevHash)
  BY DEF NextEntry
<1>4. entries' = Ring(NextEntry(pay)) /\ nextSeq' = nextSeq + 1
  BY Zenon DEF AppendAccepted, AppendRefused
<1>5. EndsBelow(PrevHash, nextSeq)'
  <2>1. entries' # <<>> /\ entries'[Len(entries')] = NextEntry(pay)
    BY <1>1, <1>4, RingProperties
  <2>2. PrevHash' = NextEntry(pay).hash
    BY Zenon, <2>1 DEF PrevHash
  <2>3. EndsBelow(computeHash(issued, nextSeq, zone, pay, PrevHash), nextSeq + 1)
    BY Zenon, <1>1, <1>2, DigestEnds
  <2> QED
    BY Zenon, <1>3, <1>4, <2>2, <2>3 DEF EndsBelow
<1>6. ASSUME NEW s \in DOMAIN db' PROVE RowDigested(s)'
  <2>1. CASE s \in DOMAIN db
    <3>1. db'[s] = db[s]
      BY Zenon, <1>1, <2>1, WriteProperties DEF AppendAccepted, AppendRefused
    <3> QED
      BY <2>1, <3>1 DEF DigestInv, RowDigested, EndsBelow
  <2>2. CASE s \notin DOMAIN db
    <3>1. s = nextSeq /\ db'[s] = RowOf(NextEntry(pay))
      BY Zenon, <1>1, <1>3, <2>2, WriteProperties DEF AppendAccepted, AppendRefused
    <3>2. /\ db'[s].seq = s /\ db'[s].prev = PrevHash
          /\ db'[s].hash = computeHash(db'[s].id, s, zone, pay, db'[s].prev)
          /\ db'[s].details = Marshal(pay)
      BY <1>3, <3>1 DEF RowOf
    <3>3. EndsBelow(db'[s].prev, s)
      BY Zenon, <3>1, <3>2 DEF DigestInv
    <3> QED
      BY Zenon, <1>2, <3>2, <3>3 DEF RowDigested, EndsBelow, computeHash
  <2> QED
    BY <2>1, <2>2
<1> QED
  BY <1>5, <1>6 DEF DigestInv

\* A start resumes from the last row's digest, or from the genesis hash.
LEMMA StartDigests ==
    ASSUME IInv, DigestInv, Restart \/ RestartUnresumed \/ RestartDetached
    PROVE  DigestInv'
<1>1. entries' = <<>> /\ db' = db /\ TypeOK /\ SeqBound
  BY DEF Restart, RestartUnresumed, RestartDetached, FreshChain, IInv
<1>2. PrevHash' = resumedHash'
  BY <1>1 DEF PrevHash
<1>3. EndsBelow(resumedHash', nextSeq')
  <2>1. CASE nextSeq' = 0 /\ resumedHash' = GenesisHash
    BY <2>1 DEF EndsBelow
  <2>2. CASE nextSeq' = LastSeq + 1 /\ resumedHash' = db[LastSeq].hash /\ DOMAIN db # {}
    <3>1. LastSeq \in DOMAIN db /\ DOMAIN db \subseteq Nat /\ db[LastSeq] \in Row
      BY <1>1, <2>2, LastSeqMax DEF TypeOK
    <3>2. PICK z \in Zones, g \in Details :
            db[LastSeq].hash = computeHash(db[LastSeq].id, LastSeq, z, g, db[LastSeq].prev)
      BY Zenon, <3>1 DEF DigestInv, RowDigested
    <3>3. db[LastSeq].id \in Nat /\ db[LastSeq].prev \in Hash /\ LastSeq \in Nat
      BY <3>1 DEF Row
    <3>4. EndsBelow(computeHash(db[LastSeq].id, LastSeq, z, g, db[LastSeq].prev), LastSeq + 1)
      BY Zenon, <3>3, DigestEnds
    <3> QED
      BY Zenon, <2>2, <3>2, <3>4
  <2> QED
    BY Zenon, <2>1, <2>2 DEF Restart, RestartUnresumed, RestartDetached
<1>4. EndsBelow(PrevHash, nextSeq)'
  BY Zenon, <1>2, <1>3 DEF EndsBelow
<1>5. \A s \in DOMAIN db' : RowDigested(s)'
  BY <1>1 DEF DigestInv, RowDigested, EndsBelow
<1> QED
  BY <1>4, <1>5 DEF DigestInv

\* DigestInv is an invariant of the audit trail.
LEMMA DigestsKept == Spec => []DigestInv
<1>1. Init => DigestInv
  BY DEF Init, DigestInv, EndsBelow, PrevHash
<1>2. IInv /\ DigestInv /\ [Next]_vars => DigestInv'
  <2> SUFFICES ASSUME IInv, DigestInv, [Next]_vars PROVE DigestInv'
    OBVIOUS
  <2>1. CASE UNCHANGED <<chainVars, db>>
    <3>1. PrevHash' = PrevHash /\ nextSeq' = nextSeq /\ db' = db
      BY <2>1 DEF PrevHash, chainVars
    <3> QED
      BY <3>1 DEF DigestInv, RowDigested, EndsBelow
  <2>2. CASE \E w \in Writers : \E pay \in Payloads(w) : AppendAccepted(w, pay) \/ AppendRefused(w, pay)
    BY Zenon, <2>2, PayloadTypes, AppendDigests
  <2>3. CASE Restart \/ RestartUnresumed \/ RestartDetached
    BY Zenon, <2>3, StartDigests
  <2>4. CASE Crash \/ \E w \in Writers : PickLast(w) \/ WriteFile(w)
    BY <2>1, <2>4 DEF Crash, PickLast, WriteFile
  <2>5. UNCHANGED vars => UNCHANGED <<chainVars, db>>
    BY DEF vars, chainVars
  <2> QED
    BY Zenon, <2>1, <2>2, <2>3, <2>4, <2>5 DEF Next
<1> QED
  BY <1>1, <1>2, Inductive, PTL DEF Spec

\* The row VerifyChain meets before s is the last one below s.
LEMMA RowBefore ==
    ASSUME IInv, NEW s \in DOMAIN db, NEW t \in DOMAIN db, t < s,
           \A u \in DOMAIN db : u < s => u <= t
    PROVE  PrevRowHash(s) = db[t].hash
<1>1. DOMAIN db \subseteq Nat
  BY DEF IInv, TypeOK
<1>2. PICK below : below = {u \in DOMAIN db : u < s}
  BY Zenon
<1>3. t \in below /\ \A u \in below : u <= t
  BY <1>2
<1>4. \A v \in below : (\A u \in below : u <= v) => v = t
  BY <1>1, <1>2, <1>3
<1>5. (CHOOSE v \in below : \A u \in below : u <= v) = t
  BY Zenon, <1>3, <1>4
<1> QED
  BY Zenon, <1>2, <1>3, <1>5 DEF PrevRowHash

\* A row that is not the first in the table has a last row below it.
LEMMA RowBelow ==
    ASSUME IInv, NEW s \in DOMAIN db, NEW r \in DOMAIN db, r < s
    PROVE  \E t \in DOMAIN db : t < s /\ \A u \in DOMAIN db : u < s => u <= t
<1> DEFINE D == {s - u : u \in {v \in DOMAIN db : v < s}}
<1>1. DOMAIN db \subseteq Nat
  BY DEF IInv, TypeOK
<1>2. D \subseteq Nat /\ D # {}
  BY <1>1
<1>3. PICK d \in D : \A y \in D : ~(<<y, d>> \in OpToRel(<, Nat))
  <2> HIDE DEF D
  <2> QED
    BY Zenon, <1>2, NatLessThanWellFounded, WFMin
<1>4. PICK t \in DOMAIN db : t < s /\ d = s - t
  OBVIOUS
<1>5. ASSUME NEW u \in DOMAIN db, u < s PROVE u <= t
  <2>1. s - u \in D
    BY <1>5
  <2>2. ~(s - u < d)
    BY Zenon, <1>2, <1>3, <2>1 DEF OpToRel
  <2> QED
    BY <1>1, <1>4, <2>2
<1> QED
  BY <1>4, <1>5

\* A table in which every row but row 0 has the row just below it has no holes.
LEMMA NoHoles ==
    ASSUME IInv, \A s \in DOMAIN db : s = 0 \/ s - 1 \in DOMAIN db
    PROVE  \A s \in DOMAIN db : 0..s \subseteq DOMAIN db
<1>1. DOMAIN db \subseteq Nat
  BY DEF IInv, TypeOK
<1> SUFFICES ASSUME NEW s \in DOMAIN db, NEW h \in 0..s, h \notin DOMAIN db PROVE FALSE
  OBVIOUS
<1> DEFINE T == {t \in DOMAIN db : t > h}
<1>2. T \subseteq Nat /\ T # {}
  BY <1>1
<1>3. PICK m \in T : \A y \in T : ~(<<y, m>> \in OpToRel(<, Nat))
  <2> HIDE DEF T
  <2> QED
    BY Zenon, <1>2, NatLessThanWellFounded, WFMin
<1>4. m \in Nat /\ h \in Nat /\ m > h /\ m - 1 \in DOMAIN db
  BY <1>1
<1>5. m - 1 \in T
  BY <1>1, <1>4
<1>6. ~(m - 1 < m)
  BY Zenon, <1>2, <1>3, <1>5 DEF OpToRel
<1> QED
  BY <1>4, <1>6

\* What a row's digest says: where it ends, and that VerifyChain computes it
\* again exactly in the zone it was taken in and from JSON it reads as it was.
LEMMA RowDigest ==
    ASSUME IInv, DigestInv, NEW s \in DOMAIN db
    PROVE  /\ s \in Nat /\ db[s].seq = s /\ EndsBelow(db[s].prev, s)
           /\ db[s].hash # <<>> /\ db[s].hash[Len(db[s].hash)].seq = s
           /\ db[s].hash[Len(db[s].hash)].zone = zone /\ db[s].details # "escaped"
                <=> computeHash(db[s].id, db[s].seq, zone, Unmarshal(db[s].details), db[s].prev)
                      = db[s].hash
<1>1. s \in Nat /\ db[s] \in Row /\ zone \in Zones
  BY DEF IInv, TypeOK
<1>2. db[s].id \in Nat /\ db[s].prev \in Hash
  BY <1>1 DEF Row
<1>3. db[s].seq = s /\ EndsBelow(db[s].prev, s)
  BY Zenon DEF DigestInv, RowDigested
<1>4. PICK z \in Zones, g \in Details :
        /\ db[s].hash = computeHash(db[s].id, s, z, g, db[s].prev)
        /\ db[s].details = Marshal(g)
  BY Zenon DEF DigestInv, RowDigested
<1>5. ASSUME NEW y \in Zones, NEW f \in Details, NEW d,
             computeHash(db[s].id, s, y, f, db[s].prev) = d
      PROVE  d # <<>> /\ d[Len(d)].seq = s /\ d[Len(d)].zone = y /\ d[Len(d)].details = Marshal(f)
  <2>1. PICK i \in Nat, h \in Hash : i = db[s].id /\ h = db[s].prev
    BY Zenon, <1>2
  <2>2. computeHash(i, s, y, f, h) = d
    BY Zenon, <1>5, <2>1
  <2>3. d # <<>> /\ d[Len(d)] = Content(i, s, y, f)
    BY Zenon, <1>1, <2>2, DigestEnds
  <2>4. /\ Content(i, s, y, f).seq = s /\ Content(i, s, y, f).zone = y
        /\ Content(i, s, y, f).details = Marshal(f)
    BY DEF Content
  <2> QED
    BY Zenon, <2>3, <2>4
<1>6. /\ db[s].hash # <<>> /\ db[s].hash[Len(db[s].hash)].seq = s
      /\ db[s].hash[Len(db[s].hash)].zone = z /\ db[s].hash[Len(db[s].hash)].details = Marshal(g)
  BY <1>4, <1>5
<1>7. Unmarshal(Marshal(g)) \in Details
  BY DEF Unmarshal, Marshal, Details
<1>8. Marshal(g) # "escaped" => Unmarshal(Marshal(g)) = g
  BY DEF Unmarshal, Marshal, Details
<1>9. Marshal(Unmarshal(Marshal(g))) = Marshal(g) => Marshal(g) # "escaped"
  BY DEF Unmarshal, Marshal, Details
<1>10. computeHash(db[s].id, s, zone, Unmarshal(db[s].details), db[s].prev) = db[s].hash
         => db[s].hash[Len(db[s].hash)].zone = zone /\ db[s].details # "escaped"
  <2> SUFFICES ASSUME computeHash(db[s].id, s, zone, Unmarshal(db[s].details), db[s].prev) = db[s].hash
               PROVE  db[s].hash[Len(db[s].hash)].zone = zone /\ db[s].details # "escaped"
    BY Zenon
  <2>1. /\ db[s].hash[Len(db[s].hash)].zone = zone
        /\ db[s].hash[Len(db[s].hash)].details = Marshal(Unmarshal(db[s].details))
    BY <1>1, <1>4, <1>5, <1>7
  <2> QED
    BY Zenon, <1>4, <1>6, <1>9, <2>1
<1>11. db[s].hash[Len(db[s].hash)].zone = zone /\ db[s].details # "escaped"
         => computeHash(db[s].id, s, zone, Unmarshal(db[s].details), db[s].prev) = db[s].hash
  BY Zenon, <1>4, <1>6, <1>8
<1> QED
  BY Zenon, <1>1, <1>3, <1>6, <1>10, <1>11

\* While Resumed, VerifyChain finds every row linked to the one it met before
\* exactly when the table has no holes.
LEMMA LinksExact ==
    ASSUME IInv, DigestInv, Resumed
    PROVE  (\A s \in DOMAIN db : db[s].prev = PrevRowHash(s))
              <=> (\A s \in DOMAIN db : 0..s \subseteq DOMAIN db)
<1>1. DOMAIN db \subseteq Nat
  BY DEF IInv, TypeOK
<1>2. ASSUME \A s \in DOMAIN db : db[s].prev = PrevRowHash(s)
      PROVE  \A s \in DOMAIN db : 0..s \subseteq DOMAIN db
  <2>1. ASSUME NEW s \in DOMAIN db, s # 0 PROVE s - 1 \in DOMAIN db
    <3>1. db[s].prev # <<>> /\ db[s].prev[Len(db[s].prev)].seq = s - 1
      BY Zenon, <2>1, RowDigest DEF EndsBelow
    <3>2. PICK r \in DOMAIN db : r < s
      BY Zenon, <1>2, <3>1 DEF PrevRowHash, GenesisHash
    <3>3. PICK t \in DOMAIN db : t < s /\ \A u \in DOMAIN db : u < s => u <= t
      BY Zenon, <3>2, RowBelow
    <3>4. db[s].prev = db[t].hash
      BY Zenon, <1>2, <3>3, RowBefore
    <3>5. db[t].hash[Len(db[t].hash)].seq = t
      BY Zenon, RowDigest
    <3> QED
      BY Zenon, <3>1, <3>4, <3>5
  <2> QED
    BY Zenon, <2>1, NoHoles
<1>3. ASSUME \A s \in DOMAIN db : 0..s \subseteq DOMAIN db, NEW s \in DOMAIN db
      PROVE  db[s].prev = PrevRowHash(s)
  <2>1. s \in Nat /\ EndsBelow(db[s].prev, s)
    BY Zenon, RowDigest
  <2>2. CASE s = 0
    <3>1. {u \in DOMAIN db : u < s} = {}
      BY <1>1, <2>2
    <3> QED
      BY Zenon, <2>1, <2>2, <3>1 DEF EndsBelow, PrevRowHash
  <2>3. CASE s # 0
    <3>1. PICK t : t = s - 1
      OBVIOUS
    <3>2. t \in 0..s /\ t < s /\ t + 1 = s /\ \A u \in DOMAIN db : u < s => u <= t
      BY <1>1, <2>1, <2>3, <3>1
    <3>3. t \in DOMAIN db
      BY Zenon, <1>3, <3>2
    <3>4. db[s].prev = db[t].hash
      BY <3>2, <3>3 DEF IInv, ConsecutiveRowsLinked
    <3> QED
      BY Zenon, <3>2, <3>3, <3>4, RowBefore
  <2> QED
    BY <2>2, <2>3
<1> QED
  BY Zenon, <1>2, <1>3

\* dbStore.VerifyChain (sqlite_store.go) accepts the table exactly when no row
\* is missing from it, every row was hashed in the time zone of this run, and no
\* row's payload had bytes that are not UTF-8.
THEOREM VerifyChainDecides == Spec => []VerifyChainExact
<1>1. IInv /\ DigestInv => VerifyChainExact
  <2> SUFFICES ASSUME IInv, DigestInv, Resumed
               PROVE  VerifyChain <=>
                        /\ \A s \in DOMAIN db : 0..s \subseteq DOMAIN db
                        /\ \A s \in DOMAIN db : db[s].hash[Len(db[s].hash)].zone = zone
                        /\ \A s \in DOMAIN db : db[s].details # "escaped"
    BY Zenon DEF VerifyChainExact
  <2>1. (\A s \in DOMAIN db : db[s].prev = PrevRowHash(s))
            <=> (\A s \in DOMAIN db : 0..s \subseteq DOMAIN db)
    BY Zenon, LinksExact
  <2>2. \A s \in DOMAIN db :
            db[s].hash[Len(db[s].hash)].zone = zone /\ db[s].details # "escaped"
            <=> computeHash(db[s].id, db[s].seq, zone, Unmarshal(db[s].details), db[s].prev)
                  = db[s].hash
    BY Zenon, RowDigest
  <2> QED
    BY Zenon, <2>1, <2>2 DEF VerifyChain
<1> QED
  BY <1>1, Inductive, DigestsKept, PTL
=============================================================================
