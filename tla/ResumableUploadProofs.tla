------------------------- MODULE ResumableUploadProofs -------------------------
(***************************************************************************)
(* Proofs about ResumableUpload: a run that returns has put the whole      *)
(* source under the key, nothing else ever gets there, and only faults and *)
(* crashes leave uploads behind, for any number of runners, sizes of parts *)
(* and sources, faults, cancels and crashes.                               *)
(*                                                                         *)
(* The invariant says that part n of whatever upload is chunk n of the     *)
(* source, whoever sent it: Good. That the source goes on behind the parts *)
(* a run knows, which rests on the sum of their sizes, needs induction     *)
(* over the parts (UploadedIsExtent); the library's induction theorems     *)
(* take an operator, so it is done here with sets (SetInduction).          *)
(*                                                                         *)
(* From the invariant follows that the module implements WholePut: every   *)
(* step, of whatever runner and however disturbed, is one of an object     *)
(* that is put as a whole, or a stutter (UploadPutsWhole).                 *)
(***************************************************************************)
EXTENDS ResumableUpload, SequenceTheorems, FiniteSetTheorems, TLAPS

(* Chunk n of a source of this size, and where it starts.                             *)
Offset(n) == PartSize * (n - 1)
Chunk(all, n) == [from |-> Offset(n), len |-> MinOf(PartSize, all - Offset(n))]

(* The parts are the first chunks of the source, none of them empty.       *)
Good(all, parts) ==
  \A n \in DOMAIN parts : Offset(n) < all /\ parts[n] = Chunk(all, n)

(* Where a run has not asked S3 for parts, or has none yet.                *)
Fresh == {"load", "list", "head", "adopt", "stale", "create", "first"}

(* Where it sends parts.                                                   *)
Sending == {"first", "read", "save"}

(* A run knows parts only of those its upload has; a single runner knows   *)
(* them all.                                                               *)
OneRunner == \A r, s \in Runner : r = s

Knows(mine, parts) == Len(mine) <= Len(parts) /\ (OneRunner => Len(mine) = Len(parts))

(* The parts of all uploads and all runs are chunks, and only uploads that *)
(* were created are named anywhere.                                        *)
PartsInv ==
  /\ \A u \in UploadId : /\ Good(size, uploads[u].parts)
                         /\ uploads[u].state = "unused" => uploads[u].parts = <<>> /\ row.id # u
  /\ \A r \in Runner :
       /\ Good(size, known[r])
       /\ pc[r] \in Fresh => known[r] = <<>>
       /\ id[r] # NoUpload => uploads[id[r]].state # "unused"
       /\ pc[r] \in Sending /\ Live(id[r]) => Knows(known[r], uploads[id[r]].parts)

(* The object is not there, an earlier one, or the source; where a run     *)
(* takes it for its own, it is there.                                      *)
ObjectInv ==
  /\ object \in {Absent, Earlier} \/ Intact(object)
  /\ \A r \in Runner : pc[r] \in {"adopt", "clear", "done"} => object # Absent

(* A run has an upload in hand until it gives it up because of a fault: a  *)
(* list of parts or an abort that failed.                                  *)
InHand == {"list", "first", "read", "save", "abort"}

Abandoned == {u \in UploadId : Live(u) /\ \A r \in Runner : pc[r] \in InHand => id[r] # u}

(* Only faults and crashes make runs abandon an upload, each one.          *)
LeakInv == size # 0 => Cardinality(Abandoned) <= faults + crashes

IInv == TypeOK /\ PartsInv /\ ObjectInv /\ LeakInv

----------------------------------------------------------------------------
(***************************************************************************)
(* Induction, and the sum of the parts                                     *)
(***************************************************************************)

(* A set of numbers that is not empty has a least element: the intervals   *)
(* up to its elements are finite sets, and one of them has none below it.  *)
LEMMA LeastElement ==
  ASSUME NEW T, T \subseteq Nat, T # {}
  PROVE  \E x \in T : \A y \in T : x <= y
<1> DEFINE UpTo == {0..n : n \in T}
<1>1. UpTo \subseteq FiniteSubsetsOf(Nat) /\ UpTo # {}
  <2>1. \A n \in T : 0..n \subseteq Nat /\ IsFiniteSet(0..n)
    BY FS_Interval
  <2> QED
    BY <2>1 DEF FiniteSubsetsOf
<1>2. PICK b \in UpTo : \A c \in UpTo : ~(<<c, b>> \in StrictSubsetOrdering(Nat))
  <2> HIDE DEF UpTo
  <2> QED
    BY <1>1, FS_StrictSubsetOrderingWellFounded, WFMin
<1>3. PICK x \in T : b = 0..x
  OBVIOUS
<1>4. ASSUME NEW y \in T, y < x
      PROVE  FALSE
  <2>1. 0..y \subseteq 0..x /\ x \notin 0..y /\ x \in 0..x
    BY <1>4
  <2>2. 0..y \in UpTo /\ 0..y \in SUBSET Nat /\ 0..x \in SUBSET Nat
    OBVIOUS
  <2>3. <<0..y, 0..x>> \in StrictSubsetOrdering(Nat)
    BY <2>1, <2>2 DEF StrictSubsetOrdering
  <2> QED
    BY <1>2, <1>3, <2>2, <2>3
<1> QED
  BY <1>4

(* Induction over the natural numbers, for a set in place of a predicate.  *)
LEMMA SetInduction ==
  ASSUME NEW S, 0 \in S, \A n \in Nat : n \in S => n + 1 \in S
  PROVE  Nat \subseteq S
<1> SUFFICES ASSUME ~(Nat \subseteq S) PROVE FALSE
  OBVIOUS
<1>1. PICK x \in Nat \ S : \A y \in Nat \ S : x <= y
  BY LeastElement
<1>2. x # 0 /\ x - 1 \in Nat /\ x - 1 \in S
  BY <1>1
<1> QED
  BY <1>1, <1>2

(* The sum of the sizes of parts that follow on one another is where the   *)
(* last one ends.                                                          *)
LEMMA UploadedIsExtent ==
  ASSUME NEW parts \in Seq(Part), Contiguous(parts)
  PROVE  Uploaded(parts) = Extent(parts)
<1> DEFINE end == [n \in 0..Len(parts) |-> IF n = 0 THEN 0 ELSE parts[n].from + parts[n].len]
<1>0. Len(parts) \in Nat /\ DOMAIN parts = 1..Len(parts)
  BY LenProperties
<1>1. \A n \in 1..Len(parts) : parts[n].from \in Int /\ parts[n].len \in Int
  <2>1. \A n \in 1..Len(parts) : parts[n] \in Part
    BY ElementOfSeq
  <2> QED
    BY <2>1 DEF Part
<1>2. end = [n \in 0..Len(parts) |-> IF n = 0 THEN 0 ELSE end[n - 1] + parts[n].len]
  <2> SUFFICES ASSUME NEW n \in 1..Len(parts)
               PROVE  parts[n].from + parts[n].len = end[n - 1] + parts[n].len
    OBVIOUS
  <2>1. CASE n = 1
    <3>1. parts[1].from = 0
      BY <1>0, <2>1 DEF Contiguous
    <3>2. end[0] = 0
      BY <1>0
    <3> QED
      BY <1>1, <2>1, <3>1, <3>2
  <2>2. CASE n # 1
    <3>1. n - 1 \in 1..Len(parts)
      BY <2>2
    <3>2. end[n - 1] = parts[n - 1].from + parts[n - 1].len
      BY <3>1
    <3>3. parts[n].from = parts[n - 1].from + parts[n - 1].len
      BY <1>0, <2>2 DEF Contiguous
    <3> QED
      BY <3>2, <3>3
  <2> QED
    BY <2>1, <2>2
<1>3. PICK sum : /\ sum = [n \in 0..Len(parts) |-> IF n = 0 THEN 0 ELSE sum[n - 1] + parts[n].len]
                 /\ Uploaded(parts) = sum[Len(parts)]
  <2> HIDE DEF end
  <2> QED
    BY <1>2 DEF Uploaded
<1>4. \A n \in 0..Len(parts) : sum[n] = end[n]
  <2> DEFINE S == {n \in Nat : n <= Len(parts) => sum[n] = end[n]}
  <2>1. 0 \in S
    BY <1>3
  <2>2. ASSUME NEW n \in Nat, n \in S
        PROVE  n + 1 \in S
    <3> SUFFICES ASSUME n + 1 <= Len(parts) PROVE sum[n + 1] = end[n + 1]
      OBVIOUS
    <3>1. sum[n] = end[n]
      BY <2>2
    <3> HIDE DEF end
    <3>0. n + 1 \in 0..Len(parts) /\ n + 1 # 0 /\ (n + 1) - 1 = n
      BY <1>0
    <3>2. sum[n + 1] = sum[n] + parts[n + 1].len
      BY <1>3, <3>0
    <3>3. end[n + 1] = end[n] + parts[n + 1].len
      BY <1>2, <3>0
    <3> QED
      BY <3>1, <3>2, <3>3
  <2>3. Nat \subseteq S
    <3> HIDE DEF S
    <3> QED
      BY <2>1, <2>2, SetInduction
  <2> HIDE DEF end
  <2> QED
    BY <1>0, <2>3
<1>5. CASE parts = <<>>
  <2>1. Len(parts) = 0 /\ Extent(parts) = 0
    BY <1>5 DEF Extent
  <2> QED
    BY <1>3, <1>4, <2>1
<1>6. CASE parts # <<>>
  <2>1. Len(parts) # 0
    BY <1>6, EmptySeq
  <2> QED
    BY <1>0, <1>3, <1>4, <1>6, <2>1 DEF Extent
<1> QED
  BY <1>5, <1>6

----------------------------------------------------------------------------
(***************************************************************************)
(* Chunks                                                                  *)
(***************************************************************************)

(* A chunk follows on the one before it; it is a part of the source.       *)
LEMMA Chunks ==
  /\ Offset(1) = 0
  /\ \A n \in Nat : /\ Offset(n + 1) \in Nat
                    /\ Offset(n + 2) = Offset(n + 1) + PartSize
                    /\ \A all \in Nat : Offset(n + 1) < all => Chunk(all, n + 1) \in Part
<1>1. PartSize \in Nat /\ PartSize > 0
  BY UploadAssumption
<1>2. Offset(1) = 0
  BY <1>1 DEF Offset
<1>3. ASSUME NEW n \in Nat
      PROVE  Offset(n + 1) \in Nat /\ Offset(n + 2) = Offset(n + 1) + PartSize
  <2>1. Offset(n + 1) = PartSize * n /\ Offset(n + 2) = PartSize * (n + 1)
    BY <1>1 DEF Offset
  <2>2. PartSize * n \in Nat /\ PartSize * (n + 1) = PartSize * n + PartSize
    BY <1>1
  <2> QED
    BY <2>1, <2>2
<1> QED
  BY <1>1, <1>2, <1>3 DEF Chunk, Part, MinOf

(* Good parts follow on one another and end where the next chunk starts,   *)
(* or with the source.                                                     *)
LEMMA GoodParts ==
  ASSUME NEW all \in Nat, NEW parts \in Seq(Part), Good(all, parts)
  PROVE  /\ Contiguous(parts) /\ Uploaded(parts) = Extent(parts)
         /\ Extent(parts) \in 0..all
         /\ Extent(parts) < all => Extent(parts) = Offset(Len(parts) + 1)
<1>0. PartSize \in Nat /\ PartSize > 0 /\ Len(parts) \in Nat /\ DOMAIN parts = 1..Len(parts)
  BY UploadAssumption, LenProperties
<1>1. \A n \in 1..Len(parts) : /\ Offset(n) < all /\ Offset(n) \in Nat
                               /\ parts[n].from = Offset(n)
                               /\ parts[n].len = MinOf(PartSize, all - Offset(n))
                               /\ Offset(n + 1) = Offset(n) + PartSize
  <2> SUFFICES ASSUME NEW n \in 1..Len(parts)
               PROVE  /\ Offset(n) < all /\ Offset(n) \in Nat
                      /\ parts[n].from = Offset(n)
                      /\ parts[n].len = MinOf(PartSize, all - Offset(n))
                      /\ Offset(n + 1) = Offset(n) + PartSize
    OBVIOUS
  <2>1. Offset(n) < all /\ parts[n] = Chunk(all, n)
    BY <1>0 DEF Good
  <2>2. n - 1 \in Nat /\ (n - 1) + 1 = n /\ (n - 1) + 2 = n + 1
    BY <1>0
  <2>3. Offset(n) \in Nat /\ Offset(n + 1) = Offset(n) + PartSize
    BY <2>2, Chunks
  <2> QED
    BY <2>1, <2>3 DEF Chunk
<1>2. Contiguous(parts)
  <2> SUFFICES ASSUME NEW n \in 1..Len(parts)
               PROVE  parts[n].from = IF n = 1 THEN 0 ELSE parts[n - 1].from + parts[n - 1].len
    BY <1>0 DEF Contiguous
  <2>1. CASE n = 1
    BY <1>1, <2>1, Chunks
  <2>2. CASE n # 1
    <3>1. n - 1 \in 1..Len(parts) /\ (n - 1) + 1 = n
      BY <1>0, <2>2
    <3>2. Offset(n) = Offset(n - 1) + PartSize /\ Offset(n) < all /\ Offset(n - 1) \in Nat
      BY <1>1, <3>1
    <3>3. parts[n - 1].len = PartSize
      BY <1>0, <1>1, <3>1, <3>2 DEF MinOf
    <3> QED
      BY <1>1, <2>2, <3>1, <3>2, <3>3
  <2> QED
    BY <2>1, <2>2
<1>3. Extent(parts) \in 0..all /\ (Extent(parts) < all => Extent(parts) = Offset(Len(parts) + 1))
  <2>1. CASE parts = <<>>
    <3>1. Len(parts) = 0 /\ Extent(parts) = 0
      BY <2>1 DEF Extent
    <3> QED
      BY <3>1, Chunks
  <2>2. CASE parts # <<>>
    <3>1. Len(parts) \in 1..Len(parts)
      BY <1>0, <2>2, EmptySeq
    <3>2. Extent(parts) = Offset(Len(parts)) + MinOf(PartSize, all - Offset(Len(parts)))
      BY <1>1, <2>2, <3>1 DEF Extent
    <3> QED
      BY <1>0, <1>1, <3>1, <3>2 DEF MinOf
  <2> QED
    BY <2>1, <2>2
<1> QED
  BY <1>2, <1>3, UploadedIsExtent

(* The next chunk behind known parts, stored as the next part of an upload *)
(* that has these parts and perhaps others, keeps both good.               *)
LEMMA GoodStored ==
  ASSUME NEW all \in Nat, NEW parts \in Seq(Part), NEW mine \in Seq(Part),
         Good(all, parts), Good(all, mine), Len(mine) <= Len(parts), Uploaded(mine) < all,
         NEW part, part = [from |-> Uploaded(mine), len |-> MinOf(PartSize, all - Uploaded(mine))]
  PROVE  /\ Append(mine, part) \in Seq(Part) /\ Good(all, Append(mine, part))
         /\ Len(Append(mine, part)) = Len(mine) + 1
         /\ Stored(parts, Len(mine) + 1, part) \in Seq(Part)
         /\ Good(all, Stored(parts, Len(mine) + 1, part))
         /\ Len(mine) + 1 <= Len(Stored(parts, Len(mine) + 1, part))
         /\ Len(parts) <= Len(Stored(parts, Len(mine) + 1, part))
         /\ Len(mine) = Len(parts) => Len(Stored(parts, Len(mine) + 1, part)) = Len(parts) + 1
<1> DEFINE n == Len(mine) + 1
           new == Stored(parts, n, part)
           last == IF n > Len(parts) THEN n ELSE Len(parts)
<1>1. /\ Len(parts) \in Nat /\ DOMAIN parts = 1..Len(parts)
      /\ Len(mine) \in Nat /\ DOMAIN mine = 1..Len(mine)
  BY LenProperties
<1>2. Uploaded(mine) = Offset(n)
  BY GoodParts
<1>3. Offset(n) < all /\ part = Chunk(all, n) /\ part \in Part
  BY <1>1, <1>2, Chunks DEF Chunk
<1>4. last \in Nat /\ n \in 1..last /\ last <= Len(parts) + 1 /\ Len(parts) <= last
  BY <1>1
<1>5. new = [i \in 1..last |-> IF i = n THEN part ELSE parts[i]]
  BY DEF Stored
<1>6. \A i \in 1..last : i # n => i \in 1..Len(parts)
  BY <1>1, <1>4
<1>7. new \in Seq(Part) /\ Len(new) = last /\ DOMAIN new = 1..last
  <2>1. \A i \in 1..last : (IF i = n THEN part ELSE parts[i]) \in Part
    BY <1>1, <1>3, <1>6
  <2>2. new \in [1..last -> Part]
    <3> HIDE DEF last, n
    <3> QED
      BY <1>5, <2>1
  <2> QED
    <3> HIDE DEF new, last
    <3> QED
      BY <1>4, <2>2, SeqDef, LenProperties
<1>8. Good(all, new)
  <2> SUFFICES ASSUME NEW i \in 1..last
               PROVE  Offset(i) < all /\ new[i] = Chunk(all, i)
    <3> HIDE DEF new, last
    <3> QED
      BY <1>7 DEF Good
  <2>1. CASE i = n
    BY <1>3, <1>5, <2>1
  <2>2. CASE i # n
    <3>1. i \in 1..Len(parts) /\ new[i] = parts[i]
      BY <1>5, <1>6, <2>2
    <3> QED
      BY <1>1, <3>1 DEF Good
  <2> QED
    BY <2>1, <2>2
<1>9. Append(mine, part) \in Seq(Part) /\ Len(Append(mine, part)) = n
      /\ (\A i \in 1..Len(mine) : Append(mine, part)[i] = mine[i])
      /\ Append(mine, part)[n] = part /\ DOMAIN Append(mine, part) = 1..n
  BY <1>1, <1>3, AppendProperties
<1>10. Good(all, Append(mine, part))
  <2> SUFFICES ASSUME NEW i \in 1..n
               PROVE  Offset(i) < all /\ Append(mine, part)[i] = Chunk(all, i)
    BY <1>9 DEF Good
  <2>1. CASE i = n
    BY <1>3, <1>9, <2>1
  <2>2. CASE i # n
    <3>1. i \in 1..Len(mine)
      BY <1>1, <2>2
    <3> QED
      BY <1>1, <1>9, <3>1 DEF Good
  <2> QED
    BY <2>1, <2>2
<1>11. /\ n <= Len(new) /\ Len(parts) <= Len(new)
       /\ Len(mine) = Len(parts) => Len(new) = Len(parts) + 1
  <2>1. Len(new) = last
    BY <1>7
  <2>2. n <= last
    BY <1>1
  <2>3. ASSUME Len(mine) = Len(parts)
        PROVE  last = Len(parts) + 1
    BY <1>1, <2>3
  <2> HIDE DEF new, last
  <2> QED
    BY <1>4, <2>1, <2>2, <2>3
<1> QED
  BY <1>7, <1>8, <1>9, <1>10, <1>11

----------------------------------------------------------------------------
(***************************************************************************)
(* Types                                                                   *)
(***************************************************************************)

(* What the assumption says of the constants, and what the types say of a  *)
(* state.                                                                  *)
LEMMA Bounds ==
  /\ PartSize \in Nat /\ PartSize > 0 /\ Sizes \subseteq Nat
  /\ MaxUploads \in Nat /\ MaxRuns \in Nat /\ MaxCancels \in Nat
  /\ MaxFaults \in Nat /\ MaxCrashes \in Nat /\ MaxExpired \in Nat
  /\ NoUpload \notin UploadId /\ IsFiniteSet(UploadId)
BY UploadAssumption, FS_Interval DEF NoUpload, UploadId

LEMMA Reading ==
  ASSUME TypeOK
  PROVE  /\ size \in Nat /\ object \in Seq(Part)
         /\ \A u \in UploadId : /\ uploads[u].state \in {"unused", "open", "gone"}
                                /\ uploads[u].parts \in Seq(Part)
         /\ \A r \in Runner : id[r] \in UploadId \cup {NoUpload} /\ known[r] \in Seq(Part)
         /\ \A u : Live(u) /\ u \in UploadId \cup {NoUpload} => u \in UploadId
         /\ faults \in Nat /\ crashes \in Nat
BY Bounds DEF TypeOK, Live

(* Uploads after a request: one is opened, gets other parts, or is gone.   *)
Upload == [state : {"unused", "open", "gone"}, parts : Seq(Part)]
Gone == [state |-> "gone", parts |-> <<>>]

LEMMA Opened ==
  ASSUME NEW before \in [UploadId -> Upload], NEW u \in UploadId, NEW after,
         after = [before EXCEPT ![u].state = "open"]
  PROVE  /\ after \in [UploadId -> Upload]
         /\ after[u].state = "open"
         /\ \A v \in UploadId : after[v].parts = before[v].parts /\ (v # u => after[v] = before[v])
BY DEF Upload

LEMMA Extended ==
  ASSUME NEW before \in [UploadId -> Upload], NEW u \in UploadId, NEW parts \in Seq(Part), NEW after,
         after = [before EXCEPT ![u].parts = parts]
  PROVE  /\ after \in [UploadId -> Upload]
         /\ after[u].parts = parts
         /\ \A v \in UploadId : after[v].state = before[v].state /\ (v # u => after[v] = before[v])
BY DEF Upload

LEMMA Ended ==
  ASSUME NEW before \in [UploadId -> Upload], NEW u, NEW after, after = [before EXCEPT ![u] = Gone]
  PROVE  /\ after \in [UploadId -> Upload]
         /\ u \in UploadId => after[u] = Gone
         /\ \A v \in UploadId : v # u => after[v] = before[v]
<1>1. Gone \in Upload
  BY EmptySeq DEF Gone, Upload
<1> QED
  BY <1>1

(* Where a runner may be.                                                  *)
Place == Working \cup {"idle", "done", "failed", "canceled"}

LEMMA GotoType ==
  ASSUME TypeOK, NEW r \in Runner, NEW where \in Place, Goto(r, where)
  PROVE  pc' \in [Runner -> Place]
BY DEF TypeOK, Goto, Place

LEMMA ThrownType ==
  ASSUME NEW r
  PROVE  Thrown(r) \in {"abort", "failed"} /\ Thrown(r) \in Place
BY DEF Thrown, Place, Working

LEMMA AnsweredType ==
  ASSUME TypeOK, NEW r \in Runner, NEW where \in Place, Answered(r, where)
  PROVE  pc' \in [Runner -> Place] /\ faults' \in 0..MaxFaults
<1>1. Goto(r, where) \/ Goto(r, Thrown(r))
  BY DEF Answered
<1>2. pc' \in [Runner -> Place]
  BY <1>1, GotoType, ThrownType
<1>3. faults' \in 0..MaxFaults
  BY Bounds DEF TypeOK, Answered
<1> QED
  BY <1>2, <1>3

(* The initial states have the invariant.                                  *)
LEMMA InitInv == Init => IInv
<1> SUFFICES ASSUME Init PROVE IInv
  OBVIOUS
<1> USE Bounds
<1>1. <<>> \in Seq(Part) /\ Len(<<>>) = 0 /\ DOMAIN <<>> = {}
  BY EmptySeq
<1>2. Earlier \in Seq(Part) /\ Absent \in Seq(Part)
  BY <1>1 DEF Earlier, Absent, Part
<1>3. TypeOK
  <2>1. object \in Seq(Part) /\ size \in Sizes
    BY <1>2 DEF Init
  <2>2. uploads \in [UploadId -> [state : {"unused", "open", "gone"}, parts : Seq(Part)]]
    BY <1>1 DEF Init
  <2>3. row \in [id : UploadId \cup {NoUpload}, saved : Nat]
    BY DEF Init, NoRow
  <2>4. /\ pc \in [Runner -> Working \cup {"idle", "done", "failed", "canceled"}]
        /\ id \in [Runner -> UploadId \cup {NoUpload}] /\ known \in [Runner -> Seq(Part)]
        /\ aborted \in [Runner -> BOOLEAN]
    BY <1>1 DEF Init
  <2>5. reported \in [Runner -> 0..size]
    BY <2>1 DEF Init
  <2>6. /\ runs \in 0..MaxRuns /\ cancels \in 0..MaxCancels
        /\ faults \in 0..MaxFaults /\ crashes \in 0..MaxCrashes /\ expired \in 0..MaxExpired
    BY DEF Init
  <2> QED
    BY <2>1, <2>2, <2>3, <2>4, <2>5, <2>6 DEF TypeOK
<1>4. PartsInv
  <2>1. Good(size, <<>>)
    BY <1>1 DEF Good
  <2> QED
    BY <2>1 DEF Init, PartsInv, NoRow, Live
<1>5. ObjectInv
  BY DEF Init, ObjectInv
<1>6. LeakInv
  <2>1. Abandoned = {}
    BY DEF Init, Abandoned, Live
  <2> QED
    BY <2>1, FS_EmptySet DEF Init, LeakInv
<1> QED
  BY <1>3, <1>4, <1>5, <1>6 DEF IInv

(* The part a run sends is good for its upload and for what it knows of    *)
(* it, and its upload has whatever it knows.                               *)
LEMMA PartSent ==
  ASSUME TypeOK, PartsInv, NEW r \in Runner, UploadPart(r), ~aborted[r], Live(id[r])
  PROVE  /\ id[r] \in UploadId
         /\ uploads' \in [UploadId -> Upload] /\ known' \in [Runner -> Seq(Part)]
         /\ Good(size, uploads'[id[r]].parts) /\ uploads'[id[r]].state = "open"
         /\ \A u \in UploadId : u # id[r] => uploads'[u] = uploads[u]
         /\ Good(size, known'[r]) /\ Len(known'[r]) <= Len(uploads'[id[r]].parts)
         /\ \A s \in Runner : s # r => known'[s] = known[s]
         /\ Len(uploads[id[r]].parts) <= Len(uploads'[id[r]].parts)
         /\ OneRunner => /\ Len(uploads'[id[r]].parts) = Len(uploads[id[r]].parts) + 1
                         /\ Len(known'[r]) = Len(uploads'[id[r]].parts)
<1> DEFINE part == NextPart(r)
           parts == uploads[id[r]].parts
           new == Stored(parts, PartNumber(r), part)
<1>1. /\ id[r] \in UploadId /\ parts \in Seq(Part) /\ known[r] \in Seq(Part) /\ size \in Nat
      /\ uploads \in [UploadId -> Upload] /\ uploads[id[r]].state = "open"
      /\ known \in [Runner -> Seq(Part)]
  BY Reading DEF TypeOK, Upload, Live
<1>2. Good(size, parts) /\ Good(size, known[r])
  BY <1>1 DEF PartsInv
<1>3. Knows(known[r], parts)
  BY DEF PartsInv, UploadPart, Sending, Knows
<1>4. Uploaded(known[r]) < size
  BY DEF MoreToRead, UploadPart
<1>5. part = [from |-> Uploaded(known[r]), len |-> MinOf(PartSize, size - Uploaded(known[r]))]
  BY DEF NextPart
<1>6. new = Stored(parts, Len(known[r]) + 1, part)
  BY DEF PartNumber
<1>7. uploads' = [uploads EXCEPT ![id[r]].parts = new] /\ known' = [known EXCEPT ![r] = Append(known[r], part)]
  BY DEF UploadPart
<1> USE DEF Knows
<1> HIDE DEF parts, part
<1>8. /\ Append(known[r], part) \in Seq(Part) /\ Good(size, Append(known[r], part))
      /\ Len(Append(known[r], part)) = Len(known[r]) + 1
      /\ Stored(parts, Len(known[r]) + 1, part) \in Seq(Part)
      /\ Good(size, Stored(parts, Len(known[r]) + 1, part))
      /\ Len(known[r]) + 1 <= Len(Stored(parts, Len(known[r]) + 1, part))
      /\ Len(parts) <= Len(Stored(parts, Len(known[r]) + 1, part))
      /\ Len(known[r]) = Len(parts) => Len(Stored(parts, Len(known[r]) + 1, part)) = Len(parts) + 1
  BY <1>1, <1>2, <1>3, <1>4, <1>5, GoodStored
<1> HIDE DEF new
<1>9. /\ uploads' \in [UploadId -> Upload] /\ uploads'[id[r]].parts = new
      /\ \A u \in UploadId : uploads'[u].state = uploads[u].state /\ (u # id[r] => uploads'[u] = uploads[u])
  <2>1. new \in Seq(Part)
    BY <1>6, <1>8
  <2>2. uploads' = [uploads EXCEPT ![id[r]].parts = new]
    BY <1>7
  <2> QED
    BY <1>1, <2>1, <2>2 DEF Upload
<1>10. /\ known' \in [Runner -> Seq(Part)] /\ known'[r] = Append(known[r], part)
       /\ \A s \in Runner : s # r => known'[s] = known[s]
  BY <1>1, <1>7, <1>8
<1>11. Len(known[r]) \in Nat /\ Len(parts) \in Nat
  BY <1>1, LenProperties
<1>12. /\ Good(size, new) /\ Len(parts) <= Len(new) /\ Len(Append(known[r], part)) <= Len(new)
       /\ OneRunner => Len(new) = Len(parts) + 1 /\ Len(Append(known[r], part)) = Len(new)
  BY <1>3, <1>6, <1>8, <1>11
<1> QED
  BY <1>1, <1>8, <1>9, <1>10, <1>12 DEF parts

(* Every step keeps the types.                                             *)
LEMMA TypeStep ==
  ASSUME TypeOK, PartsInv, ObjectInv, [Next]_vars
  PROVE  TypeOK'
<1> USE Bounds, Reading
<1>u. uploads \in [UploadId -> Upload]
  BY DEF TypeOK, Upload
<1>0. <<>> \in Seq(Part) /\ NoRow \in [id : UploadId \cup {NoUpload}, saved : Nat]
  BY EmptySeq DEF NoRow
<1>1. ASSUME NEW r \in Runner, Run(r)
      PROVE  TypeOK'
  <2>1. pc' \in [Runner -> Place]
    BY <1>1, GotoType DEF Run, Place, Working
  <2>2. runs' \in 0..MaxRuns
    BY <1>1 DEF Run, TypeOK
  <2>3. /\ id' \in [Runner -> UploadId \cup {NoUpload}] /\ known' \in [Runner -> Seq(Part)]
        /\ reported' \in [Runner -> 0..size]
    BY <1>0, <1>1 DEF Run, TypeOK
  <2>4. aborted' \in [Runner -> BOOLEAN]
    BY <1>1, Zenon DEF Run, TypeOK
  <2> QED
    BY <1>1, <2>1, <2>2, <2>3, <2>4 DEF Run, TypeOK, s3Vars, Place
<1>2. ASSUME NEW r \in Runner, Load(r)
      PROVE  TypeOK'
  <2>1. pc' \in [Runner -> Place]
    BY <1>2, GotoType DEF Load, LoadRow, Place, Working
  <2>2. id' \in [Runner -> UploadId \cup {NoUpload}]
    BY <1>2 DEF Load, LoadRow, TypeOK
  <2> QED
    BY <1>2, <2>1, <2>2 DEF Load, TypeOK, s3Vars, countVars, Place
<1>3. ASSUME NEW r \in Runner, ListParts(r)
      PROVE  TypeOK'
  <2>1. pc' \in [Runner -> Place] /\ faults' \in 0..MaxFaults
    <3>1. /\ Goto(r, "read") \/ Goto(r, "head") \/ Goto(r, "stale")
          /\ faults' = faults \/ (faults < MaxFaults /\ faults' = faults + 1)
      BY <1>3 DEF ListParts
    <3>2. faults' \in 0..MaxFaults
      BY <3>1 DEF TypeOK
    <3> QED
      BY <3>1, <3>2, GotoType DEF Place, Working
  <2>2. CASE /\ Live(id[r]) /\ known' = [known EXCEPT ![r] = PartsListed(r)]
             /\ reported' = [reported EXCEPT ![r] = Uploaded(PartsListed(r))]
    <3>1. PartsListed(r) \in Seq(Part) /\ Uploaded(PartsListed(r)) \in 0..size
      BY <2>2, GoodParts DEF PartsListed, PartsInv
    <3> QED
      BY <1>3, <2>1, <2>2, <3>1 DEF ListParts, TypeOK, s3Vars, Place
  <2>3. CASE UNCHANGED <<known, reported>>
    BY <1>3, <2>1, <2>3 DEF ListParts, TypeOK, s3Vars, Place
  <2> QED
    BY <1>3, <2>2, <2>3 DEF ListParts
<1>4. ASSUME NEW r \in Runner, HeadObject(r)
      PROVE  TypeOK'
  <2>1. Goto(r, "adopt") \/ Goto(r, "stale")
    BY <1>4 DEF HeadObject, NothingLeft
  <2>2. pc' \in [Runner -> Place]
    BY <2>1, GotoType DEF Place, Working
  <2>3. faults' \in 0..MaxFaults
    <3>1. UNCHANGED faults \/ (faults < MaxFaults /\ faults' = faults + 1)
      BY <1>4 DEF HeadObject
    <3>2. faults \in 0..MaxFaults
      BY DEF TypeOK
    <3> QED
      BY <3>1, <3>2
  <2> QED
    BY <1>4, <2>2, <2>3 DEF HeadObject, TypeOK, s3Vars, localVars, Place
<1>5. ASSUME NEW r \in Runner, Adopt(r)
      PROVE  TypeOK'
  <2>1. pc' \in [Runner -> Place] /\ faults' \in 0..MaxFaults
    BY <1>5, AnsweredType DEF Adopt, Place
  <2>2. (IF object = Earlier THEN 0 ELSE Extent(object)) \in 0..size
    BY DEF ObjectInv, Intact, Extent, Absent
  <2>3. reported' \in [Runner -> 0..size]
    BY <1>5, <2>2 DEF Adopt, TypeOK
  <2> QED
    BY <1>0, <1>5, <2>1, <2>3 DEF Adopt, TypeOK, s3Vars, Place
<1>6. ASSUME NEW r \in Runner, Stale(r) \/ Clear(r)
      PROVE  TypeOK'
  <2>1. pc' \in [Runner -> Place] /\ faults' \in 0..MaxFaults
    BY <1>6, AnsweredType DEF Stale, Clear, Place, Working
  <2> QED
    BY <1>0, <1>6, <2>1 DEF Stale, Clear, TypeOK, s3Vars, localVars, Place
<1>7. ASSUME NEW r \in Runner, Create(r)
      PROVE  TypeOK'
  <2>1. pc' \in [Runner -> Place] /\ faults' \in 0..MaxFaults
    BY <1>7, AnsweredType DEF Create, Place, Working
  <2>2. PICK u \in UploadId : /\ uploads' = [uploads EXCEPT ![u].state = "open"]
                              /\ id' = [id EXCEPT ![r] = u]
    BY <1>7 DEF Create
  <2>3. uploads' \in [UploadId -> Upload]
    BY <2>2, <1>u, Opened
  <2>4. id' \in [Runner -> UploadId \cup {NoUpload}]
    BY <2>2 DEF TypeOK
  <2> QED
    BY <1>7, <2>1, <2>3, <2>4 DEF Create, TypeOK, Place, Upload
<1>8. ASSUME NEW r \in Runner, SaveFirst(r)
      PROVE  TypeOK'
  <2>1. pc' \in [Runner -> Place] /\ faults' \in 0..MaxFaults
    BY <1>8, AnsweredType DEF SaveFirst, Place, Working
  <2>2. row' \in [id : UploadId \cup {NoUpload}, saved : Nat]
    BY <1>8 DEF SaveFirst
  <2> QED
    BY <1>8, <2>1, <2>2 DEF SaveFirst, TypeOK, s3Vars, localVars, Place
<1>9. ASSUME NEW r \in Runner, SavePart(r)
      PROVE  TypeOK'
  <2>1. pc' \in [Runner -> Place] /\ faults' \in 0..MaxFaults
    BY <1>9, AnsweredType DEF SavePart, Place, Working
  <2>2. row' \in [id : UploadId \cup {NoUpload}, saved : Nat]
    BY <1>9, LenProperties DEF SavePart
  <2>3. Uploaded(known[r]) \in 0..size
    BY GoodParts DEF PartsInv
  <2>4. reported' \in [Runner -> 0..size]
    BY <1>9, <2>3 DEF SavePart, TypeOK
  <2> QED
    BY <1>9, <2>1, <2>2, <2>4 DEF SavePart, TypeOK, s3Vars, Place
<1>10. ASSUME NEW r \in Runner, UploadPart(r)
       PROVE  TypeOK'
  <2>1. CASE ~aborted[r] /\ Live(id[r])
    <3>1. Answered(r, "save")
      BY <1>10, <2>1 DEF UploadPart
    <3>2. pc' \in [Runner -> Place] /\ faults' \in 0..MaxFaults
      BY <3>1, AnsweredType DEF Place, Working
    <3>3. uploads' \in [UploadId -> Upload] /\ known' \in [Runner -> Seq(Part)]
      BY <1>10, <2>1, PartSent
    <3> QED
      BY <1>10, <3>2, <3>3 DEF UploadPart, TypeOK, Place, Upload
  <2>2. CASE ~(~aborted[r] /\ Live(id[r]))
    <3>1. Goto(r, Thrown(r)) /\ UNCHANGED <<uploads, known, faults>>
      BY <1>10, <2>2 DEF UploadPart
    <3>2. pc' \in [Runner -> Place]
      BY <3>1, GotoType, ThrownType
    <3> QED
      BY <1>10, <3>1, <3>2 DEF UploadPart, TypeOK, Place
  <2> QED
    BY <2>1, <2>2
<1>11. ASSUME NEW r \in Runner, Complete(r)
       PROVE  TypeOK'
  <2>1. CASE Live(id[r]) /\ known[r] # <<>>
    <3> DEFINE u == id[r]
               made == [i \in DOMAIN known[r] |-> uploads[u].parts[i]]
    <3>0. /\ object' = made /\ Answered(r, "clear")
          /\ uploads' = [uploads EXCEPT ![u] = [state |-> "gone", parts |-> <<>>]]
      BY <1>11, <2>1 DEF Complete
    <3>1. pc' \in [Runner -> Place] /\ faults' \in 0..MaxFaults
      BY <3>0, AnsweredType DEF Place, Working
    <3>2. uploads' \in [UploadId -> [state : {"unused", "open", "gone"}, parts : Seq(Part)]]
      BY <1>0, <3>0 DEF TypeOK
    <3>3. made \in Seq(Part)
      <4>1. /\ Len(known[r]) \in Nat /\ DOMAIN known[r] = 1..Len(known[r])
            /\ Len(uploads[u].parts) \in Nat /\ Len(known[r]) <= Len(uploads[u].parts)
            /\ u \in UploadId
        BY <1>11, <2>1, LenProperties DEF Complete, PartsInv, Sending, Knows
      <4>2. \A i \in 1..Len(known[r]) : uploads[u].parts[i] \in Part
        BY <4>1, ElementOfSeq
      <4>3. made \in [1..Len(known[r]) -> Part]
        BY <4>1, <4>2
      <4> HIDE DEF made
      <4> QED
        BY <4>1, <4>3, SeqDef
    <3> QED
      BY <1>11, <3>0, <3>1, <3>2, <3>3 DEF Complete, TypeOK, localVars, Place
  <2>2. CASE ~(Live(id[r]) /\ known[r] # <<>>)
    <3>1. Goto(r, Thrown(r)) /\ UNCHANGED <<object, uploads, faults>>
      BY <1>11, <2>2 DEF Complete
    <3>2. pc' \in [Runner -> Place]
      BY <3>1, GotoType, ThrownType
    <3> QED
      BY <1>11, <3>1, <3>2 DEF Complete, TypeOK, localVars, Place
  <2> QED
    BY <2>1, <2>2
<1>12. ASSUME NEW r \in Runner, Fault(r)
       PROVE  TypeOK'
  <2>1. pc' \in [Runner -> Place]
    BY <1>12, GotoType, ThrownType DEF Fault
  <2> QED
    BY <1>12, <2>1 DEF Fault, TypeOK, s3Vars, localVars, Place
<1>13. ASSUME NEW r \in Runner, Abort(r)
       PROVE  TypeOK'
  <2>1. pc' \in [Runner -> Place]
    BY <1>13, GotoType DEF Abort, Place, Working
  <2>2. uploads' \in [UploadId -> Upload]
    <3>1. uploads' = [uploads EXCEPT ![id[r]] = Gone] \/ uploads' = uploads
      BY <1>13 DEF Abort, AbortUpload, Gone
    <3> QED
      BY <3>1, <1>u, Ended
  <2>3. faults' \in 0..MaxFaults
    BY <1>13 DEF Abort, TypeOK
  <2> QED
    BY <1>13, <2>1, <2>2, <2>3 DEF Abort, TypeOK, localVars, Place, Upload
<1>14. ASSUME NEW r \in Runner, Drop(r)
       PROVE  TypeOK'
  <2>1. pc' \in [Runner -> Place]
    BY <1>14, GotoType DEF Drop, Place
  <2>2. faults' \in 0..MaxFaults
    BY <1>14 DEF Drop, TypeOK
  <2>3. row' \in [id : UploadId \cup {NoUpload}, saved : Nat]
    BY <1>0, <1>14 DEF Drop, TypeOK
  <2> QED
    BY <1>14, <2>1, <2>2, <2>3 DEF Drop, TypeOK, s3Vars, localVars, Place
<1>15. ASSUME NEW r \in Runner, Cancel(r)
       PROVE  TypeOK'
  <2>1. aborted' \in [Runner -> BOOLEAN]
    BY <1>15, Zenon DEF Cancel, TypeOK
  <2> QED
    BY <1>15, <2>1 DEF Cancel, TypeOK, s3Vars
<1>16. ASSUME NEW r \in Runner, Crash(r)
       PROVE  TypeOK'
  <2>1. pc' \in [Runner -> Place]
    BY <1>16, GotoType DEF Crash, Place
  <2> QED
    BY <1>16, <2>1 DEF Crash, TypeOK, s3Vars, localVars, Place
<1>17. ASSUME NEW u \in UploadId, Expire(u)
       PROVE  TypeOK'
  <2>1. uploads' \in [UploadId -> [state : {"unused", "open", "gone"}, parts : Seq(Part)]]
    BY <1>0, <1>17 DEF Expire, TypeOK
  <2> QED
    BY <1>17, <2>1 DEF Expire, TypeOK, localVars
<1>18. CASE UNCHANGED vars
  BY <1>18 DEF vars, TypeOK, s3Vars, localVars, countVars
<1> QED
  BY <1>1, <1>2, <1>3, <1>4, <1>5, <1>6, <1>7, <1>8, <1>9, <1>10, <1>11, <1>12, <1>13, <1>14,
     <1>15, <1>16, <1>17, <1>18 DEF Next, Step

----------------------------------------------------------------------------
(***************************************************************************)
(* The parts                                                               *)
(***************************************************************************)

(* A step sends good parts only, opens uploads that were unused, and takes *)
(* no part away from an upload that stays open.                            *)
LEMMA UploadsMove ==
  ASSUME TypeOK, PartsInv, [Next]_vars
  PROVE  /\ size' = size /\ uploads' \in [UploadId -> Upload]
         /\ \A u \in UploadId :
              /\ Good(size, uploads'[u].parts)
              /\ uploads'[u].state = "unused" => uploads'[u] = uploads[u]
              /\ uploads'[u].state = "open" =>
                   uploads[u].state # "gone" /\ Len(uploads[u].parts) <= Len(uploads'[u].parts)
<1> DEFINE Goal == /\ size' = size /\ uploads' \in [UploadId -> Upload]
                   /\ \A u \in UploadId :
                        /\ Good(size, uploads'[u].parts)
                        /\ uploads'[u].state = "unused" => uploads'[u] = uploads[u]
                        /\ uploads'[u].state = "open" =>
                             uploads[u].state # "gone" /\ Len(uploads[u].parts) <= Len(uploads'[u].parts)
<1>0. /\ uploads \in [UploadId -> Upload] /\ Good(size, <<>>)
      /\ \A u \in UploadId : Len(uploads[u].parts) \in Nat /\ Good(size, uploads[u].parts)
  BY Reading, EmptySeq, LenProperties DEF TypeOK, Upload, PartsInv, Good
<1>1. ASSUME size' = size, uploads' = uploads PROVE Goal
  BY <1>0, <1>1 DEF Upload
<1>2. ASSUME NEW v, size' = size, uploads' = [uploads EXCEPT ![v] = Gone] PROVE Goal
  <2>1. /\ uploads' \in [UploadId -> Upload]
        /\ \A u \in UploadId : uploads'[u] = IF u = v THEN Gone ELSE uploads[u]
    BY <1>0, <1>2, Ended
  <2> QED
    BY <1>0, <1>2, <2>1 DEF Gone
<1>3. ASSUME NEW r \in Runner, Create(r) PROVE Goal
  <2>1. PICK u \in UploadId : /\ \A v \in UploadId : (v < u) <=> (uploads[v].state # "unused")
                              /\ uploads' = [uploads EXCEPT ![u].state = "open"]
    BY <1>3 DEF Create
  <2>2. /\ uploads' \in [UploadId -> Upload] /\ uploads'[u].state = "open"
        /\ \A v \in UploadId : uploads'[v].parts = uploads[v].parts /\ (v # u => uploads'[v] = uploads[v])
    BY <1>0, <2>1, Opened
  <2>3. uploads[u].state = "unused" /\ size' = size
    BY <1>3, <2>1 DEF Create, UploadId
  <2> QED
    BY <1>0, <2>2, <2>3
<1>4. ASSUME NEW r \in Runner, UploadPart(r) PROVE Goal
  <2>1. CASE ~aborted[r] /\ Live(id[r])
    BY <1>0, <1>4, <2>1, PartSent DEF UploadPart, Live
  <2>2. CASE ~(~aborted[r] /\ Live(id[r]))
    BY <1>1, <1>4, <2>2 DEF UploadPart
  <2> QED
    BY <2>1, <2>2
<1>5. ASSUME NEW r \in Runner, Complete(r) \/ Abort(r) PROVE Goal
  <2>1. size' = size /\ (uploads' = uploads \/ uploads' = [uploads EXCEPT ![id[r]] = Gone])
    BY <1>5 DEF Complete, Abort, AbortUpload, Gone
  <2> QED
    BY <1>1, <1>2, <2>1
<1>6. ASSUME NEW u, Expire(u) PROVE Goal
  <2>1. size' = size /\ uploads' = [uploads EXCEPT ![u] = Gone]
    BY <1>6 DEF Expire, Gone
  <2> QED
    BY <1>2, <2>1
<1>7. ASSUME NEW r \in Runner,
             Run(r) \/ Load(r) \/ ListParts(r) \/ HeadObject(r) \/ Adopt(r) \/ Stale(r) \/ SaveFirst(r)
               \/ SavePart(r) \/ Clear(r) \/ Fault(r) \/ Drop(r) \/ Cancel(r) \/ Crash(r)
      PROVE  Goal
  <2>1. size' = size /\ uploads' = uploads
    BY <1>7 DEF Run, Load, ListParts, HeadObject, Adopt, Stale, SaveFirst, SavePart, Clear, Fault,
                Drop, Cancel, Crash, s3Vars
  <2> QED
    BY <1>1, <2>1
<1>8. ASSUME UNCHANGED vars PROVE Goal
  BY <1>1, <1>8 DEF vars, s3Vars
<1> HIDE DEF Goal
<1>9. ASSUME NEW r \in Runner, Run(r) \/ Step(r) \/ Cancel(r) \/ Crash(r) PROVE Goal
  BY <1>3, <1>4, <1>5, <1>7, <1>9 DEF Step
<1>10. Goal
  BY <1>6, <1>8, <1>9 DEF Next
<1> QED
  BY <1>10 DEF Goal

(* A runner moves itself only: its place becomes one its action names.     *)
LEMMA OthersStay ==
  ASSUME TypeOK, NEW r \in Runner, Run(r) \/ Step(r) \/ Cancel(r) \/ Crash(r),
         NEW s \in Runner, s # r
  PROVE  pc'[s] = pc[s] /\ id'[s] = id[s] /\ known'[s] = known[s]
<1>1. ASSUME NEW where, Goto(r, where)
      PROVE  pc'[s] = pc[s]
  BY <1>1 DEF Goto, TypeOK
<1>2. ASSUME NEW where, Answered(r, where)
      PROVE  pc'[s] = pc[s]
  BY <1>1, <1>2 DEF Answered
<1>3. pc'[s] = pc[s]
  BY <1>1, <1>2 DEF Run, Step, Load, LoadRow, ListParts, HeadObject, NothingLeft, Adopt, Stale, Create,
     SaveFirst, UploadPart, SavePart, Complete, Clear, Fault, Abort, Drop, Cancel, Crash
<1>4. id'[s] = id[s]
  BY DEF Run, Step, Load, LoadRow, ListParts, HeadObject, Adopt, Stale, Create, SaveFirst, UploadPart,
     SavePart, Complete, Clear, Fault, Abort, Drop, Cancel, Crash, localVars, TypeOK
<1>5. known'[s] = known[s]
  BY DEF Run, Step, Load, LoadRow, ListParts, HeadObject, Adopt, Stale, Create, SaveFirst, UploadPart,
     SavePart, Complete, Clear, Fault, Abort, Drop, Cancel, Crash, localVars, TypeOK
<1> QED
  BY <1>3, <1>4, <1>5

(* Where a runner goes.                                                    *)
LEMMA GoneTo ==
  ASSUME TypeOK, NEW r \in Runner, NEW where
  PROVE  /\ Goto(r, where) => pc'[r] = where
         /\ Answered(r, where) => \/ pc'[r] = where /\ faults' = faults
                                  \/ pc'[r] = Thrown(r) /\ faults' = faults + 1
<1>0. r \in DOMAIN pc
  BY DEF TypeOK
<1>1. Goto(r, where) => pc'[r] = where
  BY <1>0 DEF Goto
<1>2. Goto(r, Thrown(r)) => pc'[r] = Thrown(r)
  BY <1>0 DEF Goto
<1>3. ASSUME Answered(r, where)
      PROVE  \/ pc'[r] = where /\ faults' = faults
             \/ pc'[r] = Thrown(r) /\ faults' = faults + 1
  <2>1. CASE Goto(r, where) /\ UNCHANGED faults
    BY <1>1, <2>1
  <2>2. CASE Goto(r, Thrown(r)) /\ faults' = faults + 1
    BY <1>2, <2>2
  <2> QED
    BY <1>3, <2>1, <2>2 DEF Answered
<1> QED
  BY <1>1, <1>3

(* What a runner's step leaves of the invariant for that runner.           *)
LEMMA RunnerStep ==
  ASSUME TypeOK, PartsInv, NEW r \in Runner, Run(r) \/ Step(r) \/ Cancel(r) \/ Crash(r)
  PROVE  /\ Good(size, known'[r])
         /\ pc'[r] \in Fresh => known'[r] = <<>>
         /\ id'[r] # NoUpload => uploads'[id'[r]].state # "unused"
         /\ (pc'[r] \in Sending /\ id'[r] # NoUpload /\ uploads'[id'[r]].state = "open")
              => Knows(known'[r], uploads'[id'[r]].parts)
<1> DEFINE Goal == /\ Good(size, known'[r])
                   /\ pc'[r] \in Fresh => known'[r] = <<>>
                   /\ id'[r] # NoUpload => uploads'[id'[r]].state # "unused"
                   /\ (pc'[r] \in Sending /\ id'[r] # NoUpload /\ uploads'[id'[r]].state = "open")
                        => Knows(known'[r], uploads'[id'[r]].parts)
<1>0. /\ Good(size, known[r])
      /\ pc[r] \in Fresh => known[r] = <<>>
      /\ id[r] # NoUpload => uploads[id[r]].state # "unused"
      /\ (pc[r] \in Sending /\ id[r] # NoUpload /\ uploads[id[r]].state = "open")
           => Knows(known[r], uploads[id[r]].parts)
      /\ Thrown(r) \in {"abort", "failed"}
      /\ Good(size, <<>>) /\ Len(<<>>) = 0
      /\ uploads \in [UploadId -> Upload] /\ id[r] \in UploadId \cup {NoUpload}
  BY ThrownType, EmptySeq DEF PartsInv, Live, Good, TypeOK, Upload
<1>1. ASSUME uploads' = uploads, id'[r] = id[r], known'[r] = known[r],
             pc'[r] \in Fresh => pc[r] \in Fresh, pc'[r] \in Sending => pc[r] \in Sending
      PROVE  Goal
  BY <1>0, <1>1
<1>2. ASSUME uploads' = [uploads EXCEPT ![id[r]] = Gone], id'[r] = id[r], known'[r] = known[r],
             pc'[r] \notin Fresh \cup Sending
      PROVE  Goal
  BY <1>0, <1>2, Ended DEF Gone
<1>3. ASSUME Run(r) PROVE Goal
  <2>1. known'[r] = <<>> /\ id'[r] = NoUpload
    BY <1>3 DEF Run, TypeOK
  <2> QED
    BY <1>0, <2>1
<1>4. ASSUME Load(r) PROVE Goal
  <2>0. uploads' = uploads /\ known'[r] = known[r] /\ pc[r] = "load"
    BY <1>4 DEF Load, s3Vars
  <2>1. CASE Goto(r, "create") /\ UNCHANGED id
    BY <1>1, <2>0, <2>1, GoneTo DEF Fresh, Sending
  <2>2. CASE row.id # NoUpload /\ Goto(r, "list") /\ id' = [id EXCEPT ![r] = row.id]
    <3>1. pc'[r] = "list" /\ id'[r] = row.id /\ row.id \in UploadId
      BY <2>2, GoneTo DEF TypeOK
    <3>2. uploads[row.id].state # "unused"
      BY <3>1 DEF PartsInv
    <3> QED
      BY <1>0, <2>0, <3>1, <3>2 DEF Fresh, Sending
  <2> QED
    BY <1>4, <2>1, <2>2 DEF Load, LoadRow
<1>5. ASSUME ListParts(r) PROVE Goal
  <2>0. uploads' = uploads /\ id'[r] = id[r] /\ pc[r] = "list"
    BY <1>5 DEF ListParts, s3Vars
  <2>1. CASE Live(id[r]) /\ Goto(r, "read") /\ known' = [known EXCEPT ![r] = PartsListed(r)]
    <3>1. pc'[r] = "read" /\ known'[r] = uploads[id[r]].parts /\ id[r] \in UploadId
      BY <2>1, GoneTo, Reading DEF TypeOK, PartsListed
    <3>2. Good(size, uploads[id[r]].parts) /\ Len(uploads[id[r]].parts) \in Nat
      BY <3>1, Reading, LenProperties DEF PartsInv
    <3> QED
      BY <1>0, <2>0, <3>1, <3>2 DEF Knows, Fresh
  <2>2. CASE (Goto(r, "head") \/ Goto(r, "stale")) /\ UNCHANGED known
    BY <1>1, <2>0, <2>2, GoneTo DEF Fresh, Sending
  <2> QED
    BY <1>5, <2>1, <2>2 DEF ListParts
<1>6. ASSUME Create(r) PROVE Goal
  <2>0. known'[r] = known[r] /\ pc[r] = "create" /\ pc'[r] \in {"first", Thrown(r)}
    BY <1>6, GoneTo DEF Create
  <2>1. PICK u \in UploadId : /\ \A v \in UploadId : (v < u) <=> (uploads[v].state # "unused")
                              /\ uploads' = [uploads EXCEPT ![u].state = "open"]
                              /\ id' = [id EXCEPT ![r] = u]
    BY <1>6 DEF Create
  <2>2. uploads'[u].state = "open" /\ uploads'[u].parts = uploads[u].parts /\ id'[r] = u
    BY <1>0, <2>1, Opened DEF TypeOK
  <2>3. uploads[u].state = "unused"
    BY <2>1 DEF UploadId
  <2>4. uploads[u].parts = <<>> /\ known[r] = <<>>
    BY <1>0, <2>0, <2>3 DEF PartsInv, Fresh
  <2> QED
    BY <1>0, <2>0, <2>2, <2>4 DEF Knows
<1>7. ASSUME UploadPart(r) PROVE Goal
  <2>0. id'[r] = id[r] /\ pc[r] = "read"
    BY <1>7 DEF UploadPart
  <2>1. CASE ~aborted[r] /\ Live(id[r])
    <3>1. pc'[r] \in {"save", Thrown(r)}
      BY <1>7, <2>1, GoneTo DEF UploadPart
    <3>2. /\ Good(size, known'[r]) /\ Knows(known'[r], uploads'[id[r]].parts)
          /\ uploads'[id[r]].state = "open"
      BY <1>7, <2>1, PartSent DEF Knows
    <3> QED
      BY <1>0, <2>0, <3>1, <3>2 DEF Fresh
  <2>2. CASE ~(~aborted[r] /\ Live(id[r]))
    BY <1>0, <1>1, <1>7, <2>0, <2>2, GoneTo DEF UploadPart, Fresh, Sending
  <2> QED
    BY <2>1, <2>2
<1>8. ASSUME Complete(r) PROVE Goal
  <2>0. id'[r] = id[r] /\ known'[r] = known[r]
    BY <1>8 DEF Complete, localVars
  <2>1. \/ uploads' = [uploads EXCEPT ![id[r]] = Gone] /\ Answered(r, "clear")
        \/ uploads' = uploads /\ Goto(r, Thrown(r))
    BY <1>8 DEF Complete, Gone
  <2>2. pc'[r] \in {"clear", Thrown(r)}
    BY <2>1, GoneTo
  <2> QED
    BY <1>0, <1>1, <1>2, <2>0, <2>1, <2>2 DEF Fresh, Sending
<1>9. ASSUME Abort(r) PROVE Goal
  <2>1. /\ id'[r] = id[r] /\ known'[r] = known[r] /\ pc'[r] = "drop"
        /\ uploads' = [uploads EXCEPT ![id[r]] = Gone] \/ uploads' = uploads
    BY <1>9, GoneTo DEF Abort, AbortUpload, Gone, localVars
  <2> QED
    BY <1>1, <1>2, <2>1 DEF Fresh, Sending
<1>10. ASSUME HeadObject(r) \/ Adopt(r) \/ Stale(r) \/ SaveFirst(r) \/ SavePart(r) \/ Clear(r) \/ Fault(r)
                \/ Drop(r) \/ Crash(r)
       PROVE  Goal
  <2>1. uploads' = uploads /\ id'[r] = id[r] /\ known'[r] = known[r]
    BY <1>10 DEF HeadObject, Adopt, Stale, SaveFirst, SavePart, Clear, Fault, Drop, Crash, s3Vars, localVars
  <2>2. \/ pc[r] \in {"head", "stale"} /\ pc'[r] \in {"adopt", "stale", "create", Thrown(r)}
        \/ pc[r] \in {"first", "save"} /\ pc'[r] \in {"read", Thrown(r)}
        \/ pc'[r] \in {"done", "canceled", "idle", Thrown(r)}
    BY <1>10, GoneTo DEF HeadObject, NothingLeft, Adopt, Stale, SaveFirst, SavePart, Clear, Fault, Drop, Crash
  <2> QED
    BY <1>0, <1>1, <2>1, <2>2 DEF Fresh, Sending
<1>11. ASSUME Cancel(r) PROVE Goal
  BY <1>1, <1>11 DEF Cancel, s3Vars
<1> HIDE DEF Goal
<1>12. Goal
  BY <1>3, <1>4, <1>5, <1>6, <1>7, <1>8, <1>9, <1>10, <1>11 DEF Step
<1> QED
  BY <1>12 DEF Goal

(* Every step keeps the parts of uploads and runs chunks of the source.    *)
LEMMA PartsStep ==
  ASSUME TypeOK, PartsInv, [Next]_vars, TypeOK'
  PROVE  PartsInv'
<1>1. /\ size' = size
      /\ \A u \in UploadId :
           /\ Good(size, uploads'[u].parts)
           /\ uploads'[u].state = "unused" => uploads'[u] = uploads[u]
           /\ uploads'[u].state = "open" =>
                uploads[u].state # "gone" /\ Len(uploads[u].parts) <= Len(uploads'[u].parts)
  BY UploadsMove
<1>2. row'.id \in {row.id, NoUpload} \/ \E r \in Runner : row'.id = id[r]
  <2>1. ASSUME NEW r \in Runner, Run(r) \/ Step(r) \/ Cancel(r) \/ Crash(r)
        PROVE  row'.id \in {row.id, NoUpload, id[r]}
    BY <2>1 DEF Run, Step, Load, ListParts, HeadObject, Adopt, Stale, Create, SaveFirst, UploadPart, SavePart,
       Complete, Clear, Fault, Abort, Drop, Cancel, Crash, NoRow
  <2>2. ASSUME NEW u \in UploadId, Expire(u)
        PROVE  row' = row
    BY <2>2 DEF Expire
  <2> QED
    BY <2>1, <2>2 DEF Next, vars
<1>3. ASSUME NEW u \in UploadId, uploads'[u].state = "unused"
      PROVE  uploads'[u].parts = <<>> /\ row'.id # u
  <2>1. uploads[u].state = "unused" /\ uploads[u].parts = <<>> /\ row.id # u
    BY <1>1, <1>3 DEF PartsInv
  <2>2. \A r \in Runner : id[r] # u
    BY <2>1, Bounds DEF PartsInv
  <2> QED
    BY <1>1, <1>2, <1>3, <2>1, <2>2, Bounds
<1>4. ASSUME NEW s \in Runner
      PROVE  /\ Good(size, known'[s])
             /\ pc'[s] \in Fresh => known'[s] = <<>>
             /\ id'[s] # NoUpload => uploads'[id'[s]].state # "unused"
             /\ (pc'[s] \in Sending /\ id'[s] # NoUpload /\ uploads'[id'[s]].state = "open")
                  => Knows(known'[s], uploads'[id'[s]].parts)
  <2> DEFINE Goal == /\ Good(size, known'[s])
                     /\ pc'[s] \in Fresh => known'[s] = <<>>
                     /\ id'[s] # NoUpload => uploads'[id'[s]].state # "unused"
                     /\ (pc'[s] \in Sending /\ id'[s] # NoUpload /\ uploads'[id'[s]].state = "open")
                          => Knows(known'[s], uploads'[id'[s]].parts)
  <2>1. ASSUME Run(s) \/ Step(s) \/ Cancel(s) \/ Crash(s) PROVE Goal
    BY <2>1, RunnerStep
  <2>2. ASSUME pc'[s] = pc[s], id'[s] = id[s], known'[s] = known[s],
               \/ ~OneRunner
               \/ \A u \in UploadId : uploads'[u].state = "open" => uploads'[u] = uploads[u]
        PROVE  Goal
    <3>1. id[s] \in UploadId \cup {NoUpload} /\ Len(known[s]) \in Nat
      BY Reading, LenProperties
    <3>2. \A u \in UploadId : Len(uploads[u].parts) \in Nat /\ Len(uploads'[u].parts) \in Nat
      BY UploadsMove, Reading, LenProperties DEF Upload
    <3>3. /\ Good(size, known[s])
          /\ pc[s] \in Fresh => known[s] = <<>>
          /\ id[s] # NoUpload => uploads[id[s]].state # "unused"
          /\ (pc[s] \in Sending /\ id[s] # NoUpload /\ uploads[id[s]].state = "open")
               => Knows(known[s], uploads[id[s]].parts)
      BY DEF PartsInv, Live
    <3>4. id[s] # NoUpload => uploads'[id[s]].state # "unused"
      BY <1>1, <3>1, <3>3
    <3>5. ASSUME id[s] # NoUpload, uploads'[id[s]].state = "open"
          PROVE  uploads[id[s]].state = "open"
      BY <1>1, <3>1, <3>3, <3>5, Reading
    <3>6. (pc[s] \in Sending /\ id[s] # NoUpload /\ uploads'[id[s]].state = "open")
            => Knows(known[s], uploads'[id[s]].parts)
      BY <1>1, <2>2, <3>1, <3>2, <3>3, <3>5 DEF Knows
    <3> QED
      BY <2>2, <3>3, <3>4, <3>6
  <2>3. ASSUME NEW r \in Runner, r # s, Run(r) \/ Step(r) \/ Cancel(r) \/ Crash(r)
        PROVE  pc'[s] = pc[s] /\ id'[s] = id[s] /\ known'[s] = known[s] /\ ~OneRunner
    BY <2>3, OthersStay DEF OneRunner
  <2>4. ASSUME NEW u \in UploadId, Expire(u)
        PROVE  /\ pc'[s] = pc[s] /\ id'[s] = id[s] /\ known'[s] = known[s]
               /\ \A v \in UploadId : uploads'[v].state = "open" => uploads'[v] = uploads[v]
    <3>1. uploads \in [UploadId -> Upload] /\ uploads' = [uploads EXCEPT ![u] = Gone]
      BY <2>4 DEF Expire, TypeOK, Upload, Gone
    <3> QED
      BY <2>4, <3>1, Ended DEF Expire, localVars, Gone
  <2>5. ASSUME UNCHANGED vars
        PROVE  /\ pc'[s] = pc[s] /\ id'[s] = id[s] /\ known'[s] = known[s]
               /\ \A v \in UploadId : uploads'[v].state = "open" => uploads'[v] = uploads[v]
    BY <2>5 DEF vars, localVars, s3Vars
  <2> HIDE DEF Goal
  <2>6. Goal
    BY <2>1, <2>2, <2>3, <2>4, <2>5 DEF Next
  <2> QED
    BY <2>6 DEF Goal
<1> QED
  BY <1>1, <1>3, <1>4 DEF PartsInv, Live

----------------------------------------------------------------------------
(***************************************************************************)
(* The object                                                              *)
(***************************************************************************)

(* A run completes an upload when its parts are the whole source.          *)
LEMMA Completed ==
  ASSUME TypeOK, PartsInv, NEW r \in Runner, Complete(r), object' # object
  PROVE  object' # Absent /\ Intact(object')
<1>1. /\ pc[r] = "read" /\ ~MoreToRead(r) /\ Live(id[r]) /\ known[r] # <<>>
      /\ object' = [i \in DOMAIN known[r] |-> uploads[id[r]].parts[i]]
  BY DEF Complete
<1>2. id[r] \in UploadId /\ known[r] \in Seq(Part) /\ uploads[id[r]].parts \in Seq(Part) /\ size \in Nat
  BY <1>1, Reading
<1>3. /\ Good(size, known[r]) /\ Good(size, uploads[id[r]].parts)
      /\ Knows(known[r], uploads[id[r]].parts)
  BY <1>1, <1>2 DEF PartsInv, Sending
<1>4. /\ Len(known[r]) \in Nat /\ DOMAIN known[r] = 1..Len(known[r])
      /\ Len(uploads[id[r]].parts) \in Nat /\ DOMAIN uploads[id[r]].parts = 1..Len(uploads[id[r]].parts)
  BY <1>2, LenProperties
<1>5. object' = known[r]
  <2>1. ASSUME NEW i \in DOMAIN known[r]
        PROVE  uploads[id[r]].parts[i] = known[r][i]
    <3>1. i \in DOMAIN uploads[id[r]].parts
      BY <1>3, <1>4, <2>1 DEF Knows
    <3> QED
      BY <1>3, <2>1, <3>1 DEF Good
  <2>2. object' = [i \in DOMAIN known[r] |-> known[r][i]]
    BY <1>1, <2>1
  <2>3. known[r] = [i \in DOMAIN known[r] |-> known[r][i]]
    BY <1>2, <1>4, SeqDef
  <2> QED
    BY <2>2, <2>3
<1>6. Contiguous(known[r]) /\ Uploaded(known[r]) = Extent(known[r]) /\ Extent(known[r]) \in 0..size
  BY <1>2, <1>3, GoodParts
<1>7. Extent(known[r]) = size
  BY <1>1, <1>2, <1>6 DEF MoreToRead
<1> QED
  BY <1>1, <1>5, <1>6, <1>7 DEF Intact, Absent

(* Every other step leaves the object alone.                               *)
LEMMA ObjectMoves ==
  ASSUME TypeOK, PartsInv, [Next]_vars, object' # object
  PROVE  object' # Absent /\ Intact(object')
<1>1. ASSUME NEW r \in Runner,
             Run(r) \/ Load(r) \/ ListParts(r) \/ HeadObject(r) \/ Adopt(r) \/ Stale(r) \/ Create(r)
               \/ SaveFirst(r) \/ UploadPart(r) \/ SavePart(r) \/ Clear(r) \/ Fault(r) \/ Abort(r) \/ Drop(r)
               \/ Cancel(r) \/ Crash(r)
      PROVE  object' = object
  BY <1>1 DEF Run, Load, ListParts, HeadObject, Adopt, Stale, Create, SaveFirst, UploadPart, SavePart,
     Clear, Fault, Abort, Drop, Cancel, Crash, s3Vars
<1>2. ASSUME NEW u \in UploadId, Expire(u)
      PROVE  object' = object
  BY <1>2 DEF Expire
<1>3. UNCHANGED vars => object' = object
  BY DEF vars, s3Vars
<1>4. \E r \in Runner : Complete(r)
  BY <1>1, <1>2, <1>3 DEF Next, Step
<1> QED
  BY <1>4, Completed

(* Every step keeps the object what it should be.                          *)
LEMMA ObjectStep ==
  ASSUME TypeOK, PartsInv, ObjectInv, [Next]_vars
  PROVE  ObjectInv'
<1>1. size' = size
  BY UploadsMove
<1>2. (object \in {Absent, Earlier} \/ Intact(object))'
  BY <1>1, ObjectMoves DEF ObjectInv, Intact
<1>3. object # Absent => object' # Absent
  BY ObjectMoves
<1>4. ASSUME NEW s \in Runner, pc'[s] \in {"adopt", "clear", "done"}
      PROVE  object' # Absent
  <2>1. CASE pc'[s] = pc[s]
    BY <1>3, <1>4, <2>1 DEF ObjectInv
  <2>2. ASSUME NEW r \in Runner, Run(r) \/ Step(r) \/ Cancel(r) \/ Crash(r), pc'[s] # pc[s]
        PROVE  object' # Absent
    <3>1. r = s
      BY <2>2, OthersStay
    <3>2. Thrown(s) \notin {"adopt", "clear", "done"}
      BY ThrownType
    <3>3. CASE HeadObject(s)
      <4>1. CASE object # Absent
        BY <1>3, <4>1
      <4>2. CASE ~(object # Absent)
        BY <1>4, <3>3, <4>2, GoneTo DEF HeadObject, NothingLeft
      <4> QED
        BY <4>1, <4>2
    <3>4. CASE Complete(s)
      <4>1. CASE object' # object
        BY <4>1, ObjectMoves
      <4>2. CASE Goto(s, Thrown(s))
        BY <1>4, <3>2, <4>2, GoneTo
      <4>3. CASE Live(id[s]) /\ known[s] # <<>> /\ object' = [i \in DOMAIN known[s] |-> uploads[id[s]].parts[i]]
        <5>1. known[s] \in Seq(Part) /\ DOMAIN known[s] # {}
          BY <4>3, Reading, EmptySeq, LenProperties, SMTT(30)
        <5>2. DOMAIN object' = DOMAIN known[s] /\ DOMAIN Absent = {}
          BY <4>3, EmptySeq DEF Absent
        <5> QED
          BY <5>1, <5>2
      <4> QED
        BY <3>4, <4>2, <4>3 DEF Complete
    <3>5. CASE Adopt(s) \/ Clear(s)
      BY <1>3, <3>5 DEF Adopt, Clear, ObjectInv
    <3>6. CASE Load(s) \/ ListParts(s) \/ Stale(s) \/ Create(s) \/ SaveFirst(s) \/ UploadPart(s) \/ SavePart(s)
                 \/ Fault(s) \/ Abort(s) \/ Drop(s) \/ Cancel(s) \/ Crash(s) \/ Run(s)
      <4>1. \/ pc'[s] \in {"create", "list", "read", "head", "stale", "first", "save", "drop", "canceled",
                            "idle", "load", Thrown(s)}
            \/ pc'[s] = pc[s]
        BY <3>6, GoneTo DEF Load, LoadRow, ListParts, Stale, Create, SaveFirst, UploadPart, SavePart,
           Fault, Abort, Drop, Cancel, Crash, Run
      <4> QED
        BY <1>4, <2>2, <3>2, <4>1
    <3> QED
      BY <2>2, <3>1, <3>3, <3>4, <3>5, <3>6 DEF Step
  <2>3. ASSUME NEW u \in UploadId, Expire(u)
        PROVE  pc'[s] = pc[s]
    BY <2>3 DEF Expire
  <2>4. UNCHANGED vars => pc'[s] = pc[s]
    BY DEF vars
  <2> QED
    BY <2>1, <2>2, <2>3, <2>4 DEF Next
<1> QED
  BY <1>2, <1>4 DEF ObjectInv

----------------------------------------------------------------------------
(***************************************************************************)
(* The uploads left behind                                                 *)
(***************************************************************************)

(* A runner with an upload in hand keeps to it. It opens no other than the *)
(* one it then has, and lets go of one that is open only when a fault or a *)
(* crash is counted.                                                       *)
LEMMA Releases ==
  ASSUME TypeOK, PartsInv, size # 0, NEW r \in Runner, Run(r) \/ Step(r) \/ Cancel(r) \/ Crash(r)
  PROVE  /\ pc[r] \in InHand => id'[r] = id[r]
         /\ \A u \in UploadId : uploads'[u].state = "open" => uploads[u].state = "open" \/ u = id'[r]
         /\ \/ faults' + crashes' = faults + crashes + 1
            \/ /\ faults' = faults /\ crashes' = crashes
               /\ (Live(id'[r]) => pc[r] \in InHand) /\ id'[r] # NoUpload
                    => uploads'[id'[r]].state # "open" \/ pc'[r] \in InHand
<1> DEFINE Kept == /\ pc[r] \in InHand => id'[r] = id[r]
                   /\ \A u \in UploadId : uploads'[u].state = "open" => uploads[u].state = "open" \/ u = id'[r]
           Counted == faults' + crashes' = faults + crashes + 1
           Held == /\ faults' = faults /\ crashes' = crashes
                   /\ (Live(id'[r]) => pc[r] \in InHand) /\ id'[r] # NoUpload
                        => uploads'[id'[r]].state # "open" \/ pc'[r] \in InHand
<1>0. /\ uploads \in [UploadId -> Upload] /\ id[r] \in UploadId \cup {NoUpload}
      /\ faults \in Nat /\ crashes \in Nat
  BY Reading DEF TypeOK, Upload
<1>1. ASSUME faults' = faults + 1, crashes' = crashes
      PROVE  Counted
  BY <1>0, <1>1
<1>2. ASSUME NEW next, Answered(r, next), crashes' = crashes
      PROVE  Counted \/ (faults' = faults /\ pc'[r] = next)
  BY <1>1, <1>2, GoneTo
<1>3. ASSUME uploads' = uploads, faults' = faults, crashes' = crashes, pc[r] \notin InHand
      PROVE  Held
  BY <1>3 DEF Live
<1>4. ASSUME faults' = faults, crashes' = crashes, pc'[r] \in InHand
      PROVE  Held
  BY <1>4
<1>5. ASSUME uploads' = uploads, id' = id \/ pc[r] \notin InHand
      PROVE  Kept
  BY <1>5
<1>6. ASSUME uploads' = [uploads EXCEPT ![id[r]] = Gone], id' = id
      PROVE  Kept /\ (id'[r] # NoUpload => uploads'[id'[r]].state # "open")
  BY <1>0, <1>6, Ended DEF Gone
<1>7. ASSUME Run(r) PROVE Kept /\ Held
  <2>1. uploads' = uploads /\ faults' = faults /\ crashes' = crashes /\ pc[r] \notin InHand
    BY <1>7 DEF Run, s3Vars, InHand
  <2> QED
    BY <1>3, <1>5, <2>1
<1>8. ASSUME Load(r) PROVE Kept /\ Held
  <2>1. uploads' = uploads /\ faults' = faults /\ crashes' = crashes /\ pc[r] \notin InHand
    BY <1>8 DEF Load, s3Vars, countVars, InHand
  <2> QED
    BY <1>3, <1>5, <2>1
<1>9. ASSUME ListParts(r) PROVE Kept /\ (Counted \/ Held)
  <2>1. uploads' = uploads /\ id' = id /\ crashes' = crashes
    BY <1>9 DEF ListParts, s3Vars
  <2>2. CASE Goto(r, "read") /\ UNCHANGED faults
    BY <1>4, <2>1, <2>2, GoneTo DEF InHand
  <2>3. CASE ~Live(id[r]) /\ UNCHANGED faults
    BY <2>1, <2>3 DEF Live
  <2>4. CASE faults' = faults + 1
    BY <1>1, <2>1, <2>4
  <2> QED
    BY <1>5, <1>9, <2>1, <2>2, <2>3, <2>4 DEF ListParts
<1>10. ASSUME HeadObject(r) \/ Adopt(r) \/ Stale(r) \/ Clear(r) \/ Drop(r) PROVE Kept /\ (Counted \/ Held)
  <2>1. uploads' = uploads /\ id' = id /\ crashes' = crashes /\ pc[r] \notin InHand
    BY <1>10 DEF HeadObject, Adopt, Stale, Clear, Drop, s3Vars, localVars, InHand
  <2>2. faults' = faults \/ faults' = faults + 1
    BY <1>10 DEF HeadObject, Adopt, Stale, Clear, Drop, Answered
  <2> QED
    BY <1>1, <1>3, <1>5, <2>1, <2>2
<1>11. ASSUME Create(r) PROVE Kept /\ (Counted \/ Held)
  <2>1. PICK u \in UploadId : uploads' = [uploads EXCEPT ![u].state = "open"] /\ id' = [id EXCEPT ![r] = u]
    BY <1>11 DEF Create
  <2>2. /\ \A v \in UploadId : v # u => uploads'[v] = uploads[v]
        /\ id'[r] = u /\ pc[r] \notin InHand
    BY <1>0, <1>11, <2>1, Opened DEF TypeOK, Create, InHand
  <2>3. Kept
    BY <2>2
  <2>4. Counted \/ (faults' = faults /\ pc'[r] = "first" /\ crashes' = crashes)
    BY <1>2, <1>11 DEF Create
  <2> QED
    BY <1>4, <2>3, <2>4 DEF InHand
<1>12. ASSUME SaveFirst(r) \/ SavePart(r) PROVE Kept /\ (Counted \/ Held)
  <2>1. uploads' = uploads /\ id' = id /\ crashes' = crashes /\ Answered(r, "read")
    BY <1>12 DEF SaveFirst, SavePart, s3Vars, localVars
  <2>2. Counted \/ (faults' = faults /\ pc'[r] = "read")
    BY <1>2, <2>1
  <2> QED
    BY <1>4, <1>5, <2>1, <2>2 DEF InHand
<1>13. ASSUME UploadPart(r) PROVE Kept /\ (Counted \/ Held)
  <2>0. id' = id /\ crashes' = crashes /\ pc[r] = "read"
    BY <1>13 DEF UploadPart
  <2>1. CASE ~aborted[r] /\ Live(id[r])
    <3>1. Answered(r, "save")
      BY <1>13, <2>1 DEF UploadPart
    <3>2. Counted \/ (faults' = faults /\ pc'[r] = "save")
      BY <1>2, <2>0, <3>1
    <3>3. \A u \in UploadId : u # id[r] => uploads'[u] = uploads[u]
      BY <1>13, <2>1, PartSent
    <3> QED
      BY <1>4, <2>0, <3>2, <3>3 DEF InHand
  <2>2. CASE ~Live(id[r])
    <3>1. uploads' = uploads /\ faults' = faults
      BY <1>13, <2>2 DEF UploadPart
    <3> QED
      BY <1>5, <2>0, <2>2, <3>1 DEF Live
  <2>3. CASE aborted[r]
    <3>1. uploads' = uploads /\ faults' = faults /\ Goto(r, Thrown(r)) /\ Thrown(r) = "abort"
      BY <1>13, <2>0, <2>3 DEF UploadPart, Thrown, Guarded
    <3>2. pc'[r] = "abort"
      BY <3>1, GoneTo
    <3> QED
      BY <1>4, <1>5, <2>0, <3>1, <3>2 DEF InHand
  <2> QED
    BY <2>1, <2>2, <2>3
<1>14. ASSUME Complete(r) PROVE Kept /\ (Counted \/ Held)
  <2>0. id' = id /\ crashes' = crashes
    BY <1>14 DEF Complete, localVars
  <2>1. CASE Live(id[r]) /\ known[r] # <<>>
    <3>1. uploads' = [uploads EXCEPT ![id[r]] = Gone] /\ Answered(r, "clear")
      BY <1>14, <2>1 DEF Complete, Gone
    <3>2. Counted \/ faults' = faults
      BY <1>2, <2>0, <3>1
    <3> QED
      BY <1>6, <2>0, <3>1, <3>2
  <2>2. CASE ~Live(id[r])
    <3>1. uploads' = uploads /\ faults' = faults
      BY <1>14, <2>2 DEF Complete
    <3> QED
      BY <1>5, <2>0, <2>2, <3>1 DEF Live
  <2>3. CASE known[r] = <<>>
    <3>1. Uploaded(<<>>) = 0
      <4>1. <<>> \in Seq(Part) /\ Good(size, <<>>)
        BY EmptySeq DEF Good
      <4> QED
        BY <4>1, Reading, GoodParts DEF Extent
    <3> QED
      BY <1>14, <2>3, <3>1, Reading DEF Complete, MoreToRead
  <2> QED
    BY <2>1, <2>2, <2>3
<1>15. ASSUME Fault(r) PROVE Kept /\ Counted
  BY <1>1, <1>5, <1>15 DEF Fault, s3Vars, localVars
<1>16. ASSUME Abort(r) PROVE Kept /\ (Counted \/ Held)
  <2>1. id' = id /\ crashes' = crashes
    BY <1>16 DEF Abort, localVars
  <2>2. CASE uploads' = [uploads EXCEPT ![id[r]] = Gone] /\ UNCHANGED faults
    BY <1>6, <2>1, <2>2
  <2>3. CASE faults' = faults + 1 /\ UNCHANGED uploads
    BY <1>1, <1>5, <2>1, <2>3
  <2> QED
    BY <1>16, <2>2, <2>3 DEF Abort, AbortUpload, Gone
<1>17. ASSUME Cancel(r) PROVE Kept /\ Held
  <2>1. uploads' = uploads /\ id' = id /\ faults' = faults /\ crashes' = crashes /\ pc'[r] = pc[r]
    BY <1>17 DEF Cancel, s3Vars
  <2> QED
    BY <1>3, <1>4, <1>5, <2>1
<1>18. ASSUME Crash(r) PROVE Kept /\ Counted
  <2>1. uploads' = uploads /\ id' = id /\ faults' = faults /\ crashes' = crashes + 1
    BY <1>18 DEF Crash, s3Vars, localVars
  <2> QED
    BY <1>0, <1>5, <2>1
<1> HIDE DEF Kept, Counted, Held
<1>19. Kept /\ (Counted \/ Held)
  BY <1>7, <1>8, <1>9, <1>10, <1>11, <1>12, <1>13, <1>14, <1>15, <1>16, <1>17, <1>18 DEF Step
<1> QED
  BY <1>19 DEF Kept, Counted, Held

(* One element more counts for one.                                        *)
LEMMA OneMore ==
  ASSUME NEW A, NEW B, NEW x, IsFiniteSet(A), B \subseteq A \cup {x}
  PROVE  Cardinality(A) \in Nat /\ Cardinality(B) \in Nat /\ Cardinality(B) <= Cardinality(A) + 1
<1>1. /\ IsFiniteSet(A \cup {x}) /\ Cardinality(A) \in Nat
      /\ Cardinality(A \cup {x}) \in {Cardinality(A), Cardinality(A) + 1}
  BY FS_AddElement, FS_CardinalityType
<1>2. Cardinality(B) \in Nat /\ Cardinality(B) <= Cardinality(A \cup {x})
  BY <1>1, FS_Subset, FS_CardinalityType
<1> QED
  BY <1>1, <1>2

(* Every step leaves one upload more behind only if it counts for one.     *)
LEMMA LeakStep ==
  ASSUME TypeOK, PartsInv, LeakInv, [Next]_vars
  PROVE  LeakInv'
<1> SUFFICES ASSUME size' # 0 PROVE (Cardinality(Abandoned) <= faults + crashes)'
  BY DEF LeakInv
<1>0. /\ size # 0 /\ uploads \in [UploadId -> Upload] /\ uploads' \in [UploadId -> Upload]
      /\ NoUpload \notin UploadId /\ faults \in Nat /\ crashes \in Nat
  BY UploadsMove, Bounds, Reading DEF TypeOK, Upload
<1>1. Abandoned \subseteq UploadId /\ Abandoned' \subseteq UploadId /\ IsFiniteSet(Abandoned) /\ IsFiniteSet(Abandoned')
  BY Bounds, FS_Subset DEF Abandoned
<1>2. Cardinality(Abandoned) \in Nat /\ Cardinality(Abandoned) <= faults + crashes
  BY <1>0, <1>1, FS_CardinalityType DEF LeakInv
<1>3. ASSUME Abandoned' \subseteq Abandoned, faults' + crashes' = faults + crashes
      PROVE  (Cardinality(Abandoned) <= faults + crashes)'
  <2>1. Cardinality(Abandoned') <= Cardinality(Abandoned) /\ Cardinality(Abandoned') \in Nat
    BY <1>1, <1>3, FS_Subset, FS_CardinalityType
  <2> QED
    BY <1>0, <1>2, <1>3, <2>1
<1>4. ASSUME NEW r \in Runner, Run(r) \/ Step(r) \/ Cancel(r) \/ Crash(r)
      PROVE  (Cardinality(Abandoned) <= faults + crashes)'
  <2>1. /\ pc[r] \in InHand => id'[r] = id[r]
        /\ \A u \in UploadId : uploads'[u].state = "open" => uploads[u].state = "open" \/ u = id'[r]
        /\ \/ faults' + crashes' = faults + crashes + 1
           \/ /\ faults' = faults /\ crashes' = crashes
              /\ (Live(id'[r]) => pc[r] \in InHand) /\ id'[r] # NoUpload
                   => uploads'[id'[r]].state # "open" \/ pc'[r] \in InHand
    BY <1>0, <1>4, Releases
  <2>2. \A s \in Runner : s # r => pc'[s] = pc[s] /\ id'[s] = id[s]
    BY <1>4, OthersStay
  <2>3. ASSUME NEW u \in Abandoned'
        PROVE  /\ u \in UploadId /\ u # NoUpload /\ uploads'[u].state = "open"
               /\ \A s \in Runner : pc'[s] \in InHand => id'[s] # u
    BY <1>0 DEF Abandoned, Live
  <2>4. Abandoned' \subseteq Abandoned \cup {id'[r]}
    <3> SUFFICES ASSUME NEW u \in Abandoned', u # id'[r] PROVE u \in Abandoned
      OBVIOUS
    <3>1. Live(u)
      BY <2>1, <2>3 DEF Live
    <3>2. ASSUME NEW s \in Runner, pc[s] \in InHand
          PROVE  id[s] # u
      BY <2>1, <2>2, <2>3, <3>2
    <3> QED
      BY <2>3, <3>1, <3>2 DEF Abandoned
  <2>5. CASE faults' + crashes' = faults + crashes + 1
    <3>1. Cardinality(Abandoned') \in Nat /\ Cardinality(Abandoned') <= Cardinality(Abandoned) + 1
      BY <1>1, <2>4, OneMore
    <3> QED
      BY <1>0, <1>2, <2>5, <3>1
  <2>6. CASE /\ faults' = faults /\ crashes' = crashes
             /\ (Live(id'[r]) => pc[r] \in InHand) /\ id'[r] # NoUpload
                  => uploads'[id'[r]].state # "open" \/ pc'[r] \in InHand
    <3>1. ASSUME NEW u \in Abandoned', u = id'[r] PROVE u \in Abandoned
      <4>1. pc'[r] \notin InHand
        BY <2>3, <3>1
      <4>2. Live(u) /\ pc[r] \notin InHand
        BY <2>3, <2>6, <3>1, <4>1
      <4>3. ASSUME NEW s \in Runner, pc[s] \in InHand
            PROVE  id[s] # u
        BY <2>2, <2>3, <4>2, <4>3
      <4> QED
        BY <2>3, <4>2, <4>3 DEF Abandoned
    <3> QED
      BY <1>3, <2>4, <2>6, <3>1
  <2> QED
    BY <2>1, <2>5, <2>6
<1>5. ASSUME NEW v \in UploadId, Expire(v)
      PROVE  (Cardinality(Abandoned) <= faults + crashes)'
  <2>1. /\ uploads' = [uploads EXCEPT ![v] = Gone]
        /\ pc' = pc /\ id' = id /\ faults' = faults /\ crashes' = crashes
    BY <1>5 DEF Expire, Gone, localVars
  <2>2. \A u \in UploadId : uploads'[u].state = "open" => uploads[u].state = "open"
    BY <1>0, <2>1, Ended DEF Gone
  <2>3. Abandoned' \subseteq Abandoned
    BY <2>1, <2>2 DEF Abandoned, Live
  <2> QED
    BY <1>3, <2>1, <2>3
<1>6. ASSUME UNCHANGED vars
      PROVE  (Cardinality(Abandoned) <= faults + crashes)'
  <2>1. Abandoned' = Abandoned /\ faults' = faults /\ crashes' = crashes
    BY <1>6 DEF vars, s3Vars, localVars, countVars, Abandoned, Live
  <2> QED
    BY <1>2, <2>1
<1> QED
  BY <1>4, <1>5, <1>6 DEF Next

----------------------------------------------------------------------------
(***************************************************************************)
(* What is proved                                                          *)
(***************************************************************************)

(* The invariant holds whatever the runners, faults and crashes do         *)
(* (resumableUploader.ts:136-301).                                         *)
THEOREM Invariance == Spec => []IInv
<1>1. Init => IInv
  BY InitInv
<1>2. ASSUME IInv, [Next]_vars
      PROVE  IInv'
  <2>1. TypeOK'
    BY <1>2, TypeStep DEF IInv
  <2>2. PartsInv'
    BY <1>2, <2>1, PartsStep DEF IInv
  <2>3. ObjectInv'
    BY <1>2, ObjectStep DEF IInv
  <2>4. LeakInv'
    BY <1>2, LeakStep DEF IInv
  <2> QED
    BY <2>1, <2>2, <2>3, <2>4 DEF IInv
<1> QED
  BY <1>1, <1>2, PTL DEF Spec

(* No run replaces the object by anything but the whole source, an older   *)
(* object under the key or not (resumableUploader.ts:246-285).             *)
THEOREM ObjectNeverTorn == Spec => NeverTorn
<1>1. IInv /\ [Next]_vars => [object' # object => Intact(object')]_vars
  BY ObjectMoves DEF IInv
<1> QED
  BY <1>1, Invariance, PTL DEF Spec, NeverTorn

(* An older object is not there unless it was from the start.              *)
LEMMA NotOlder == object # Earlier /\ Spec => [](object # Earlier)
<1>1. ~Contiguous(Earlier)
  BY DEF Contiguous, Earlier
<1>2. IInv /\ object # Earlier /\ [Next]_vars => (object # Earlier)'
  BY <1>1, ObjectMoves DEF IInv, Intact
<1> QED
  BY <1>2, Invariance, PTL DEF Spec

(* If no older object is under the key, a run that returns has put the     *)
(* whole source there, with any number of processes on the job             *)
(* (resumableUploader.ts:168-200, 285-287).                                *)
THEOREM DoneIsIntact == object # Earlier /\ Spec => []DoneMeansIntact
<1>1. IInv /\ object # Earlier => DoneMeansIntact
  BY DEF IInv, ObjectInv, DoneMeansIntact
<1> QED
  BY <1>1, Invariance, NotOlder, PTL

(* The size of the source does not change.                                 *)
LEMMA SameSize == size # 0 /\ Spec => [](size # 0)
<1>1. IInv /\ size # 0 /\ [Next]_vars => (size # 0)'
  BY UploadsMove DEF IInv
<1> QED
  BY <1>1, Invariance, PTL DEF Spec

(* Moreover, unless the source is empty, each upload that nothing will     *)
(* ever find was left behind by a fault or a crash of its own: neither     *)
(* cancels nor retries nor a second process leave any                      *)
(* (resumableUploader.ts:136-301).                                         *)
THEOREM UploadSafe == object # Earlier /\ size # 0 /\ Spec => []UploadInv
<1>1. ASSUME IInv, size # 0
      PROVE  LeaksBounded
  <2>1. Leaked \subseteq Abandoned
    BY DEF Leaked, Abandoned, InHand, Working
  <2>2. IsFiniteSet(Abandoned) /\ Cardinality(Abandoned) <= faults + crashes
    BY <1>1, Bounds, FS_Subset DEF IInv, LeakInv, Abandoned
  <2>3. Cardinality(Leaked) <= Cardinality(Abandoned) /\ Cardinality(Leaked) \in Nat /\ Cardinality(Abandoned) \in Nat
    BY <2>1, <2>2, FS_Subset, FS_CardinalityType
  <2> QED
    BY <1>1, <2>2, <2>3, Reading DEF IInv, LeaksBounded
<1>2. IInv /\ size # 0 /\ DoneMeansIntact => UploadInv
  BY <1>1 DEF IInv, UploadInv
<1> QED
  BY <1>2, Invariance, DoneIsIntact, SameSize, PTL

(* A single process never sends S3 a part it has, whatever is lost in      *)
(* between (resumableUploader.ts:150-166, 246-283).                        *)
THEOREM PartsOnceAlone == OneRunner /\ Spec => PartsSentOnce
<1> SUFFICES ASSUME OneRunner PROVE Spec => PartsSentOnce
  OBVIOUS
<1>1. ASSUME IInv, [Next]_vars, NEW r \in Runner, pc[r] = "read", known'[r] # known[r]
      PROVE  Len(uploads'[id[r]].parts) = Len(uploads[id[r]].parts) + 1
  <2>1. TypeOK /\ PartsInv
    BY <1>1 DEF IInv
  <2>2. ASSUME NEW s \in Runner, Run(s) \/ Step(s) \/ Cancel(s) \/ Crash(s)
        PROVE  UploadPart(r) /\ ~aborted[r] /\ Live(id[r])
    <3>1. s = r
      BY DEF OneRunner
    <3>2. UploadPart(r)
      BY <1>1, <2>2, <3>1 DEF Run, Step, Load, ListParts, HeadObject, Adopt, Stale, Create, SaveFirst,
         SavePart, Complete, Clear, Fault, Abort, Drop, Cancel, Crash, localVars
    <3> QED
      BY <1>1, <3>2 DEF UploadPart
  <2>3. ASSUME NEW u \in UploadId, Expire(u)
        PROVE  FALSE
    BY <1>1, <2>3 DEF Expire, localVars
  <2>4. UploadPart(r) /\ ~aborted[r] /\ Live(id[r])
    BY <1>1, <2>2, <2>3 DEF Next, vars, localVars
  <2> QED
    BY <1>1, <2>1, <2>4, PartSent
<1>2. IInv /\ [Next]_vars =>
        [\A r \in Runner :
          (pc[r] = "read" /\ known'[r] # known[r]) =>
            Len(uploads'[id[r]].parts) = Len(uploads[id[r]].parts) + 1]_vars
  BY <1>1
<1> QED
  BY <1>2, Invariance, PTL DEF Spec, PartsSentOnce

----------------------------------------------------------------------------
(***************************************************************************)
(* One put of the whole object                                             *)
(***************************************************************************)

(* What a step of a runner does to its call: it begins, it goes on, it     *)
(* ends without an answer, or it returns where the object is taken for the *)
(* upload completed. The object changes only while a call goes on or ends  *)
(* without an answer.                                                      *)
LEMMA CallMoves ==
  ASSUME TypeOK, NEW r \in Runner, Run(r) \/ Step(r) \/ Cancel(r) \/ Crash(r)
  PROVE  \/ /\ pc[r] \in {"idle", "failed", "canceled"} /\ pc'[r] \in Working
            /\ object' = object
         \/ pc[r] \in Working /\ pc'[r] \in Working \cup {"idle", "failed", "canceled"}
         \/ pc[r] \in {"adopt", "clear"} /\ pc'[r] = "done" /\ object' = object
<1>0. Thrown(r) \in {"abort", "failed"}
  BY ThrownType
<1>1. CASE Run(r)
  BY <1>1, GoneTo DEF Run, Working, s3Vars
<1>2. CASE Load(r) \/ ListParts(r) \/ HeadObject(r) \/ Stale(r) \/ Create(r) \/ SaveFirst(r)
  <2>1. pc[r] \in Working
    BY <1>2 DEF Load, ListParts, HeadObject, Stale, Create, SaveFirst, Working
  <2>2. pc'[r] \in {"create", "list", "read", "head", "stale", "adopt", "first", Thrown(r)}
    BY <1>2, GoneTo DEF Load, LoadRow, ListParts, HeadObject, NothingLeft, Stale, Create, SaveFirst
  <2> QED
    BY <1>0, <2>1, <2>2 DEF Working
<1>3. CASE UploadPart(r) \/ SavePart(r) \/ Complete(r) \/ Fault(r) \/ Abort(r) \/ Drop(r)
  <2>1. pc[r] \in Working
    BY <1>3 DEF UploadPart, SavePart, Complete, Fault, Abort, Drop, Working
  <2>2. pc'[r] \in {"save", "read", "clear", "drop", "canceled", Thrown(r)}
    BY <1>3, GoneTo DEF UploadPart, SavePart, Complete, Fault, Abort, Drop
  <2> QED
    BY <1>0, <2>1, <2>2 DEF Working
<1>4. CASE Adopt(r) \/ Clear(r)
  <2>1. pc[r] \in {"adopt", "clear"} /\ object' = object
    BY <1>4 DEF Adopt, Clear, s3Vars
  <2>2. pc'[r] \in {"done", Thrown(r)}
    BY <1>4, GoneTo DEF Adopt, Clear
  <2> QED
    BY <1>0, <2>1, <2>2 DEF Working
<1>5. CASE Cancel(r) \/ Crash(r)
  <2>1. pc[r] \in Working /\ pc'[r] \in {pc[r], "idle"}
    BY <1>5, GoneTo DEF Cancel, Crash
  <2> QED
    BY <2>1
<1> QED
  BY <1>1, <1>2, <1>3, <1>4, <1>5 DEF Step

(* A step of r leaves the other calls alone, and what is stored is the     *)
(* source as soon as it changes.                                           *)
LEMMA OneCall ==
  ASSUME TypeOK, NEW r \in Runner, Run(r) \/ Step(r) \/ Cancel(r) \/ Crash(r)
  PROVE  CallOf' = [CallOf EXCEPT ![r] = CallOf'[r]]
<1>1. \A s \in Runner : s # r => pc'[s] = pc[s]
  BY OthersStay
<1>2. \A s \in Runner : s # r => CallOf'[s] = CallOf[s]
  BY <1>1 DEF CallOf
<1>3. CallOf = [s \in Runner |-> CallOf[s]] /\ CallOf' = [s \in Runner |-> CallOf'[s]]
  BY DEF CallOf
<1> HIDE DEF CallOf
<1> QED
  BY <1>2, <1>3

LEMMA StoredMoves ==
  ASSUME TypeOK, PartsInv, [Next]_vars
  PROVE  /\ object' = object => StoredAs' = StoredAs
         /\ object' # object => StoredAs' = "source"
<1>1. size' = size
  BY UploadsMove
<1>2. ~Contiguous(Earlier)
  BY DEF Contiguous, Earlier
<1>3. object' # object => object' # Absent /\ object' # Earlier /\ Intact(object')
  BY <1>2, ObjectMoves DEF Intact
<1> QED
  BY <1>1, <1>3 DEF StoredAs, Intact

(* Each step is one of WholePut, or none.                                  *)
LEMMA StepPuts ==
  ASSUME TypeOK, PartsInv, ObjectInv, object # Earlier, [Next]_vars
  PROVE  [Whole!Next]_(Whole!putVars)
<1>1. ASSUME NEW r \in Runner, Run(r) \/ Step(r) \/ Cancel(r) \/ Crash(r)
      PROVE  [Whole!Next]_(Whole!putVars)
  <2>1. CallOf' = [CallOf EXCEPT ![r] = CallOf'[r]]
    BY <1>1, OneCall
  <2>2. CallOf[r] = IF pc[r] \in Working THEN "running"
                    ELSE IF pc[r] = "done" THEN "done" ELSE "stopped"
    BY DEF CallOf
  <2>3. CallOf'[r] = IF pc'[r] \in Working THEN "running"
                     ELSE IF pc'[r] = "done" THEN "done" ELSE "stopped"
    BY DEF CallOf
  <2>4. CASE /\ pc[r] \in {"idle", "failed", "canceled"} /\ pc'[r] \in Working
             /\ object' = object
    <3>1. CallOf[r] = "stopped" /\ CallOf'[r] = "running"
      BY <2>2, <2>3, <2>4 DEF Working
    <3>2. Whole!Call(r)
      BY <2>1, <2>4, <3>1, StoredMoves DEF Whole!Call
    <3> QED
      BY <3>2 DEF Whole!Next
  <2>5. CASE pc[r] \in Working /\ pc'[r] \in Working \cup {"idle", "failed", "canceled"}
    <3>1. CallOf[r] = "running" /\ CallOf'[r] \in {"running", "stopped"}
      BY <2>2, <2>3, <2>5 DEF Working
    <3>2. CallOf'[r] = "running" => CallOf' = CallOf
      <4>1. CallOf = [s \in Runner |-> CallOf[s]]
        BY DEF CallOf
      <4> HIDE DEF CallOf
      <4> QED
        BY <2>1, <3>1, <4>1
    <3>3. CASE object' # object
      <4>1. Whole!Put(r)
        BY <2>1, <3>1, <3>2, <3>3, StoredMoves DEF Whole!Put
      <4> QED
        BY <4>1 DEF Whole!Next
    <3>4. CASE object' = object /\ CallOf'[r] = "stopped"
      <4>1. Whole!GiveUp(r)
        BY <2>1, <3>1, <3>4, StoredMoves DEF Whole!GiveUp
      <4> QED
        BY <4>1 DEF Whole!Next
    <3>5. CASE object' = object /\ CallOf'[r] = "running"
      BY <3>2, <3>5, StoredMoves DEF Whole!putVars
    <3> QED
      BY <3>1, <3>3, <3>4, <3>5
  <2>6. CASE pc[r] \in {"adopt", "clear"} /\ pc'[r] = "done" /\ object' = object
    <3>1. CallOf[r] = "running" /\ CallOf'[r] = "done"
      BY <2>2, <2>3, <2>6 DEF Working
    <3>2. StoredAs = "source"
      BY <2>6 DEF ObjectInv, StoredAs
    <3>3. Whole!Return(r)
      BY <2>1, <2>6, <3>1, <3>2, StoredMoves DEF Whole!Return
    <3> QED
      BY <3>3 DEF Whole!Next
  <2> QED
    BY <1>1, <2>4, <2>5, <2>6, CallMoves
<1>2. ASSUME NEW u \in UploadId, Expire(u)
      PROVE  UNCHANGED Whole!putVars
  <2>1. pc' = pc /\ object' = object
    BY <1>2 DEF Expire
  <2>2. CallOf' = CallOf
    BY <2>1 DEF CallOf
  <2> QED
    BY <2>1, <2>2, StoredMoves DEF Whole!putVars
<1>3. CASE UNCHANGED vars
  <2>1. pc' = pc /\ object' = object
    BY <1>3 DEF vars, s3Vars
  <2>2. CallOf' = CallOf
    BY <2>1 DEF CallOf
  <2> QED
    BY <2>1, <2>2, StoredMoves DEF Whole!putVars
<1> QED
  BY <1>1, <1>2, <1>3 DEF Next

(* If no older object is under the key, upload() is one put of the whole   *)
(* object, for any number of processes that run it, crash, retry, and      *)
(* complete, abort and adopt each other's uploads                          *)
(* (resumableUploader.ts:136-301).                                         *)
THEOREM UploadPutsWhole == object # Earlier /\ Spec => ImplementsPut
<1>1. Init => Whole!Init
  <2> SUFFICES ASSUME Init PROVE Whole!Init
    OBVIOUS
  <2>1. StoredAs \in {"absent", "other"}
    BY DEF Init, StoredAs
  <2>2. CallOf = [r \in Runner |-> "stopped"]
    BY DEF Init, CallOf, Working
  <2> QED
    BY <2>1, <2>2 DEF Whole!Init
<1>2. IInv /\ object # Earlier /\ [Next]_vars => [Whole!Next]_(Whole!putVars)
  BY StepPuts DEF IInv
<1> QED
  BY <1>1, <1>2, Invariance, NotOlder, PTL DEF Spec, ImplementsPut, Whole!Spec

=============================================================================
