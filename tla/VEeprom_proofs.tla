---------------------------- MODULE VEeprom_proofs ----------------------------
(***************************************************************************)
(* Proofs about VEeprom, for every set of keys and values, every number of *)
(* slots and every table of variables: types, Usable under every cut, and  *)
(* where the cuts are survived KnownGood, ReadBack and SettingsStore.      *)
(***************************************************************************)
EXTENDS VEepromInvariant, SequenceTheorems, TLAPS

-----------------------------------------------------------------------------
(***************************************************************************)
(* Reading a page.                                                         *)
(***************************************************************************)
LEMMA HalfType == ASSUME NEW v \in Value PROVE Half(v) \in Slot
  BY DEF Half, Slot

\* A blank page holds nothing.
LEMMA LastOfBlank == ASSUME NEW k PROVE Last(<<>>, k) = NoValue
<1>1. DOMAIN <<>> = {}
  OBVIOUS
<1>2. LastHit(<<>>, k) = {}
  BY <1>1 DEF LastHit
<1> QED
  BY <1>2 DEF Last

\* What is read is a value, or there is none.
LEMMA LastType ==
  ASSUME NEW s \in Seq(Slot), NEW k
  PROVE  Last(s, k) \in Value \cup {NoValue}
<1>1. CASE LastHit(s, k) = {}
  BY <1>1 DEF Last
<1>2. CASE LastHit(s, k) # {}
  <2> DEFINE i == CHOOSE x \in LastHit(s, k) : TRUE
  <2>1. i \in LastHit(s, k)
    BY <1>2
  <2>2. i \in DOMAIN s
    BY <2>1 DEF LastHit
  <2>3. s[i] \in Slot
    BY <2>2
  <2>4. Last(s, k) = s[i].value
    BY <1>2 DEF Last
  <2> QED
    BY <2>3, <2>4 DEF Slot
<1> QED
  BY <1>1, <1>2

\* A slot without a key is not seen.
LEMMA LastHalf ==
  ASSUME NEW s \in Seq(Slot), NEW v \in Value, NEW k \in Key
  PROVE  Last(Append(s, Half(v)), k) = Last(s, k)
<1> DEFINE t == Append(s, Half(v))
<1>1. /\ DOMAIN t = 1..Len(s) + 1 /\ DOMAIN s = 1..Len(s) /\ Len(s) \in Nat
      /\ \A i \in DOMAIN s : t[i] = s[i]
      /\ t[Len(s) + 1] = Half(v)
  BY HalfType
<1>2. Half(v).key # k
  BY VEepromAssumption DEF Half
<1>3. \A i \in DOMAIN t : t[i].key = k <=> i \in DOMAIN s /\ s[i].key = k
  BY <1>1, <1>2
<1>4. LastHit(t, k) = LastHit(s, k)
  <2>1. DOMAIN s \subseteq DOMAIN t
    BY <1>1
  <2> HIDE DEF t
  <2> QED
    BY <1>3, <2>1 DEF LastHit
<1>5. CASE LastHit(s, k) = {}
  BY <1>4, <1>5 DEF Last
<1>6. CASE LastHit(s, k) # {}
  <2> DEFINE i == CHOOSE x \in LastHit(s, k) : TRUE
  <2>1. i \in DOMAIN s
    BY <1>6 DEF LastHit
  <2>2. t[i] = s[i]
    BY <2>1, <1>1
  <2>3. Last(s, k) = s[i].value
    BY <1>6 DEF Last
  <2>4. Last(t, k) = t[i].value
    BY <1>6, <1>4 DEF Last
  <2> QED
    BY <2>2, <2>3, <2>4
<1> QED
  BY <1>5, <1>6

\* Giving the last slot its key.
LEMMA KeyedType ==
  ASSUME NEW s \in Seq(Slot), s # <<>>, NEW k \in Key
  PROVE  /\ Keyed(s, k) \in Seq(Slot)
         /\ Len(Keyed(s, k)) = Len(s)
         /\ Keyed(s, k) # <<>>
         /\ Keyed(s, k)[Len(s)] = [key |-> k, value |-> s[Len(s)].value]
         /\ \A i \in 1..Len(s) - 1 : Keyed(s, k)[i] = s[i]
<1>1. Len(s) \in Nat /\ Len(s) >= 1 /\ DOMAIN s = 1..Len(s)
  BY EmptySeq
<1>2. s[Len(s)] \in Slot
  BY <1>1
<1> DEFINE e == [key |-> k, value |-> s[Len(s)].value]
<1>3. e \in Slot
  BY <1>2 DEF Slot
<1>4. Keyed(s, k) = [s EXCEPT ![Len(s)] = e]
  BY <1>1 DEF Keyed
<1> HIDE DEF e
<1>5. Len(s) \in 1..Len(s)
  BY <1>1
<1>6. /\ [s EXCEPT ![Len(s)] = e] \in Seq(Slot)
      /\ Len([s EXCEPT ![Len(s)] = e]) = Len(s)
      /\ \A j \in 1..Len(s) :
           [s EXCEPT ![Len(s)] = e][j] = IF j = Len(s) THEN e ELSE s[j]
  BY <1>3, <1>5, ExceptSeq
<1>7. /\ Keyed(s, k) \in Seq(Slot)
      /\ Len(Keyed(s, k)) = Len(s)
      /\ Keyed(s, k)[Len(s)] = e
      /\ \A i \in 1..Len(s) - 1 : Keyed(s, k)[i] = s[i]
  <2> DEFINE t == [s EXCEPT ![Len(s)] = e]
  <2>1. /\ t \in Seq(Slot) /\ Len(t) = Len(s)
        /\ \A j \in 1..Len(s) : t[j] = IF j = Len(s) THEN e ELSE s[j]
    BY <1>6
  <2>2. t = Keyed(s, k)
    BY <1>4
  <2> HIDE DEF t
  <2>3. t[Len(s)] = e
    BY <1>5, <2>1
  <2>4. ASSUME NEW i \in 1..Len(s) - 1 PROVE t[i] = s[i]
    <3>1. i \in 1..Len(s) /\ i # Len(s)
      <4>1. Len(s) \in Nat
        BY <1>1
      <4>2. i \in Nat /\ i <= Len(s) - 1 /\ 1 <= i
        BY <4>1
      <4> QED
        BY <4>1, <4>2
    <3> QED
      BY <2>1, <3>1
  <2> QED
    BY <2>1, <2>2, <2>3, <2>4
<1>8. Keyed(s, k) # <<>>
  BY <1>1, <1>7, EmptySeq
<1> QED
  BY <1>7, <1>8 DEF e

LEMMA KeyedLast ==
  ASSUME NEW s \in Seq(Slot), s # <<>>, NEW k \in Key
  PROVE  /\ Keyed(s, k)[Len(s)].key = k
         /\ Keyed(s, k)[Len(s)].value = s[Len(s)].value
<1>1. Keyed(s, k)[Len(s)] = [key |-> k, value |-> s[Len(s)].value]
  BY KeyedType
<1> QED
  BY <1>1

\* The key that is programmed commits the value: this key is read anew, the
\* others as before.
LEMMA LastKeyed ==
  ASSUME NEW s \in Seq(Slot), s # <<>>, s[Len(s)].key = NoKey,
         NEW k \in Key, NEW j \in Key
  PROVE  Last(Keyed(s, k), j) = IF j = k THEN s[Len(s)].value ELSE Last(s, j)
<1> DEFINE t == Keyed(s, k)
<1>1. Len(s) \in Nat /\ Len(s) >= 1 /\ DOMAIN s = 1..Len(s)
  BY EmptySeq
<1>2. /\ DOMAIN t = 1..Len(s)
      /\ t[Len(s)].key = k /\ t[Len(s)].value = s[Len(s)].value
      /\ \A i \in 1..Len(s) - 1 : t[i] = s[i]
  <2>1. /\ t \in Seq(Slot) /\ Len(t) = Len(s)
        /\ t[Len(s)] = [key |-> k, value |-> s[Len(s)].value]
        /\ \A i \in 1..Len(s) - 1 : t[i] = s[i]
    BY KeyedType
  <2> HIDE DEF t
  <2> QED
    BY <2>1
<1> HIDE DEF t
<1>3. CASE j = k
  <2>1. LastHit(t, j) = {Len(s)}
    BY <1>1, <1>2, <1>3 DEF LastHit
  <2>2. Last(t, j) = t[Len(s)].value
    BY <2>1 DEF Last
  <2> QED
    BY <2>2, <1>2, <1>3 DEF t
<1>4. CASE j # k
  <2>1. j # NoKey
    BY VEepromAssumption
  <2>2. \A i \in 1..Len(s) : t[i].key = j <=> s[i].key = j
    BY <1>1, <1>2, <1>4, <2>1
  <2>3. LastHit(t, j) = LastHit(s, j)
    BY <2>2, <1>1, <1>2 DEF LastHit
  <2>4. CASE LastHit(s, j) = {}
    BY <2>3, <2>4, <1>4 DEF Last, t
  <2>5. CASE LastHit(s, j) # {}
    <3> DEFINE i == CHOOSE x \in LastHit(s, j) : TRUE
    <3>1. i \in 1..Len(s) /\ s[i].key = j
      BY <2>5, <1>1 DEF LastHit
    <3>2. i # Len(s)
      BY <3>1, <2>1
    <3>3. t[i] = s[i]
      BY <3>1, <3>2, <1>1, <1>2
    <3>4. Last(t, j) = t[i].value /\ Last(s, j) = s[i].value
      BY <2>3, <2>5 DEF Last
    <3> QED
      BY <3>3, <3>4, <1>4 DEF t
  <2> QED
    BY <2>4, <2>5
<1> QED
  BY <1>3, <1>4

-----------------------------------------------------------------------------
(***************************************************************************)
(* Type correctness.                                                       *)
(***************************************************************************)
SlotsOK ==
    /\ slots \in [Page -> Seq(Slot)]
    /\ \A p \in Page : Len(slots[p]) <= Slots

\* What TypeOK needs to be inductive: where the driver programs a key there is
\* a page with a slot that waits for it.
TypeInv ==
    /\ TypeOK
    /\ pc \in {"key", "first", "firstKey"} => Asked
    /\ pc \in {"key", "first", "firstKey", "copy", "copyKey"} => WritePage \in Page
    /\ pc \in {"key", "firstKey", "copyKey"} => slots[WritePage] # <<>>
    /\ pc = "copyKey" => n <= Len(Table)

LEMMA OtherPage ==
  /\ 0 \in Page /\ 1 \in Page /\ Other(0) = 1 /\ Other(1) = 0
  /\ \A p \in Page : Other(p) \in Page /\ Other(p) # p /\ Other(Other(p)) = p
  BY DEF Page, Other

LEMMA TableType ==
  /\ Len(Table) \in Nat
  /\ \A i \in 1..Len(Table) : Table[i] \in Key
  BY VEepromAssumption

LEMMA NoRequestType == NoRequest \in Slot
  BY VEepromAssumption DEF NoRequest, Slot

LEMMA ReadType ==
  ASSUME SlotsOK, NEW k
  PROVE  Read(k) \in Value \cup {NoValue}
<1>1. ReadPage \in Page \cup {NoPage}
  BY OtherPage DEF ReadPage
<1>2. CASE ReadPage = NoPage
  BY <1>2 DEF Read
<1>3. CASE ReadPage \in Page
  BY <1>3, LastType, VEepromAssumption DEF Read, SlotsOK
<1> QED
  BY <1>1, <1>2, <1>3

LEMMA EraseKeepsType ==
  ASSUME SlotsOK, header \in [Page -> Status], NEW p \in Page, Erase(p)
  PROVE  SlotsOK' /\ header' \in [Page -> Status]
<1>1. <<>> \in Seq(Slot) /\ Len(<<>>) = 0 /\ 0 <= Slots
  BY EmptySeq, VEepromAssumption
<1>2. slots' = [slots EXCEPT ![p] = <<>>]
  BY DEF Erase
<1>3. slots' \in [Page -> Seq(Slot)]
  BY <1>1, <1>2 DEF SlotsOK
<1>4. \A q \in Page : slots'[q] = IF q = p THEN <<>> ELSE slots[q]
  BY <1>2 DEF SlotsOK
<1>5. \A q \in Page : Len(slots'[q]) <= Slots
  BY <1>1, <1>4 DEF SlotsOK
<1>6. header' \in [Page -> Status]
  BY DEF Erase, Status
<1> QED
  BY <1>3, <1>5, <1>6 DEF SlotsOK

LEMMA MarkKeepsType ==
  ASSUME SlotsOK, header \in [Page -> Status], NEW p \in Page, NEW s \in Status,
         MarkPage(p, s)
  PROVE  SlotsOK' /\ header' \in [Page -> Status]
  BY DEF MarkPage, SlotsOK

\* What programming a value does to the pages.
LEMMA ProgrammedValue ==
  ASSUME SlotsOK, NEW p \in Page, NEW v \in Value, ~Full(p), ProgramValue(p, v)
  PROVE  /\ SlotsOK'
         /\ slots'[p] = Append(slots[p], Half(v))
         /\ slots'[p] # <<>>
         /\ Len(slots'[p]) = Len(slots[p]) + 1
         /\ slots'[p][Len(slots'[p])] = Half(v)
         /\ \A q \in Page : q # p => slots'[q] = slots[q]
<1>1. slots[p] \in Seq(Slot) /\ Len(slots[p]) \in Nat /\ Len(slots[p]) <= Slots
  BY DEF SlotsOK
<1>2. Half(v) \in Slot
  BY HalfType
<1> DEFINE t == Append(slots[p], Half(v))
<1>3. /\ t \in Seq(Slot) /\ Len(t) = Len(slots[p]) + 1
      /\ t # <<>> /\ t[Len(slots[p]) + 1] = Half(v)
  BY <1>1, <1>2, AppendProperties
<1>4. Len(t) <= Slots
  BY <1>1, <1>3, VEepromAssumption DEF Full
<1>5. slots' = [slots EXCEPT ![p] = t]
  BY DEF ProgramValue
<1> HIDE DEF t
<1>6. /\ slots'[p] = t
      /\ \A q \in Page : q # p => slots'[q] = slots[q]
      /\ slots' \in [Page -> Seq(Slot)]
  BY <1>3, <1>5 DEF SlotsOK
<1>7. \A q \in Page : Len(slots'[q]) <= Slots
  <2> SUFFICES ASSUME NEW q \in Page PROVE Len(slots'[q]) <= Slots
    OBVIOUS
  <2>1. CASE q = p
    BY <2>1, <1>4, <1>6
  <2>2. CASE q # p
    BY <2>2, <1>6 DEF SlotsOK
  <2> QED
    BY <2>1, <2>2
<1>8. slots'[p] = Append(slots[p], Half(v))
  BY <1>6 DEF t
<1> QED
  BY <1>3, <1>6, <1>7, <1>8 DEF SlotsOK

\* What programming a key does to the pages.
LEMMA ProgrammedKey ==
  ASSUME SlotsOK, NEW p \in Page, NEW k \in Key, slots[p] # <<>>, ProgramKey(p, k)
  PROVE  /\ SlotsOK'
         /\ slots'[p] = Keyed(slots[p], k)
         /\ slots'[p] # <<>>
         /\ Len(slots'[p]) = Len(slots[p])
         /\ \A q \in Page : q # p => slots'[q] = slots[q]
<1>1. slots[p] \in Seq(Slot) /\ Len(slots[p]) <= Slots
  BY DEF SlotsOK
<1> DEFINE t == Keyed(slots[p], k)
<1>2. t \in Seq(Slot) /\ Len(t) = Len(slots[p]) /\ t # <<>>
  BY <1>1, KeyedType
<1>3. slots' = [slots EXCEPT ![p] = t]
  BY DEF ProgramKey
<1>4. slots'[p] = t
  BY <1>3 DEF SlotsOK
<1> HIDE DEF t
<1>5. /\ \A q \in Page : q # p => slots'[q] = slots[q]
      /\ slots' \in [Page -> Seq(Slot)]
  BY <1>2, <1>3 DEF SlotsOK
<1>6. \A q \in Page : Len(slots'[q]) <= Slots
  <2> SUFFICES ASSUME NEW q \in Page PROVE Len(slots'[q]) <= Slots
    OBVIOUS
  <2>1. CASE q = p
    BY <2>1, <1>1, <1>2, <1>4
  <2>2. CASE q # p
    BY <2>2, <1>5 DEF SlotsOK
  <2> QED
    BY <2>1, <2>2
<1>7. slots'[p] = Keyed(slots[p], k)
  BY <1>4 DEF t
<1> QED
  BY <1>2, <1>4, <1>5, <1>6, <1>7 DEF SlotsOK

LEMMA ReturnKeepsType ==
  ASSUME SlotsOK', header' \in [Page -> Status], Return
  PROVE  TypeInv'
<1>1. /\ pc' \in Point /\ booting' \in BOOLEAN /\ to' \in Page
      /\ n' \in 1..Len(Table) + 1 /\ cuts' \in 0..MaxCuts
  BY TableType, OtherPage, VEepromAssumption DEF Return, Point
<1>2. request' \in Slot
  BY NoRequestType DEF Return
<1> QED
  BY <1>1, <1>2 DEF TypeInv, TypeOK, SlotsOK, Return

LEMMA TypeInit == Init => TypeInv
<1> SUFFICES ASSUME Init PROVE TypeInv
  OBVIOUS
<1>1. \A p \in Page : slots[p] = <<>> /\ Len(slots[p]) <= Slots
  BY EmptySeq, VEepromAssumption DEF Init
<1>2. slots \in [Page -> Seq(Slot)]
  BY EmptySeq DEF Init
<1>3. header \in [Page -> Status]
  BY DEF Init, Status
<1>4. request \in Slot
  BY NoRequestType DEF Init
<1>5. /\ pc \in Point /\ booting \in BOOLEAN /\ to \in Page
      /\ n \in 1..Len(Table) + 1 /\ cuts \in 0..MaxCuts
  BY TableType, OtherPage, VEepromAssumption DEF Init, Point
<1> QED
  BY <1>1, <1>2, <1>3, <1>4, <1>5 DEF TypeInv, TypeOK, Init

\* Steps that go on with the same request, and leave a page to write to.
LEMMA TypeStep == TypeInv /\ [Next]_vars => TypeInv'
<1> SUFFICES ASSUME TypeInv, [Next]_vars PROVE TypeInv'
  OBVIOUS
<1>0. SlotsOK /\ header \in [Page -> Status] /\ to \in Page /\ cuts \in 0..MaxCuts
  BY DEF TypeInv, TypeOK, SlotsOK
<1> USE DEF ram, flash
<1>1. CASE UNCHANGED vars
  BY <1>1 DEF vars, TypeInv, TypeOK, Asked, WritePage
<1>2. CASE Boot
  <2>1. /\ SlotsOK' /\ header' = header /\ request' = request /\ n' = n
        /\ booting' = booting /\ cuts' = cuts
    BY <1>0, <1>2 DEF Boot, SlotsOK
  <2>2. /\ to' \in Page
        /\ \/ pc' \in {"clean", "format"}
           \/ pc' = "copy" /\ header[to'] = "receive" /\ header[Other(to')] = "valid"
    BY <1>2, OtherPage DEF Boot
  <2>3. pc' = "copy" => WritePage' \in Page
    BY <2>1, <2>2, OtherPage DEF WritePage, Page
  <2> QED
    BY <2>1, <2>2, <2>3 DEF TypeInv, TypeOK, SlotsOK, Point
<1>3. CASE Clean
  <2>1. SlotsOK' /\ header' \in [Page -> Status]
    BY <1>0, <1>3, EraseKeepsType, OtherPage DEF Clean, SlotsOK
  <2>2. CASE pc' = "mark" /\ UNCHANGED <<ram, cuts>>
    BY <2>1, <2>2 DEF TypeInv, TypeOK, SlotsOK, Point
  <2>3. CASE Return
    BY <2>1, <2>3, ReturnKeepsType
  <2> QED
    BY <1>3, <2>2, <2>3 DEF Clean
<1>4. CASE Format
  <2>1. SlotsOK' /\ header' \in [Page -> Status]
    BY <1>0, <1>4, EraseKeepsType, OtherPage DEF Format, SlotsOK
  <2> QED
    BY <1>4, <2>1 DEF Format, TypeInv, TypeOK, SlotsOK, Point
<1>5. CASE FormatMark
  <2>1. SlotsOK' /\ header' \in [Page -> Status]
    BY <1>0, <1>5, MarkKeepsType, OtherPage DEF FormatMark, Status
  <2> QED
    BY <1>5, <2>1 DEF FormatMark, TypeInv, TypeOK, SlotsOK, Point
<1>6. CASE FormatClean
  <2>1. SlotsOK' /\ header' \in [Page -> Status]
    BY <1>0, <1>6, EraseKeepsType, OtherPage DEF FormatClean, SlotsOK
  <2> QED
    BY <1>6, <2>1, ReturnKeepsType DEF FormatClean
<1>7. CASE Write
  <2>1. PICK k \in Key, v \in Value :
          /\ request' = [key |-> k, value |-> v]
          /\ ProgramValue(WritePage, v)
    BY <1>7 DEF Write
  <2>2. WritePage \in Page /\ ~Full(WritePage)
    BY <1>7, OtherPage DEF Write, WritePage
  <2>3. SlotsOK' /\ slots'[WritePage] # <<>>
    BY <1>0, <2>1, <2>2, ProgrammedValue
  <2>4. header' = header /\ WritePage' = WritePage
    BY <2>1 DEF ProgramValue, WritePage
  <2>5. Asked' /\ request' \in Slot
    BY <2>1 DEF Asked, Slot
  <2>6. pc' = "key" /\ UNCHANGED <<booting, to, n, cuts>>
    BY <1>7 DEF Write
  <2> QED
    BY <1>0, <2>2, <2>3, <2>4, <2>5, <2>6 DEF TypeInv, TypeOK, SlotsOK, Point
<1>8. CASE WriteKey
  <2>1. pc = "key" /\ ProgramKey(WritePage, request.key) /\ Return
    BY <1>8 DEF WriteKey
  <2>2. WritePage \in Page /\ slots[WritePage] # <<>> /\ request.key \in Key
    BY <2>1 DEF TypeInv, Asked
  <2>3. SlotsOK' /\ header' = header
    BY <1>0, <2>1, <2>2, ProgrammedKey DEF ProgramKey
  <2> QED
    BY <1>0, <2>1, <2>3, ReturnKeepsType
<1>9. CASE Transfer
  <2>1. PICK k \in Key, v \in Value : request' = [key |-> k, value |-> v]
    BY <1>9 DEF Transfer
  <2>2. Asked' /\ request' \in Slot
    BY <2>1 DEF Asked, Slot
  <2>3. ReadPage \in Page /\ header[ReadPage] = "valid"
    BY <1>9, OtherPage DEF Transfer, WritePage, ReadPage
  <2>4. to' = Other(ReadPage) /\ to' \in Page
    BY <1>9, <2>3, OtherPage DEF Transfer
  <2>5. SlotsOK' /\ header' \in [Page -> Status]
    BY <1>0, <1>9, <2>4, MarkKeepsType DEF Transfer, Status
  <2>6. header' = [header EXCEPT ![Other(ReadPage)] = "receive"]
    BY <1>9, <2>4 DEF Transfer, MarkPage
  <2>7. header'[Other(ReadPage)] = "receive" /\ header'[ReadPage] = "valid"
    BY <1>0, <2>3, <2>6, OtherPage
  <2>8. WritePage' \in Page
    BY <2>3, <2>7, OtherPage DEF WritePage, Page
  <2>9. pc' = "first" /\ UNCHANGED <<booting, n, cuts>>
    BY <1>9 DEF Transfer
  <2> QED
    BY <2>2, <2>4, <2>5, <2>8, <2>9 DEF TypeInv, TypeOK, SlotsOK, Point
<1>10. CASE First
  <2>1. pc = "first" /\ WritePage \in Page /\ Asked
    BY <1>10 DEF First, TypeInv
  <2>2. CASE Full(WritePage)
    BY <1>0, <1>10, <2>2, ReturnKeepsType DEF First, SlotsOK
  <2>3. CASE ~Full(WritePage)
    <3>1. /\ ProgramValue(WritePage, request.value) /\ request.value \in Value
          /\ pc' = "firstKey" /\ UNCHANGED <<ram, cuts>>
      BY <1>10, <2>1, <2>3 DEF First, Asked
    <3>2. SlotsOK' /\ slots'[WritePage] # <<>>
      BY <1>0, <2>1, <2>3, <3>1, ProgrammedValue
    <3>3. header' = header /\ WritePage' = WritePage /\ Asked'
      BY <2>1, <3>1 DEF ProgramValue, WritePage, Asked
    <3> QED
      BY <2>1, <3>1, <3>2, <3>3 DEF TypeInv, TypeOK, SlotsOK, Point
  <2> QED
    BY <2>2, <2>3
<1>11. CASE FirstKey
  <2>1. /\ WritePage \in Page /\ Asked /\ slots[WritePage] # <<>>
        /\ ProgramKey(WritePage, request.key)
        /\ pc' = "copy" /\ UNCHANGED <<ram, cuts>>
    BY <1>11 DEF FirstKey, TypeInv
  <2>2. SlotsOK' /\ header' = header /\ WritePage' = WritePage
    BY <1>0, <2>1, ProgrammedKey DEF ProgramKey, WritePage, Asked
  <2> QED
    BY <2>1, <2>2 DEF TypeInv, TypeOK, SlotsOK, Point
<1>12. CASE CopyNothing
  <2>1. /\ n <= Len(Table) /\ n' = n + 1 /\ pc = "copy"
        /\ UNCHANGED <<flash, pc, booting, to, request, cuts>>
    BY <1>12 DEF CopyNothing
  <2>2. n' \in 1..Len(Table) + 1
    BY <2>1, TableType DEF TypeInv, TypeOK
  <2> QED
    BY <2>1, <2>2 DEF TypeInv, TypeOK, WritePage
<1>13. CASE Copy
  <2>1. pc = "copy" /\ WritePage \in Page /\ n <= Len(Table)
    BY <1>13 DEF Copy, TypeInv
  <2>2. CASE Full(WritePage)
    BY <1>0, <1>13, <2>2, ReturnKeepsType DEF Copy, SlotsOK
  <2>3. CASE ~Full(WritePage)
    <3>1. /\ ProgramValue(WritePage, Read(Table[n])) /\ Read(Table[n]) # NoValue
          /\ pc' = "copyKey" /\ UNCHANGED <<ram, cuts>>
      BY <1>13, <2>3 DEF Copy
    <3>2. Read(Table[n]) \in Value
      BY <1>0, <3>1, ReadType
    <3>3. SlotsOK' /\ slots'[WritePage] # <<>>
      BY <1>0, <2>1, <2>3, <3>1, <3>2, ProgrammedValue
    <3>4. header' = header /\ WritePage' = WritePage
      BY <3>1 DEF ProgramValue, WritePage
    <3> QED
      BY <2>1, <3>1, <3>3, <3>4 DEF TypeInv, TypeOK, SlotsOK, Point
  <2> QED
    BY <2>2, <2>3
<1>14. CASE CopyKey
  <2>1. /\ WritePage \in Page /\ slots[WritePage] # <<>> /\ n <= Len(Table)
        /\ ProgramKey(WritePage, Table[n]) /\ n' = n + 1
        /\ pc' = "copy" /\ UNCHANGED <<booting, to, request, cuts>>
    BY <1>14 DEF CopyKey, TypeInv
  <2>2. n' \in 1..Len(Table) + 1 /\ Table[n] \in Key
    BY <2>1, TableType DEF TypeInv, TypeOK
  <2>3. SlotsOK' /\ header' = header /\ WritePage' = WritePage
    BY <1>0, <2>1, <2>2, ProgrammedKey DEF ProgramKey, WritePage
  <2> QED
    BY <2>1, <2>2, <2>3 DEF TypeInv, TypeOK, SlotsOK, Point
<1>15. CASE Copied
  BY <1>15 DEF Copied, TypeInv, TypeOK, Point
<1>16. CASE EraseOld
  <2>1. SlotsOK' /\ header' \in [Page -> Status]
    BY <1>0, <1>16, EraseKeepsType, OtherPage DEF EraseOld
  <2> QED
    BY <1>16, <2>1 DEF EraseOld, TypeInv, TypeOK, SlotsOK, Point
<1>17. CASE Mark
  <2>1. SlotsOK' /\ header' \in [Page -> Status]
    BY <1>0, <1>17, MarkKeepsType DEF Mark, Status
  <2>2. CASE pc' = "clean" /\ UNCHANGED <<ram, cuts>>
    BY <2>1, <2>2 DEF TypeInv, TypeOK, SlotsOK, Point
  <2>3. CASE Return
    BY <2>1, <2>3, ReturnKeepsType
  <2> QED
    BY <1>17, <2>2, <2>3 DEF Mark
<1>18. CASE PowerCut
  <2>1. SlotsOK' /\ header' \in [Page -> Status]
    BY <1>0, <1>18, OtherPage DEF PowerCut, Torn, SlotsOK, Status
  <2>2. /\ pc' \in Point /\ pc' = "off" /\ booting' \in BOOLEAN /\ to' \in Page
        /\ n' \in 1..Len(Table) + 1
    BY <1>18, TableType, OtherPage DEF PowerCut, Point
  <2>3. cuts' \in 0..MaxCuts
    BY <1>0, <1>18, VEepromAssumption DEF PowerCut
  <2>4. request' \in Slot
    BY <1>18, NoRequestType DEF PowerCut
  <2> QED
    BY <2>1, <2>2, <2>3, <2>4 DEF TypeInv, TypeOK, SlotsOK
<1> QED
  BY <1>1, <1>2, <1>3, <1>4, <1>5, <1>6, <1>7, <1>8, <1>9, <1>10, <1>11,
     <1>12, <1>13, <1>14, <1>15, <1>16, <1>17, <1>18 DEF Next, Driver

LEMMA TypeInvariance == Spec => []TypeInv
<1>1. Init => TypeInv
  BY TypeInit
<1>2. TypeInv /\ [Next]_vars => TypeInv'
  BY TypeStep
<1> QED
  BY <1>1, <1>2, PTL DEF Spec

\* Every variable keeps its type, and no page holds more than its slots,
\* whatever is cut and however few slots a page has.
THEOREM EepromTypeCorrect == Spec => []TypeOK
<1>1. TypeInv => TypeOK
  BY DEF TypeInv
<1> QED
  BY <1>1, TypeInvariance, PTL

\* Wherever a restart or a caller may look next a page is valid, or is about
\* to be kept: the erase of the other page may be under way, never that of both.
HasPage ==
    /\ pc \in {"ready", "key", "first", "firstKey"} => \E p \in Page : header[p] = "valid"
    /\ pc \in {"copy", "copyKey"} => \E p \in Page : header[p] = "valid"
    /\ pc = "clean" => header[to] # "erased"
    /\ pc = "formatClean" => header[0] = "valid"

LEMMA FoundValid ==
  ASSUME \E p \in Page : header[p] = "valid"
  PROVE  ReadPage # NoPage /\ WritePage # NoPage
  BY VEepromAssumption, OtherPage DEF ReadPage, WritePage, Page

LEMMA HasPageStep == TypeInv /\ HasPage /\ [Next]_vars => HasPage'
<1> SUFFICES ASSUME TypeInv, HasPage, [Next]_vars PROVE HasPage'
  OBVIOUS
<1>0. /\ header \in [Page -> Status] /\ to \in Page /\ Other(to) \in Page /\ Other(to) # to
      /\ pc \in Point
  BY OtherPage DEF TypeInv, TypeOK
<1>1. CASE UNCHANGED vars
  BY <1>1 DEF HasPage, vars
<1>2. CASE Boot
  BY <1>0, <1>2, OtherPage DEF Boot, HasPage, flash
<1>3. CASE Clean
  <2>1. header'[to] = header[to] /\ header[to] \in {"receive", "valid"}
    BY <1>0, <1>3 DEF Clean, HasPage, flash, Erase, Status
  <2>2. CASE header[to] = "receive"
    BY <1>3, <2>2 DEF Clean, HasPage
  <2>3. CASE header[to] = "valid"
    BY <1>0, <1>3, <2>1, <2>3 DEF Clean, HasPage, Return
  <2> QED
    BY <2>1, <2>2, <2>3
<1>4. CASE Format
  BY <1>4 DEF Format, HasPage
<1>5. CASE FormatMark
  BY <1>0, <1>5, OtherPage DEF FormatMark, HasPage, MarkPage
<1>6. CASE FormatClean
  <2>1. header'[0] = "valid"
    BY <1>0, <1>6, OtherPage DEF FormatClean, HasPage, flash, Erase
  <2> QED
    BY <1>6, <2>1, OtherPage DEF FormatClean, HasPage, Return
<1>7. CASE Write
  BY <1>7 DEF Write, HasPage, ProgramValue
<1>8. CASE WriteKey
  BY <1>8 DEF WriteKey, HasPage, ProgramKey, Return
<1>9. CASE Transfer
  <2>1. PICK p \in Page : header[p] = "valid" /\ ReadPage = p
    BY <1>0, <1>9, OtherPage DEF Transfer, HasPage, ReadPage, Page
  <2>2. header'[p] = "valid" /\ pc' = "first"
    BY <1>0, <1>9, <2>1, OtherPage DEF Transfer, MarkPage
  <2> QED
    BY <2>2 DEF HasPage
<1>10. CASE First
  BY <1>10 DEF First, HasPage, flash, ProgramValue, Return
<1>11. CASE FirstKey
  BY <1>11 DEF FirstKey, HasPage, ProgramKey
<1>12. CASE CopyNothing
  BY <1>12 DEF CopyNothing, HasPage, flash
<1>13. CASE Copy
  BY <1>13 DEF Copy, HasPage, flash, ProgramValue, Return
<1>14. CASE CopyKey
  BY <1>14 DEF CopyKey, HasPage, ProgramKey
<1>15. CASE Copied
  BY <1>15 DEF Copied, HasPage
<1>16. CASE EraseOld
  BY <1>16 DEF EraseOld, HasPage
<1>17. CASE Mark
  <2>1. header'[to] = "valid"
    BY <1>0, <1>17 DEF Mark, MarkPage
  <2>2. (pc' = "clean" /\ to' = to) \/ pc' = "ready"
    BY <1>17 DEF Mark, ram, Return
  <2> QED
    BY <1>0, <2>1, <2>2 DEF HasPage
<1>18. CASE PowerCut
  BY <1>18 DEF PowerCut, HasPage
<1> QED
  BY <1>1, <1>2, <1>3, <1>4, <1>5, <1>6, <1>7, <1>8, <1>9, <1>10, <1>11,
     <1>12, <1>13, <1>14, <1>15, <1>16, <1>17, <1>18 DEF Next, Driver

\* EE_Init always ends with a page to read from and one to write to, and no
\* later step takes it away: for any keys, table and page size, power cuts at
\* any step of the driver included, the two windows too.
THEOREM AlwaysUsable == Spec => []Usable
<1>1. Init => HasPage
  BY DEF Init, HasPage
<1>2. TypeInv /\ HasPage /\ [Next]_vars => HasPage'
  BY HasPageStep
<1>3. HasPage => Usable
  BY FoundValid DEF HasPage, Usable
<1> QED
  BY <1>1, <1>2, <1>3, TypeInvariance, PTL DEF Spec
-----------------------------------------------------------------------------
(***************************************************************************)
(* Proofs that VEeprom keeps what is stored, when the power is cut in      *)
(* neither of the two windows that the code does not survive.              *)
(***************************************************************************)

-----------------------------------------------------------------------------
(***************************************************************************)
(* The pages.                                                              *)
(***************************************************************************)
\* The pages that EE_FindValidPage finds.
LEMMA FindGood ==
  ASSUME NEW p \in Page, Good(p)
  PROVE  ReadPage = p /\ WritePage = p
  BY OtherPage DEF Good, Blank, ReadPage, WritePage, Page, Other

LEMMA FindReceiving ==
  ASSUME NEW p \in Page, Receiving(p)
  PROVE  ReadPage = Other(p) /\ WritePage = p
  BY OtherPage DEF Receiving, ReadPage, WritePage, Page, Other

\* A value without a key changes nothing of what the pages hold.
LEMMA MergedHalf ==
  ASSUME SlotsOK, NEW p \in Page, NEW v \in Value, ~Full(p), ProgramValue(p, v)
  PROVE  /\ \A q \in Page, k \in Key : Last(slots'[q], k) = Last(slots[q], k)
         /\ \A k \in Key : Merged(p, k)' = Merged(p, k)
<1>1. /\ slots'[p] = Append(slots[p], Half(v))
      /\ slots'[p] # <<>>
      /\ \A q \in Page : q # p => slots'[q] = slots[q]
  BY ProgrammedValue
<1>2. slots[p] \in Seq(Slot) /\ Half(v) \in Slot
  BY HalfType DEF SlotsOK
<1>3. ASSUME NEW q \in Page, NEW k \in Key
      PROVE  Last(slots'[q], k) = Last(slots[q], k)
  <2>1. CASE q = p
    BY <2>1, <1>1, <1>2, LastHalf
  <2>2. CASE q # p
    BY <2>2, <1>1
  <2> QED
    BY <2>1, <2>2
<1>4. ASSUME NEW k \in Key PROVE Merged(p, k)' = Merged(p, k)
  <2>1. CASE slots[p] = <<>>
    <3>1. slots'[p][1] = Half(v)
      BY <2>1, <1>1, <1>2
    <3>2. slots'[p][1].key # k
      BY <3>1, VEepromAssumption DEF Half
    <3> QED
      BY <2>1, <1>1, <3>2, OtherPage DEF Merged
  <2>2. CASE slots[p] # <<>>
    <3>1. Len(slots[p]) \in Nat /\ Len(slots[p]) >= 1
      BY <1>2, <2>2, EmptySeq
    <3>2. slots'[p][1] = slots[p][1]
      BY <3>1, <1>1, <1>2
    <3> QED
      BY <2>2, <1>1, <1>3, <3>2, OtherPage DEF Merged
  <2> QED
    BY <2>1, <2>2
<1> QED
  BY <1>3, <1>4

\* A copied value with its key: its page now holds it, as it will in the end.
LEMMA MergedCopy ==
  ASSUME SlotsOK, NEW p \in Page, NEW k \in Key, slots[p] # <<>>,
         slots[p][Len(slots[p])] = Half(Last(slots[Other(p)], k)),
         slots[p][1].key # k, ProgramKey(p, k)
  PROVE  /\ \A j \in Key : Merged(p, j)' = Merged(p, j)
         /\ Last(slots'[p], k) = Merged(p, k)
         /\ \A j \in Key : j # k => Last(slots'[p], j) = Last(slots[p], j)
<1>1. /\ slots'[p] = Keyed(slots[p], k)
      /\ slots'[p] # <<>>
      /\ slots'[Other(p)] = slots[Other(p)]
  BY ProgrammedKey, OtherPage
<1>2. slots[p] \in Seq(Slot) /\ Len(slots[p]) \in Nat /\ Len(slots[p]) >= 1
  BY EmptySeq DEF SlotsOK
<1> DEFINE v == Last(slots[Other(p)], k)
<1>3. slots[p][Len(slots[p])].key = NoKey /\ slots[p][Len(slots[p])].value = v
  BY DEF Half
<1>4. \A j \in Key : Last(slots'[p], j) = IF j = k THEN v ELSE Last(slots[p], j)
  BY <1>1, <1>2, <1>3, LastKeyed
<1>5. Merged(p, k) = v
  BY DEF Merged
<1>6. CASE Len(slots[p]) = 1
  <2>1. slots'[p][1].key = k /\ slots[p][1].key = NoKey
    <3>1. Keyed(slots[p], k)[Len(slots[p])].key = k
      BY <1>2, KeyedLast
    <3> QED
      BY <1>1, <1>3, <1>6, <3>1
  <2>2. NoKey \notin Key
    BY VEepromAssumption
  <2> HIDE DEF v
  <2>3. ASSUME NEW j \in Key PROVE Merged(p, j)' = Merged(p, j)
    <3>1. CASE j = k
      BY <1>1, <1>4, <1>5, <2>1, <3>1 DEF Merged
    <3>2. CASE j # k
      <4>1. Merged(p, j)' = Last(slots[Other(p)], j)
        BY <1>1, <2>1, <3>2 DEF Merged
      <4>2. Merged(p, j) = Last(slots[Other(p)], j)
        BY <2>1, <2>2 DEF Merged
      <4> QED
        BY <4>1, <4>2
    <3> QED
      BY <3>1, <3>2
  <2> QED
    BY <1>4, <1>5, <2>3
<1>7. CASE Len(slots[p]) # 1
  <2>1. Len(slots[p]) - 1 \in Nat /\ Len(slots[p]) - 1 >= 1
    <3> DEFINE m == Len(slots[p])
    <3>1. m \in Nat /\ m >= 1 /\ m # 1
      BY <1>2, <1>7
    <3> HIDE DEF m
    <3>2. m - 1 \in Nat /\ m - 1 >= 1
      BY <3>1
    <3> QED
      BY <3>2 DEF m
  <2>2. slots'[p][1] = slots[p][1]
    <3>1. 1 \in 1..Len(slots[p]) - 1
      BY <2>1
    <3>2. Keyed(slots[p], k)[1] = slots[p][1]
      BY <1>2, <3>1, KeyedType
    <3> QED
      BY <1>1, <3>2
  <2> HIDE DEF v
  <2>3. ASSUME NEW j \in Key PROVE Merged(p, j)' = Merged(p, j)
    <3>1. CASE j = k
      BY <1>1, <1>4, <1>5, <2>2, <3>1 DEF Merged
    <3>2. CASE j # k
      <4>1. Last(slots'[p], j) = Last(slots[p], j)
        BY <1>4, <3>2
      <4> QED
        BY <1>1, <2>2, <4>1 DEF Merged
    <3> QED
      BY <3>1, <3>2
  <2> QED
    BY <1>4, <1>5, <2>3
<1> QED
  BY <1>6, <1>7

\* The first key of a page that receives commits its value.
LEMMA MergedFirst ==
  ASSUME SlotsOK, NEW p \in Page, NEW k \in Key, NEW v \in Value,
         slots[p] = <<Half(v)>>, ProgramKey(p, k)
  PROVE  /\ slots'[p] # <<>> /\ slots'[p][1].key = k
         /\ Len(slots'[p]) = 1
         /\ \A j \in Key : Merged(p, j) = Last(slots[Other(p)], j)
         /\ \A j \in Key :
              Merged(p, j)' = IF j = k THEN v ELSE Last(slots[Other(p)], j)
         /\ \A j \in Key : Last(slots'[p], j) = IF j = k THEN v ELSE NoValue
<1>0. slots[p] \in Seq(Slot)
  BY DEF SlotsOK
<1>1. slots[p] # <<>> /\ Len(slots[p]) = 1 /\ slots[p][1] = Half(v)
  OBVIOUS
<1>2. slots[p][1].key = NoKey /\ slots[p][1].value = v
  BY <1>1 DEF Half
<1>3. /\ slots'[p] = Keyed(slots[p], k)
      /\ slots'[p] # <<>> /\ Len(slots'[p]) = 1
      /\ slots'[Other(p)] = slots[Other(p)]
  BY <1>1, ProgrammedKey, OtherPage
<1>4. slots'[p][1].key = k
  <2>1. Keyed(slots[p], k)[Len(slots[p])].key = k
    BY <1>0, <1>1, KeyedLast
  <2> QED
    BY <1>1, <1>3, <2>1
<1>5. \A j \in Key : Last(slots[p], j) = NoValue
  <2>1. DOMAIN slots[p] = {1}
    BY <1>1
  <2>2. \A j \in Key : LastHit(slots[p], j) = {}
    BY <1>2, <2>1, VEepromAssumption DEF LastHit
  <2> QED
    BY <2>2 DEF Last
<1>6. \A j \in Key : Last(slots'[p], j) = IF j = k THEN v ELSE NoValue
  BY <1>0, <1>1, <1>2, <1>3, <1>5, LastKeyed
<1>7. \A j \in Key : Merged(p, j) = Last(slots[Other(p)], j)
  BY <1>2, VEepromAssumption DEF Merged
<1>8. \A j \in Key :
        Merged(p, j)' = IF j = k THEN v ELSE Last(slots[Other(p)], j)
  BY <1>3, <1>4, <1>6 DEF Merged
<1> QED
  BY <1>3, <1>4, <1>6, <1>7, <1>8

-----------------------------------------------------------------------------
(***************************************************************************)
(* Room for the copies that interrupted recoveries leave behind.           *)
(***************************************************************************)
LEMMA CountTimes ==
  ASSUME NEW c \in Nat, NEW m \in Nat, NEW l \in Nat, c <= m
  PROVE  /\ c * l \in Nat
         /\ (c + 1) * l = c * l + l
         /\ c * l <= m * l
<1>1. c * l \in Nat /\ (m - c) * l \in Nat /\ m * l \in Nat
  OBVIOUS
<1>2. m * l = c * l + (m - c) * l
  OBVIOUS
<1>3. (c + 1) * l = c * l + l
  OBVIOUS
<1> QED
  BY <1>1, <1>2, <1>3

\* There is a slot for every copy.
LEMMA RoomToCopy ==
  ASSUME Recoverable, TypeInv, n <= Len(Table), NEW p \in Page,
         Len(slots[p]) <= cuts * Len(Table) + n
  PROVE  ~Full(p)
<1> DEFINE l == Len(Table)
<1>1. l \in Nat /\ cuts \in Nat /\ cuts <= MaxCuts /\ MaxCuts \in Nat /\ n \in Nat
  BY TableType, VEepromAssumption DEF TypeInv, TypeOK
<1>2. Slots > (MaxCuts + 1) * l /\ Slots \in Nat
  BY VEepromAssumption DEF Recoverable
<1>3. cuts * l \in Nat /\ cuts * l <= MaxCuts * l /\ MaxCuts * l \in Nat
  BY <1>1, CountTimes
<1>4. (MaxCuts + 1) * l = MaxCuts * l + l
  BY <1>1, CountTimes
<1>5. Len(slots[p]) \in Nat
  BY DEF TypeInv, TypeOK
<1>6. Len(slots[p]) <= cuts * l + n
  OBVIOUS
<1> DEFINE a == cuts * l
           b == MaxCuts * l
<1>7. a \in Nat /\ b \in Nat /\ a <= b /\ Slots > b + l /\ Len(slots[p]) <= a + n
  BY <1>2, <1>3, <1>4, <1>6
<1> HIDE DEF a, b
<1>8. n <= l
  OBVIOUS
<1> HIDE DEF l
<1>9. Len(slots[p]) < Slots
  BY <1>1, <1>2, <1>5, <1>7, <1>8
<1> QED
  BY <1>5, <1>9, <1>2 DEF Full

-----------------------------------------------------------------------------
(***************************************************************************)
(* What the flash holds in each of its states, before and after a step.    *)
(***************************************************************************)
LEMMA HeldAlone ==
  ASSUME NEW p \in Page, Alone(p), NEW k
  PROVE  Held(k) = Last(slots[p], k)
<1>1. CASE p = 0
  <2>1. Alone(0)
    BY <1>1
  <2>2. ~Alone(1)
    BY <2>1, OtherPage DEF Alone, Receiving
  <2> QED
    BY <1>1, <2>1, <2>2, OtherPage DEF Held, Alone, Receiving
<1>2. CASE p = 1
  <2>1. Alone(1)
    BY <1>2
  <2>2. ~Alone(0) /\ ~Receiving(0)
    BY <2>1, OtherPage DEF Alone, Receiving
  <2> QED
    BY <1>2, <2>1, <2>2, OtherPage DEF Held, Alone, Receiving
<1> QED
  BY <1>1, <1>2 DEF Page

LEMMA HeldAloneNext ==
  ASSUME NEW p \in Page, Alone(p)', NEW k
  PROVE  Held(k)' = Last(slots'[p], k)
<1>1. CASE p = 0
  <2>1. Alone(0)'
    BY <1>1
  <2>2. ~Alone(1)'
    BY <2>1, OtherPage DEF Alone, Receiving
  <2> QED
    BY <1>1, <2>1, <2>2, OtherPage DEF Held, Alone, Receiving
<1>2. CASE p = 1
  <2>1. Alone(1)'
    BY <1>2
  <2>2. ~Alone(0)' /\ ~Receiving(0)'
    BY <2>1, OtherPage DEF Alone, Receiving
  <2> QED
    BY <1>2, <2>1, <2>2, OtherPage DEF Held, Alone, Receiving
<1> QED
  BY <1>1, <1>2 DEF Page

LEMMA HeldReceiving ==
  ASSUME NEW p \in Page, Receiving(p), NEW k
  PROVE  Held(k) = Merged(p, k)
<1>1. CASE p = 0
  <2>1. Receiving(0)
    BY <1>1
  <2>2. ~Alone(1)
    BY <2>1, OtherPage DEF Alone, Receiving
  <2> QED
    BY <1>1, <2>1, <2>2, OtherPage DEF Held, Alone, Receiving
<1>2. CASE p = 1
  <2>1. Receiving(1)
    BY <1>2
  <2>2. ~Alone(0) /\ ~Receiving(0)
    BY <2>1, OtherPage DEF Alone, Receiving
  <2> QED
    BY <1>2, <2>1, <2>2, OtherPage DEF Held, Alone, Receiving
<1> QED
  BY <1>1, <1>2 DEF Page

LEMMA HeldReceivingNext ==
  ASSUME NEW p \in Page, Receiving(p)', NEW k
  PROVE  Held(k)' = Merged(p, k)'
<1>1. CASE p = 0
  <2>1. Receiving(0)'
    BY <1>1
  <2>2. ~Alone(1)'
    BY <2>1, OtherPage DEF Alone, Receiving
  <2> QED
    BY <1>1, <2>1, <2>2, OtherPage DEF Held, Alone, Receiving
<1>2. CASE p = 1
  <2>1. Receiving(1)'
    BY <1>2
  <2>2. ~Alone(0)' /\ ~Receiving(0)'
    BY <2>1, OtherPage DEF Alone, Receiving
  <2> QED
    BY <1>2, <2>1, <2>2, OtherPage DEF Held, Alone, Receiving
<1> QED
  BY <1>1, <1>2 DEF Page

LEMMA GoodIsAlone ==
  ASSUME NEW p \in Page
  PROVE  (Good(p) => Alone(p)) /\ (Good(p)' => Alone(p)')
  BY DEF Good, Blank, Alone

\* In an alone page, and after a good one, nothing is being moved.
LEMMA NothingMoves ==
  ASSUME NEW p \in Page
  PROVE  /\ Alone(p) => ~Receiving(0) /\ ~Receiving(1)
         /\ Alone(p)' => ~Receiving(0)' /\ ~Receiving(1)'
  BY OtherPage DEF Alone, Receiving, Page

-----------------------------------------------------------------------------
(***************************************************************************)
(* The invariant: what is asked and which part of the driver runs.         *)
(***************************************************************************)
IndInv == TypeInv /\ EepromInv

Book ==
    /\ BootingAt
    /\ Requested
    /\ pc = "off" => n = 1

\* A return ends the request.
LEMMA ReturnBook == ASSUME Return PROVE Book'
  BY DEF Return, Book, BootingAt, Requested

LEMMA BookStep ==
  ASSUME IndInv, Next
  PROVE  Book'
<1> USE DEF ram, flash
<1>0. /\ BootingAt /\ Requested /\ pc \in Point /\ booting \in BOOLEAN
  BY DEF IndInv, EepromInv, TypeInv, TypeOK
<1>1. CASE Boot
  BY <1>0, <1>1 DEF Boot, Book, BootingAt, Requested
<1>2. CASE Clean
  BY <1>0, <1>2, ReturnBook DEF Clean, Book, BootingAt, Requested
<1>3. CASE Format \/ FormatMark \/ FormatClean
  BY <1>0, <1>3, ReturnBook DEF Format, FormatMark, FormatClean, Book, BootingAt,
     Requested
<1>4. CASE Write
  <2>1. PICK k \in Key, v \in Value : request' = [key |-> k, value |-> v]
    BY <1>4 DEF Write
  <2> QED
    BY <1>0, <1>4, <2>1 DEF Write, Book, BootingAt, Requested, Asked
<1>5. CASE Transfer
  <2>1. PICK k \in Key, v \in Value : request' = [key |-> k, value |-> v]
    BY <1>5 DEF Transfer
  <2> QED
    BY <1>0, <1>5, <2>1 DEF Transfer, Book, BootingAt, Requested, Asked
<1>6. CASE WriteKey
  BY <1>6, ReturnBook DEF WriteKey
<1>7. CASE First \/ FirstKey
  BY <1>0, <1>7, ReturnBook DEF First, FirstKey, Book, BootingAt, Requested, Asked
<1>8. CASE CopyNothing \/ Copy \/ CopyKey \/ Copied
  BY <1>0, <1>8, ReturnBook DEF CopyNothing, Copy, CopyKey, Copied, Book, BootingAt,
     Requested, Asked
<1>9. CASE EraseOld
  BY <1>0, <1>9 DEF EraseOld, Book, BootingAt, Requested, Asked
<1>10. CASE Mark
  <2>1. AtMark
    BY <1>10 DEF IndInv, EepromInv, Control, Mark
  <2>2. header[Other(to)] = "valid" => booting
    BY <2>1 DEF AtMark, Blank
  <2> QED
    BY <1>0, <1>10, <2>2, ReturnBook DEF Mark, Book, BootingAt, Requested
<1>11. CASE PowerCut
  BY <1>11 DEF PowerCut, Book, BootingAt, Requested
<1> QED
  BY <1>1, <1>2, <1>3, <1>4, <1>5, <1>6, <1>7, <1>8, <1>9, <1>10, <1>11
  DEF Next, Driver

-----------------------------------------------------------------------------
(***************************************************************************)
(* The invariant: where the driver is and what the pages hold.             *)
(***************************************************************************)
PagesOK == Control /\ Copies

\* What is known before every step.
LEMMA Known ==
  ASSUME IndInv
  PROVE  /\ SlotsOK /\ header \in [Page -> Status] /\ to \in Page
         /\ Other(to) \in Page /\ Other(to) # to /\ Other(Other(to)) = to
         /\ BootingAt /\ Requested /\ Control /\ Copies
  BY OtherPage DEF IndInv, EepromInv, TypeInv, TypeOK, SlotsOK

\* A step that leaves the flash alone leaves the copies alone.
LEMMA SameCopies == ASSUME UNCHANGED flash, Copies PROVE Copies'
  BY DEF flash, Copies, Receiving, Right, Merged

\* Nothing is being moved: there are no copies.
LEMMA NoCopies == ASSUME NEW p \in Page, Alone(p)' PROVE Copies'
  BY NothingMoves DEF Copies, Page

\* The driver returns with a good page.
LEMMA GoodReturn == ASSUME NEW p \in Page, Good(p)', Return PROVE PagesOK'
<1>1. Copies'
  BY GoodIsAlone, NoCopies
<1>2. Control'
  BY DEF Return, Control, AtReady, Good
<1> QED
  BY <1>1, <1>2 DEF PagesOK

\* The erase operation blanks its page and leaves the other one alone.
LEMMA Erased ==
  ASSUME NEW p \in Page, Erase(p), SlotsOK, header \in [Page -> Status]
  PROVE  /\ header'[p] = "erased" /\ slots'[p] = <<>>
         /\ \A q \in Page : q # p => header'[q] = header[q] /\ slots'[q] = slots[q]
         /\ Blank(p)'
  BY DEF Erase, SlotsOK, Blank

\* Marking a page changes its header only.
LEMMA Marked ==
  ASSUME NEW p \in Page, NEW s, MarkPage(p, s), header \in [Page -> Status]
  PROVE  /\ header'[p] = s /\ slots' = slots
         /\ \A q \in Page : q # p => header'[q] = header[q]
  BY DEF MarkPage

LEMMA BootPages == ASSUME IndInv, Boot PROVE PagesOK'
<1>0. SlotsOK /\ Control /\ Copies /\ AtOff /\ n = 1 /\ booting
  BY Known DEF Control, Boot, BootingAt, IndInv, EepromInv
<1>1. UNCHANGED flash /\ UNCHANGED <<booting, n, request, cuts>> /\ Copies'
  BY <1>0, SameCopies DEF Boot
<1>u. header' = header /\ slots' = slots /\ n' = 1 /\ booting' = booting /\ cuts' = cuts
  BY <1>0, <1>1 DEF flash
<1>2. ASSUME NEW p \in Page, header[p] # "erased", header[Other(p)] = "erased",
             pc' = "clean", to' = p
      PROVE  Control'
  <2>1. Alone(to)'
    BY <1>2, <1>u DEF Alone
  <2>2. to' = 0 => slots'[1] = <<>>
    BY <1>2, <1>0, <1>u, OtherPage DEF AtOff
  <2> QED
    BY <1>2, <2>1, <2>2 DEF Control, AtClean
<1>3. ASSUME NEW p \in Page, header[p] = "receive", header[Other(p)] = "valid",
             pc' = "copy", to' = p
      PROVE  Control'
  <2>1. p = 1 /\ Receiving(1)
    BY <1>3, <1>0 DEF AtOff, Receiving, Page
  <2>2. Receiving(to)' /\ to' = 1
    BY <2>1, <1>3, <1>u DEF Receiving
  <2>3. Len(slots'[1]) <= cuts' * Len(Table) + n'
    BY <1>0, <1>u, <2>1 DEF AtOff
  <2> QED
    BY <1>0, <1>3, <1>u, <2>2, <2>3 DEF Control, AtCopy, Copying, Moving
<1>4. ASSUME header[0] = header[1], pc' = "format"
      PROVE  Control'
  <2>1. header[0] = "erased" /\ header[1] = "erased"
    BY <1>0, <1>4 DEF AtOff
  <2>2. slots[0] = <<>> /\ slots[1] = <<>>
    BY <1>0, <2>1 DEF AtOff, Headers
  <2> QED
    BY <1>4, <1>u, <2>1, <2>2 DEF Control, AtFormat, Blank
<1> QED
  BY <1>1, <1>2, <1>3, <1>4 DEF Boot, PagesOK

LEMMA CleanPages == ASSUME IndInv, Clean PROVE PagesOK'
<1>0. /\ SlotsOK /\ header \in [Page -> Status] /\ to \in Page
      /\ Other(to) \in Page /\ Other(to) # to /\ Other(Other(to)) = to
      /\ Copies /\ AtClean
  BY Known DEF Control, Clean
<1>1. /\ header'[Other(to)] = "erased" /\ slots'[Other(to)] = <<>>
      /\ header'[to] = header[to]
      /\ slots'[to] = slots[to]
  <2>1. CASE FullyErased(Other(to))
    <3>1. header' = header /\ slots' = slots
      BY <2>1 DEF Clean, flash
    <3>2. CASE to = 0
      BY <2>1, <3>1, <3>2, <1>0, OtherPage DEF AtClean, Alone, Blank
    <3>3. CASE to = 1
      BY <2>1, <3>1, <3>3, <1>0, OtherPage DEF FullyErased, Blank
    <3> QED
      BY <3>2, <3>3, <1>0 DEF Page
  <2>2. CASE ~FullyErased(Other(to))
    BY <2>2, <1>0, Erased DEF Clean
  <2> QED
    BY <2>1, <2>2
<1>2. header[to] \in {"receive", "valid"}
  BY <1>0 DEF AtClean, Alone, Status, Headers
<1>3. CASE header[to] = "receive"
  <2>1. pc' = "mark" /\ to' = to
    BY <1>3 DEF Clean, ram
  <2>2. header'[to'] = "receive" /\ Blank(Other(to))'
    BY <1>1, <1>3, <2>1 DEF Blank
  <2>3. Alone(to)'
    BY <2>2 DEF Alone, Blank
  <2>4. Copies'
    BY <2>1, <2>3, <1>0, NoCopies
  <2> QED
    BY <2>1, <2>2, <2>4 DEF PagesOK, Control, AtMark
<1>4. CASE header[to] = "valid"
  <2>1. Return
    BY <1>4 DEF Clean
  <2>2. PICK p \in Page : p = to
    BY <1>0
  <2>3. Good(p)'
    BY <1>1, <1>4, <2>2 DEF Good, Blank
  <2> QED
    BY <2>1, <2>3, GoodReturn
<1> QED
  BY <1>2, <1>3, <1>4

LEMMA FormatPages ==
  ASSUME IndInv, Format \/ FormatMark \/ FormatClean
  PROVE  PagesOK'
<1>0. SlotsOK /\ header \in [Page -> Status] /\ Copies /\ Control
  BY Known
<1>1. CASE Format
  <2>1. AtFormat
    BY <1>0, <1>1 DEF Control, Format
  <2>2. header' = header /\ slots' = slots /\ UNCHANGED flash /\ pc' = "formatMark"
    BY <1>1, <2>1 DEF Format, FullyErased, AtFormat, Blank, flash
  <2> QED
    BY <2>1, <2>2, <1>0, SameCopies DEF PagesOK, Control, AtFormat, Blank
<1>2. CASE FormatMark
  <2>1. AtFormat /\ MarkPage(0, "valid") /\ pc' = "formatClean"
    BY <1>0, <1>2 DEF Control, FormatMark
  <2>2. header'[0] = "valid" /\ header'[1] = "erased" /\ slots' = slots
    BY <2>1, <1>0, OtherPage, Marked DEF AtFormat, Blank
  <2>3. Good(0)' /\ slots'[0] = <<>>
    BY <2>1, <2>2, OtherPage DEF Good, Blank, AtFormat
  <2>4. Copies'
    BY <2>3, OtherPage, GoodIsAlone, NoCopies
  <2> QED
    BY <2>1, <2>3, <2>4 DEF PagesOK, Control, AtFormatClean
<1>3. CASE FormatClean
  <2>1. Good(0) /\ Return /\ FullyErased(1)
    BY <1>0, <1>3 DEF Control, FormatClean, AtFormatClean, FullyErased
  <2>2. header' = header /\ slots' = slots
    BY <1>3, <2>1 DEF FormatClean, flash
  <2>3. Good(0)'
    BY <2>1, <2>2 DEF Good, Blank
  <2> QED
    BY <2>1, <2>3, OtherPage, GoodReturn
<1> QED
  BY <1>1, <1>2, <1>3

LEMMA WritePages == ASSUME IndInv, Write PROVE PagesOK'
<1>0. SlotsOK /\ header \in [Page -> Status] /\ AtReady
  BY Known DEF Control, Write
<1>1. PICK p \in Page : Good(p)
  BY <1>0 DEF AtReady
<1>2. WritePage = p
  BY <1>1, FindGood
<1>3. PICK v \in Value : request'.value = v /\ ProgramValue(p, v)
  BY <1>2 DEF Write
<1>4. /\ ~Full(p) /\ pc' = "key" /\ header' = header
  BY <1>2, <1>3 DEF Write, ProgramValue
<1>5. /\ slots'[p] # <<>>
      /\ slots'[p][Len(slots'[p])] = Half(v)
      /\ slots'[Other(p)] = slots[Other(p)]
  BY <1>0, <1>3, <1>4, ProgrammedValue, OtherPage
<1>6. Good(p)'
  BY <1>1, <1>4, <1>5 DEF Good, Blank
<1>7. AtKey'
  BY <1>3, <1>5, <1>6 DEF AtKey
<1>8. Copies'
  BY <1>6, GoodIsAlone, NoCopies
<1> QED
  BY <1>4, <1>7, <1>8 DEF PagesOK, Control

LEMMA WriteKeyPages == ASSUME IndInv, WriteKey PROVE PagesOK'
<1>0. SlotsOK /\ header \in [Page -> Status] /\ AtKey /\ Asked
  BY Known DEF Control, WriteKey, BootingAt, Requested
<1>1. PICK p \in Page : Good(p) /\ slots[p] # <<>>
  BY <1>0 DEF AtKey
<1>2. request.key \in Key /\ ProgramKey(p, request.key) /\ Return
  BY <1>0, <1>1, FindGood DEF WriteKey, Asked
<1>3. slots'[Other(p)] = slots[Other(p)] /\ header' = header
  BY <1>0, <1>1, <1>2, ProgrammedKey, OtherPage DEF ProgramKey
<1>4. Good(p)'
  BY <1>1, <1>3 DEF Good, Blank
<1> QED
  BY <1>2, <1>4, GoodReturn

LEMMA TransferPages == ASSUME IndInv, Transfer PROVE PagesOK'
<1>0. SlotsOK /\ header \in [Page -> Status] /\ AtReady
  BY Known DEF Control, Transfer
<1>r. n = 1 /\ n' = n
  BY <1>0 DEF AtReady, Transfer
<1>1. PICK p \in Page : Good(p)
  BY <1>0 DEF AtReady
<1>2. to' = Other(p) /\ MarkPage(Other(p), "receive") /\ pc' = "first"
  BY <1>1, FindGood DEF Transfer
<1>3. /\ header'[Other(p)] = "receive" /\ header'[p] = "valid"
      /\ slots' = slots /\ slots[Other(p)] = <<>>
      /\ Other(p) \in Page /\ Other(Other(p)) = p
  BY <1>0, <1>1, <1>2, OtherPage, Marked DEF Good, Blank
<1>4. Moving' /\ slots'[to'] = <<>>
  BY <1>2, <1>3 DEF Moving, Receiving
<1>5. Copies'
  <2>1. ASSUME NEW q \in Page, Receiving(q)' PROVE Right(q)'
    <3>1. q = Other(p)
      BY <1>3, <2>1, OtherPage DEF Receiving, Page
    <3>2. slots'[q] = <<>>
      BY <1>3, <3>1
    <3> QED
      BY <3>2, LastOfBlank DEF Right
  <2> QED
    BY <2>1 DEF Copies
<1> QED
  BY <1>r, <1>2, <1>4, <1>5 DEF PagesOK, Control, AtFirst

\* Two pages cannot both receive.
LEMMA OneReceives ==
  ASSUME NEW p \in Page, NEW q \in Page
  PROVE  /\ Receiving(p) /\ Receiving(q) => p = q
         /\ Receiving(p)' /\ Receiving(q)' => p = q
  BY OtherPage DEF Receiving, Page

\* It is enough to look at the page that receives.
LEMMA CopiesRight ==
  ASSUME NEW p \in Page, Receiving(p)', Right(p)'
  PROVE  Copies'
<1>1. ASSUME NEW q \in Page, Receiving(q)' PROVE Right(q)'
  <2>1. q = p
    BY <1>1, OneReceives
  <2> QED
    BY <2>1
<1> QED
  BY <1>1 DEF Copies

\* A value without a key spoils no copy.
LEMMA CopiesHalf ==
  ASSUME SlotsOK, Copies, NEW p \in Page, NEW v \in Value, Receiving(p), ~Full(p),
         ProgramValue(p, v)
  PROVE  Copies'
<1>1. header' = header
  BY DEF ProgramValue
<1>2. Receiving(p)'
  BY <1>1 DEF Receiving
<1>3. /\ \A k \in Key : Last(slots'[p], k) = Last(slots[p], k)
      /\ \A k \in Key : Merged(p, k)' = Merged(p, k)
  BY MergedHalf
<1>4. Right(p)
  BY DEF Copies
<1>5. Right(p)'
  BY <1>3, <1>4 DEF Right
<1> QED
  BY <1>2, <1>5, CopiesRight

LEMMA FirstPages == ASSUME IndInv, First PROVE PagesOK'
<1>0. /\ SlotsOK /\ header \in [Page -> Status] /\ to \in Page /\ Other(to) \in Page
      /\ AtFirst /\ Asked /\ Copies
  BY Known DEF Control, First, BootingAt, Requested
<1>1. WritePage = to /\ Receiving(to) /\ slots[to] = <<>> /\ n = 1
  BY <1>0, FindReceiving DEF AtFirst, Moving
<1>2. ~Full(to)
  BY <1>1, VEepromAssumption DEF Full
<1>3. /\ ProgramValue(to, request.value) /\ request.value \in Value
      /\ pc' = "firstKey" /\ to' = to /\ n' = 1 /\ request' = request
      /\ header' = header
  BY <1>0, <1>1, <1>2 DEF First, ram, ProgramValue, Asked
<1>4. slots'[to] = <<Half(request.value)>>
  <2>1. slots'[to] = Append(<<>>, Half(request.value))
    BY <1>0, <1>1, <1>2, <1>3, ProgrammedValue
  <2> QED
    BY <2>1
<1>5. AtFirstKey'
  BY <1>1, <1>3, <1>4 DEF AtFirstKey, Moving, Receiving
<1>6. Copies'
  BY <1>0, <1>1, <1>2, <1>3, CopiesHalf
<1> QED
  BY <1>3, <1>5, <1>6 DEF PagesOK, Control

LEMMA FirstKeyPages == ASSUME IndInv, FirstKey PROVE PagesOK'
<1>0. /\ SlotsOK /\ header \in [Page -> Status] /\ to \in Page /\ Other(to) \in Page
      /\ AtFirstKey /\ Asked /\ ~booting
  BY Known DEF Control, FirstKey, BootingAt, Requested
<1>1. WritePage = to /\ Receiving(to) /\ slots[to] = <<Half(request.value)>> /\ n = 1
  BY <1>0, FindReceiving DEF AtFirstKey, Moving
<1> DEFINE k == request.key
           v == request.value
<1>2. /\ ProgramKey(to, k) /\ k \in Key /\ v \in Value
      /\ UNCHANGED <<booting, to, n, request, cuts>> /\ pc' = "copy"
      /\ header' = header
  BY <1>0, <1>1 DEF FirstKey, ram, ProgramKey, Asked
<1>3. /\ slots'[to] # <<>> /\ slots'[to][1].key = k /\ Len(slots'[to]) = 1
      /\ \A j \in Key :
           Merged(to, j)' = IF j = k THEN v ELSE Last(slots[Other(to)], j)
      /\ \A j \in Key : Last(slots'[to], j) = IF j = k THEN v ELSE NoValue
  <2> HIDE DEF k, v
  <2>1. PICK p \in Page : p = to
    BY <1>0
  <2>2. slots[p] = <<Half(v)>> /\ ProgramKey(p, k)
    BY <1>1, <1>2, <2>1 DEF v
  <2>3. /\ slots'[p] # <<>> /\ slots'[p][1].key = k /\ Len(slots'[p]) = 1
        /\ \A j \in Key :
             Merged(p, j)' = IF j = k THEN v ELSE Last(slots[Other(p)], j)
        /\ \A j \in Key : Last(slots'[p], j) = IF j = k THEN v ELSE NoValue
    BY <1>0, <1>2, <2>2, MergedFirst
  <2> QED
    BY <1>2, <2>1, <2>3 DEF Merged
<1>4. Receiving(to)'
  BY <1>1, <1>2 DEF Receiving
<1>5. Copying'
  BY <1>0, <1>1, <1>2, <1>3, <1>4 DEF Copying, Moving, Started
<1>6. AtCopy'
  <2>1. cuts * Len(Table) \in Nat
    BY CountTimes, TableType DEF IndInv, TypeInv, TypeOK
  <2>2. Len(slots'[to']) <= cuts' * Len(Table) + n'
    BY <1>1, <1>2, <1>3, <2>1
  <2> QED
    BY <1>5, <2>2 DEF AtCopy
<1>7. Right(to)'
  BY <1>2, <1>3 DEF Right
<1>8. Copies'
  <2>1. ASSUME NEW q \in Page, Receiving(q)' PROVE Right(q)'
    <3>1. q = to'
      BY <1>0, <1>2, <1>4, <2>1, OtherPage DEF Receiving, Page
    <3> QED
      BY <1>2, <1>7, <3>1 DEF Right, Merged
  <2> QED
    BY <2>1 DEF Copies
<1> QED
  BY <1>2, <1>6, <1>8 DEF PagesOK, Control

LEMMA CopyNothingPages == ASSUME IndInv, CopyNothing PROVE PagesOK'
<1>0. /\ SlotsOK /\ to \in Page /\ AtCopy /\ Copies /\ Requested
  BY Known DEF Control, CopyNothing
<1>1. /\ Receiving(to) /\ ReadPage = Other(to) /\ n \in Nat /\ n >= 1
      /\ n <= Len(Table) /\ Len(Table) \in Nat
  BY <1>0, FindReceiving, TableType
     DEF AtCopy, Copying, Moving, CopyNothing, IndInv, TypeInv, TypeOK
<1>2. /\ header' = header /\ slots' = slots /\ UNCHANGED flash
      /\ UNCHANGED <<pc, booting, to, request, cuts>> /\ n' = n + 1 /\ pc = "copy"
  BY DEF CopyNothing, flash
<1> DEFINE k == Table[n]
<1>3. k \in Key
  BY <1>1, TableType
<1>4. Last(slots[to], k) = Merged(to, k)
  <2>1. Right(to)
    BY <1>0, <1>1 DEF Copies
  <2>2. CASE slots[to] # <<>> /\ slots[to][1].key = k
    BY <2>2 DEF Merged
  <2>3. CASE ~(slots[to] # <<>> /\ slots[to][1].key = k)
    <3>1. ~Skipped(k)
      BY <1>0, <2>3 DEF AtCopy, Copying, Started, Skipped
    <3>2. Last(slots[Other(to)], k) = NoValue
      <4>1. Read(k) = NoValue
        BY <3>1 DEF CopyNothing
      <4>2. ReadPage # NoPage
        BY <1>0, <1>1, OtherPage, VEepromAssumption
      <4> QED
        BY <4>1, <4>2, <1>1 DEF Read
    <3>3. Merged(to, k) = NoValue
      BY <2>3, <3>2 DEF Merged
    <3> QED
      BY <1>3, <2>1, <3>3 DEF Right
  <2> QED
    BY <2>2, <2>3
<1>5. Copying'
  <2>1. ASSUME NEW i \in 1..n' - 1
        PROVE  Last(slots'[to'], Table[i]) = Merged(to, Table[i])'
    <3>1. Last(slots[to], Table[i]) = Merged(to, Table[i])
      <4>1. CASE i = n
        BY <4>1, <1>4
      <4>2. CASE i # n
        <5>1. i \in 1..n - 1
          BY <1>1, <1>2, <4>2
        <5> QED
          BY <5>1, <1>0 DEF AtCopy, Copying
      <4> QED
        BY <4>1, <4>2
    <3> QED
      BY <3>1, <1>2 DEF Merged
  <2>2. Moving' /\ (IF booting THEN to = 1 ELSE Started)'
    BY <1>0, <1>1, <1>2 DEF AtCopy, Copying, Moving, Receiving, Started
  <2> QED
    BY <2>1, <2>2 DEF Copying
<1>6. Len(slots'[to']) <= cuts' * Len(Table) + n'
  <2>1. cuts * Len(Table) \in Nat /\ Len(slots[to]) \in Nat
    BY <1>0, CountTimes, TableType DEF IndInv, TypeInv, TypeOK
  <2>2. Len(slots[to]) <= cuts * Len(Table) + n
    BY <1>0 DEF AtCopy
  <2> DEFINE c == cuts * Len(Table)
             m == Len(slots[to])
  <2>3. m \in Nat /\ c \in Nat /\ m <= c + n
    BY <2>1, <2>2
  <2> HIDE DEF c, m
  <2>4. m <= c + (n + 1)
    BY <2>3, <1>1
  <2> QED
    BY <2>4, <1>2 DEF c, m
<1>7. Copies'
  BY <1>0, <1>2, SameCopies
<1> QED
  BY <1>2, <1>5, <1>6, <1>7 DEF PagesOK, Control, AtCopy

LEMMA CopyPages == ASSUME Recoverable, IndInv, Copy PROVE PagesOK'
<1>0. /\ SlotsOK /\ to \in Page /\ Other(to) \in Page /\ Other(to) # to
      /\ AtCopy /\ Copies /\ Requested
  BY Known DEF Control, Copy
<1>1. /\ Receiving(to) /\ ReadPage = Other(to) /\ WritePage = to
      /\ n \in Nat /\ n >= 1
      /\ n <= Len(Table) /\ Len(Table) \in Nat
      /\ Len(slots[to]) <= cuts * Len(Table) + n
  BY <1>0, FindReceiving, TableType
     DEF AtCopy, Copying, Moving, Copy, IndInv, TypeInv, TypeOK
<1>2. ~Full(to)
  BY <1>0, <1>1, RoomToCopy DEF IndInv
<1> DEFINE k == Table[n]
           v == Last(slots[Other(to)], k)
<1>3. k \in Key
  BY <1>1, TableType
<1>4. Read(k) = v /\ v \in Value
  <2>1. ReadPage # NoPage
    BY <1>0, <1>1, OtherPage, VEepromAssumption
  <2>2. Read(k) = v
    BY <2>1, <1>1 DEF Read
  <2>3. slots[Other(to)] \in Seq(Slot)
    BY <1>0 DEF SlotsOK
  <2>4. Last(slots[Other(to)], k) \in Value \cup {NoValue}
    BY <2>3, LastType
  <2> QED
    BY <2>2, <2>4 DEF Copy
<1>5. /\ ProgramValue(to, v) /\ pc' = "copyKey"
      /\ UNCHANGED <<booting, to, n, request, cuts>> /\ header' = header
  BY <1>1, <1>2, <1>4 DEF Copy, ram, ProgramValue
<1> HIDE DEF v
<1>6. /\ slots'[to] = Append(slots[to], Half(v)) /\ slots'[to] # <<>>
      /\ Len(slots'[to]) = Len(slots[to]) + 1
      /\ slots'[to][Len(slots'[to])] = Half(v)
      /\ slots'[Other(to)] = slots[Other(to)]
  BY <1>0, <1>2, <1>4, <1>5, ProgrammedValue
<1>7. /\ \A q \in Page, j \in Key : Last(slots'[q], j) = Last(slots[q], j)
      /\ \A j \in Key : Merged(to, j)' = Merged(to, j)
  <2>1. PICK p \in Page : p = to
    BY <1>0
  <2>2. ~Full(p) /\ ProgramValue(p, v)
    BY <2>1, <1>2, <1>5
  <2>3. /\ \A q \in Page, j \in Key : Last(slots'[q], j) = Last(slots[q], j)
        /\ \A j \in Key : Merged(p, j)' = Merged(p, j)
    BY <2>2, <1>0, <1>4, MergedHalf
  <2>4. p' = p /\ p = to'
    BY <2>1, <1>5
  <2> QED
    BY <2>1, <2>3, <2>4 DEF Merged
<1>8. slots[to] # <<>> => slots'[to][1] = slots[to][1]
  <2>1. slots[to] \in Seq(Slot) /\ Half(v) \in Slot
    BY <1>0, <1>4, HalfType DEF SlotsOK
  <2>2. ASSUME slots[to] # <<>> PROVE slots'[to][1] = slots[to][1]
    <3>1. Len(slots[to]) \in Nat /\ Len(slots[to]) >= 1
      BY <2>1, <2>2, EmptySeq
    <3> QED
      BY <2>1, <3>1, <1>6
  <2> QED
    BY <2>2
<1>9. slots'[to][1].key # k
  <2>1. CASE slots[to] = <<>>
    <3>1. Len(slots[to]) = 0
      BY <2>1
    <3>2. slots'[to][1] = Half(v)
      BY <3>1, <1>6
    <3> QED
      BY <3>2, <1>3, VEepromAssumption DEF Half
  <2>2. CASE slots[to] # <<>>
    <3>1. ~Skipped(k)
      BY DEF Copy
    <3>2. slots[to][1].key # k
      BY <3>1, <2>2, <1>0 DEF Skipped, AtCopy, Copying, Started
    <3> QED
      BY <2>2, <3>2, <1>8
  <2> QED
    BY <2>1, <2>2
<1>10. Copying'
  <2>1. Moving' /\ (IF booting THEN to = 1 ELSE Started)'
    BY <1>0, <1>1, <1>5, <1>6, <1>8
       DEF AtCopy, Copying, Moving, Receiving, Started
  <2>2. ASSUME NEW i \in 1..n' - 1
        PROVE  Last(slots'[to'], Table[i]) = Merged(to, Table[i])'
    <3>1. i \in 1..n - 1 /\ i \in 1..Len(Table)
      BY <1>1, <1>5
    <3>2. Table[i] \in Key /\ Last(slots[to], Table[i]) = Merged(to, Table[i])
      BY <3>1, <1>0, TableType DEF AtCopy, Copying
    <3> QED
      BY <3>2, <1>0, <1>5, <1>7
  <2> QED
    BY <2>1, <2>2 DEF Copying
<1>11. Len(slots'[to']) <= cuts' * Len(Table) + n' + 1
  <2>1. cuts * Len(Table) \in Nat /\ Len(slots[to]) \in Nat
    BY <1>0, CountTimes, TableType DEF IndInv, TypeInv, TypeOK
  <2> DEFINE c == cuts * Len(Table)
             m == Len(slots[to])
  <2>3. m \in Nat /\ c \in Nat /\ m <= c + n
    BY <2>1, <1>1
  <2> HIDE DEF c, m
  <2>4. m + 1 <= c + n + 1
    BY <2>3, <1>1
  <2> QED
    BY <2>4, <1>5, <1>6 DEF c, m
<1>12. slots'[to'][Len(slots'[to'])] = Half(Last(slots'[Other(to')], Table[n']))
  BY <1>5, <1>6 DEF v
<1>13. Copies'
  BY <1>0, <1>1, <1>2, <1>4, <1>5, CopiesHalf
<1> QED
  BY <1>1, <1>5, <1>6, <1>9, <1>10, <1>11, <1>12, <1>13 DEF PagesOK, Control, AtCopyKey

LEMMA CopyKeyPages == ASSUME IndInv, CopyKey PROVE PagesOK'
<1>0. /\ SlotsOK /\ to \in Page /\ Other(to) \in Page /\ Other(to) # to
      /\ AtCopyKey /\ Copies /\ Requested /\ BootingAt
  BY Known DEF Control, CopyKey
<1>1. /\ Receiving(to) /\ WritePage = to
      /\ n \in Nat /\ n >= 1
      /\ n <= Len(Table) /\ Len(Table) \in Nat
      /\ Len(slots[to]) <= cuts * Len(Table) + n + 1
      /\ slots[to] # <<>> /\ slots[to][1].key # Table[n]
      /\ slots[to][Len(slots[to])] = Half(Last(slots[Other(to)], Table[n]))
  BY <1>0, FindReceiving, TableType
     DEF AtCopyKey, Copying, Moving, IndInv, TypeInv, TypeOK
<1> DEFINE k == Table[n]
<1>2. k \in Key
  BY <1>1, TableType
<1>3. /\ ProgramKey(to, k) /\ pc' = "copy" /\ header' = header
      /\ UNCHANGED <<booting, to, request, cuts>> /\ n' = n + 1
  BY <1>1 DEF CopyKey, ProgramKey
<1>4. /\ \A j \in Key : Merged(to, j)' = Merged(to, j)
      /\ Last(slots'[to], k) = Merged(to, k)
      /\ \A j \in Key : j # k => Last(slots'[to], j) = Last(slots[to], j)
  <2>1. PICK p \in Page : p = to
    BY <1>0
  <2>2. /\ slots[p] # <<>> /\ slots[p][1].key # k /\ ProgramKey(p, k)
        /\ slots[p][Len(slots[p])] = Half(Last(slots[Other(p)], k))
    BY <2>1, <1>1, <1>3
  <2>3. PICK kk \in Key : kk = k
    BY <1>2
  <2>4. /\ \A j \in Key : Merged(p, j)' = Merged(p, j)
        /\ Last(slots'[p], kk) = Merged(p, kk)
        /\ \A j \in Key : j # kk => Last(slots'[p], j) = Last(slots[p], j)
    BY <2>2, <2>3, <1>0, MergedCopy
  <2>5. p' = p /\ p = to'
    BY <2>1, <1>3
  <2> QED
    BY <2>1, <2>3, <2>4, <2>5 DEF Merged
<1>5. /\ slots'[to] = Keyed(slots[to], k) /\ slots'[to] # <<>>
      /\ Len(slots'[to]) = Len(slots[to])
  BY <1>0, <1>1, <1>2, <1>3, ProgrammedKey
<1>6. ~booting => slots'[to][1] = slots[to][1]
  <2>1. ASSUME ~booting PROVE slots'[to][1] = slots[to][1]
    <3>1. slots[to][1].key = request.key /\ request.key \in Key
      BY <1>0, <2>1 DEF AtCopyKey, Copying, Started, Requested, Asked, CopyKey
    <3>2. slots[to][Len(slots[to])].key = NoKey
      BY <1>1 DEF Half
    <3>3. Len(slots[to]) # 1
      BY <3>1, <3>2, VEepromAssumption
    <3>4. slots[to] \in Seq(Slot) /\ Len(slots[to]) \in Nat /\ Len(slots[to]) >= 1
      BY <1>0, <1>1, EmptySeq DEF SlotsOK
    <3> DEFINE m == Len(slots[to])
    <3>5. m \in Nat /\ m >= 1 /\ m # 1
      BY <3>3, <3>4
    <3> HIDE DEF m
    <3>6. 1 \in 1..m - 1
      BY <3>5
    <3>7. Keyed(slots[to], k)[1] = slots[to][1]
      BY <3>4, <3>6, <1>1, <1>2, KeyedType DEF m
    <3> QED
      BY <3>7, <1>5
  <2> QED
    BY <2>1
<1>7. Copying'
  <2>1. Moving' /\ (IF booting THEN to = 1 ELSE Started)'
    BY <1>0, <1>1, <1>3, <1>5, <1>6
       DEF AtCopyKey, Copying, Moving, Receiving, Started
  <2>2. ASSUME NEW i \in 1..n' - 1
        PROVE  Last(slots'[to'], Table[i]) = Merged(to, Table[i])'
    <3>1. i \in 1..n /\ i \in 1..Len(Table)
      BY <1>1, <1>3
    <3>2. Table[i] \in Key
      BY <3>1, TableType
    <3>3. Last(slots'[to], Table[i]) = Merged(to, Table[i])
      <4>1. CASE i = n
        BY <4>1, <1>4
      <4>2. CASE i # n
        <5>1. i \in 1..n - 1 /\ n \in 1..Len(Table)
          BY <3>1, <4>2, <1>1
        <5>2. Table[i] # k
          BY <5>1, <3>1, <4>2, VEepromAssumption
        <5>3. Last(slots[to], Table[i]) = Merged(to, Table[i])
          BY <5>1, <1>0 DEF AtCopyKey, Copying
        <5> QED
          BY <5>2, <5>3, <3>2, <1>4
      <4> QED
        BY <4>1, <4>2
    <3> QED
      BY <3>2, <3>3, <1>3, <1>4
  <2> QED
    BY <2>1, <2>2 DEF Copying
<1>8. Len(slots'[to']) <= cuts' * Len(Table) + n'
  <2>1. cuts * Len(Table) \in Nat /\ Len(slots[to]) \in Nat
    BY <1>0, CountTimes, TableType DEF IndInv, TypeInv, TypeOK
  <2> DEFINE c == cuts * Len(Table)
             m == Len(slots[to])
  <2>3. m \in Nat /\ c \in Nat /\ m <= c + n + 1
    BY <2>1, <1>1
  <2> HIDE DEF c, m
  <2>4. m <= c + (n + 1)
    BY <2>3, <1>1
  <2> QED
    BY <2>4, <1>3, <1>5 DEF c, m
<1>9. Right(to)'
  <2>1. Right(to)
    BY <1>0, <1>1 DEF Copies
  <2> QED
    BY <2>1, <1>2, <1>3, <1>4 DEF Right
<1>10. Copies'
  <2>1. PICK p \in Page : p = to
    BY <1>0
  <2>2. p' = p /\ p = to'
    BY <2>1, <1>3
  <2>3. Receiving(p)' /\ Right(p)'
    BY <2>1, <2>2, <1>1, <1>3, <1>9 DEF Receiving, Right, Merged
  <2> QED
    BY <2>3, CopiesRight
<1> QED
  BY <1>3, <1>7, <1>8, <1>10 DEF PagesOK, Control, AtCopy

LEMMA CopiedPages == ASSUME Recoverable, IndInv, Copied PROVE PagesOK'
<1>0. /\ SlotsOK /\ to \in Page /\ AtCopy /\ Copies
  BY Known DEF Control, Copied
<1>1. /\ header' = header /\ slots' = slots /\ UNCHANGED flash
      /\ UNCHANGED <<booting, to, n, request, cuts>> /\ n = Len(Table) + 1
  BY DEF Copied, flash, ram
<1>2. Moving /\ Receiving(to) /\ Len(Table) \in Nat
  BY <1>0, TableType DEF AtCopy, Copying, Moving
<1>3. Complete(to)
  <2>1. ASSUME NEW k \in Key PROVE Last(slots[to], k) = Merged(to, k)
    <3>1. PICK i \in 1..Len(Table) : Table[i] = k
      BY VEepromAssumption DEF Recoverable
    <3>2. i \in 1..n - 1
      BY <1>1, <1>2, <3>1
    <3> QED
      BY <3>1, <3>2, <1>0 DEF AtCopy, Copying
  <2> QED
    BY <2>1 DEF Complete
<1>4. Len(slots[to]) <= cuts * Len(Table) + Len(Table) + 1
  <2>1. cuts * Len(Table) \in Nat /\ Len(slots[to]) \in Nat
    BY <1>0, CountTimes, TableType DEF IndInv, TypeInv, TypeOK
  <2>2. Len(slots[to]) <= cuts * Len(Table) + n
    BY <1>0 DEF AtCopy
  <2> DEFINE c == cuts * Len(Table)
             l == Len(Table)
             m == Len(slots[to])
  <2>3. m \in Nat /\ c \in Nat /\ l \in Nat /\ m <= c + n /\ n = l + 1
    BY <2>1, <2>2, <1>1, <1>2
  <2> HIDE DEF c, l, m
  <2>4. m <= c + l + 1
    BY <2>3
  <2> QED
    BY <2>4 DEF c, l, m
<1>5. Moving' /\ Complete(to)' /\ Len(slots'[to']) <= cuts' * Len(Table) + Len(Table) + 1
  BY <1>1, <1>2, <1>3, <1>4 DEF Moving, Receiving, Complete, Merged
<1>6. Copies'
  BY <1>0, <1>1, SameCopies
<1>7. CASE booting
  <2>1. to = 1 /\ pc' = "mark" /\ booting'
    BY <1>0, <1>1, <1>7 DEF AtCopy, Copying, Copied
  <2> QED
    BY <1>1, <1>5, <1>6, <2>1 DEF PagesOK, Control, AtMark, Moving, Receiving
<1>8. CASE ~booting
  <2>1. pc' = "erase"
    BY <1>8 DEF Copied
  <2> QED
    BY <1>5, <1>6, <2>1 DEF PagesOK, Control, AtErase
<1> QED
  BY <1>7, <1>8

LEMMA EraseOldPages == ASSUME IndInv, EraseOld PROVE PagesOK'
<1>0. /\ SlotsOK /\ header \in [Page -> Status] /\ to \in Page /\ Other(to) \in Page
      /\ Other(to) # to /\ AtErase
  BY Known DEF Control, EraseOld
<1>1. Erase(Other(to)) /\ pc' = "mark" /\ to' = to
  BY DEF EraseOld, ram
<1>2. /\ header'[Other(to)] = "erased" /\ slots'[Other(to)] = <<>>
      /\ header'[to] = "receive"
  BY <1>0, <1>1, Erased DEF AtErase, Moving, Receiving
<1>3. Blank(Other(to))' /\ Alone(to)'
  BY <1>1, <1>2 DEF Blank, Alone
<1>4. Copies'
  <2>1. PICK p \in Page : p = to'
    BY <1>0, <1>1
  <2>2. Alone(p)'
    BY <1>1, <1>2, <2>1 DEF Alone
  <2> QED
    BY <2>2, NoCopies
<1> QED
  BY <1>1, <1>2, <1>3, <1>4 DEF PagesOK, Control, AtMark

LEMMA MarkPages == ASSUME IndInv, Mark PROVE PagesOK'
<1>0. /\ SlotsOK /\ header \in [Page -> Status] /\ to \in Page /\ Other(to) \in Page
      /\ Other(to) # to /\ AtMark
  BY Known DEF Control, Mark
<1>1. /\ header'[to] = "valid" /\ slots' = slots
      /\ header'[Other(to)] = header[Other(to)]
  BY <1>0, Marked DEF Mark
<1>2. CASE header[Other(to)] = "valid"
  <2>1. to = 1 /\ pc' = "clean" /\ to' = to
    BY <1>0, <1>2 DEF AtMark, Blank, Mark, ram
  <2>2. header'[0] = "valid" /\ header'[1] = "valid"
    BY <1>1, <1>2, <2>1, OtherPage
  <2>3. Copies'
    BY <2>2, OtherPage DEF Copies, Receiving, Page
  <2> QED
    BY <2>1, <2>2, <2>3 DEF PagesOK, Control, AtClean, Headers
<1>3. CASE header[Other(to)] # "valid"
  <2>1. Blank(Other(to)) /\ Return
    BY <1>0, <1>3 DEF AtMark, Moving, Receiving, Mark
  <2>2. PICK p \in Page : p = to
    BY <1>0
  <2>3. Good(p)'
    BY <1>1, <2>1, <2>2 DEF Good, Blank
  <2> QED
    BY <2>1, <2>3, GoodReturn
<1> QED
  BY <1>2, <1>3

\* What a restart finds after a cut that spared the flash.
LEMMA CutClean ==
  ASSUME Recoverable, IndInv, PowerCut, UNCHANGED flash
  PROVE  AtOff'
<1>0. /\ SlotsOK /\ header \in [Page -> Status] /\ to \in Page /\ Control
      /\ pc \in Point \ {"off"} /\ header' = header /\ slots' = slots
      /\ cuts' = cuts + 1
  BY Known DEF IndInv, TypeInv, TypeOK, PowerCut, flash
<1>1. ~Headers("receive", "valid") /\ ~Headers("valid", "valid")
  BY DEF PowerCut, Recoverable, InWindow
<1> DEFINE c == cuts * Len(Table)
           l == Len(Table)
<1>2. /\ l \in Nat /\ c \in Nat /\ n \in Nat /\ n <= l + 1
      /\ cuts' * Len(Table) = c + l
      /\ Len(slots[1]) \in Nat
  BY <1>0, CountTimes, TableType, OtherPage DEF IndInv, TypeInv, TypeOK
<1>3. ASSUME NEW p \in Page, Good(p) PROVE AtOff'
  BY <1>3, <1>0, OtherPage DEF Good, Blank, AtOff, Receiving, Headers, Page
<1>4. ASSUME Blank(0), Blank(1) PROVE AtOff'
  BY <1>4, <1>0, OtherPage DEF Blank, AtOff, Receiving, Headers
<1>5. ASSUME Receiving(to), Len(slots[to]) <= c + l + 1 PROVE AtOff'
  <2>1. to = 1
    BY <1>0, <1>1, <1>5, OtherPage DEF Receiving, Headers, Page
  <2>2. Len(slots'[1]) <= cuts' * Len(Table) + 1
    <3> DEFINE m == Len(slots[1])
    <3>1. m <= c + l + 1 /\ m \in Nat
      BY <1>2, <1>5, <2>1
    <3> HIDE DEF c, l, m
    <3>2. m <= (c + l) + 1
      BY <3>1, <1>2
    <3> QED
      BY <3>2, <1>0, <1>2 DEF m
  <2> QED
    BY <1>0, <1>5, <2>1, <2>2, OtherPage DEF Receiving, AtOff, Headers
<1>6. CASE pc \in {"ready", "key", "formatClean"}
  BY <1>0, <1>3, <1>6, OtherPage DEF Control, AtReady, AtKey, AtFormatClean
<1>7. CASE pc \in {"format", "formatMark"}
  BY <1>0, <1>4, <1>7 DEF Control, AtFormat
<1>8. CASE pc \in {"first", "firstKey", "copy", "copyKey", "erase"}
  <2>1. Receiving(to)
    BY <1>0, <1>8 DEF Control, AtFirst, AtFirstKey, AtCopy, AtCopyKey, AtErase,
       Copying, Moving
  <2>2. Len(slots[to]) <= c + l + 1
    <3> DEFINE m == Len(slots[to])
    <3>0. m \in Nat
      BY <1>0 DEF SlotsOK
    <3>1. \/ m = 0 \/ m = 1 \/ m <= c + n
          \/ n <= l /\ m <= c + n + 1
          \/ m <= c + l + 1
      <4>1. CASE pc = "first"
        BY <1>0, <4>1 DEF Control, AtFirst
      <4>2. CASE pc = "firstKey"
        <5>1. slots[to] = <<Half(request.value)>>
          BY <1>0, <4>2 DEF Control, AtFirstKey
        <5> QED
          BY <5>1
      <4>3. CASE pc = "copy"
        BY <1>0, <4>3 DEF Control, AtCopy
      <4>4. CASE pc = "copyKey"
        BY <1>0, <4>4 DEF Control, AtCopyKey
      <4>5. CASE pc = "erase"
        BY <1>0, <4>5 DEF Control, AtErase
      <4> QED
        BY <1>8, <4>1, <4>2, <4>3, <4>4, <4>5
    <3> HIDE DEF c, l, m
    <3>2. m <= c + l + 1
      BY <1>2, <3>0, <3>1
    <3> QED
      BY <3>2 DEF m
  <2> QED
    BY <1>5, <2>1, <2>2
<1>9. CASE pc = "mark"
  <2>1. AtMark
    BY <1>0, <1>9 DEF Control
  <2>2. CASE Blank(Other(to))
    BY <1>0, <2>1, <2>2, OtherPage DEF AtMark, Blank, AtOff, Receiving, Headers, Page
  <2>3. CASE ~Blank(Other(to))
    BY <1>5, <2>1, <2>3 DEF AtMark, Moving
  <2> QED
    BY <2>2, <2>3
<1>10. CASE pc = "clean"
  <2>1. Alone(to) /\ (to = 0 => slots[1] = <<>>)
    BY <1>0, <1>1, <1>10 DEF Control, AtClean
  <2> QED
    BY <1>0, <2>1, OtherPage DEF Alone, AtOff, Receiving, Headers, Page
<1> QED
  BY <1>0, <1>6, <1>7, <1>8, <1>9, <1>10 DEF Point

\* The only page whose erase can be torn is page 0.
LEMMA TornPage ==
  ASSUME Recoverable, IndInv, PowerCut, Torn
  PROVE  /\ header'[0] = "erased" /\ header'[1] = header[1] /\ header[1] # "erased"
         /\ slots' = slots
         /\ \/ pc = "erase" /\ to = 1
            \/ pc = "clean" /\ to = 1
<1>0. /\ SlotsOK /\ header \in [Page -> Status] /\ to \in Page /\ Control
  BY Known
<1>1. ~Headers("receive", "valid") /\ ~Headers("valid", "valid")
  BY DEF PowerCut, Recoverable, InWindow
<1>2. PICK p \in Page :
        /\ \/ pc = "erase" /\ p = Other(to)
           \/ pc = "clean" /\ p = Other(to) /\ ~FullyErased(p)
           \/ pc = "format" /\ p = 0 /\ ~FullyErased(p)
        /\ header' = [header EXCEPT ![p] = "erased"]
        /\ UNCHANGED slots
  BY DEF Torn
<1>3. /\ header[1] # "erased" /\ p = 0
      /\ (pc = "erase" /\ to = 1) \/ (pc = "clean" /\ to = 1)
  <2>1. CASE pc = "erase"
    <3>1. Receiving(to)
      BY <1>0, <2>1 DEF Control, AtErase, Moving
    <3>2. to = 1
      BY <1>0, <1>1, <3>1, OtherPage DEF Receiving, Headers, Page
    <3> QED
      BY <1>2, <2>1, <3>1, <3>2, OtherPage DEF Receiving
  <2>2. CASE pc = "clean"
    <3>1. p = Other(to) /\ p # 1
      BY <1>2, <2>2 DEF FullyErased
    <3>2. p = 0 /\ to = 1
      BY <1>0, <3>1, OtherPage DEF Page
    <3>3. Alone(to)
      BY <1>0, <1>1, <2>2 DEF Control, AtClean
    <3> QED
      BY <2>2, <3>2, <3>3 DEF Alone
  <2>3. CASE pc = "format"
    <3>1. FullyErased(0)
      BY <1>0, <2>3 DEF Control, AtFormat, Blank, FullyErased
    <3> QED
      BY <1>2, <2>3, <3>1
  <2> QED
    BY <1>2, <2>1, <2>2, <2>3
<1> QED
  BY <1>0, <1>2, <1>3, OtherPage

\* ... and after a cut that left the slots of a page being erased.
LEMMA CutTorn ==
  ASSUME Recoverable, IndInv, PowerCut, Torn
  PROVE  AtOff' /\ Copies'
<1>1. header'[0] = "erased" /\ header'[1] = header[1] /\ header[1] # "erased"
  BY TornPage
<1>2. AtOff'
  BY <1>1, OtherPage DEF AtOff, Receiving, Headers
<1>3. Alone(1)'
  BY <1>1, OtherPage DEF Alone
<1> QED
  BY <1>2, <1>3, OtherPage, NoCopies

LEMMA PowerCutPages == ASSUME Recoverable, IndInv, PowerCut PROVE PagesOK'
<1>1. pc' = "off"
  BY DEF PowerCut
<1>2. CASE Torn
  BY <1>1, <1>2, CutTorn DEF PagesOK, Control
<1>3. CASE UNCHANGED flash
  <2>1. AtOff'
    BY <1>3, CutClean
  <2>2. Copies'
    BY <1>3, Known, SameCopies
  <2> QED
    BY <1>1, <2>1, <2>2 DEF PagesOK, Control
<1> QED
  BY <1>2, <1>3 DEF PowerCut

-----------------------------------------------------------------------------
(***************************************************************************)
(* The theorems.                                                           *)
(***************************************************************************)
LEMMA InvInit == Init => EepromInv
<1> SUFFICES ASSUME Init PROVE EepromInv
  OBVIOUS
<1>1. /\ header[0] = "erased" /\ header[1] = "erased" /\ slots[0] = <<>>
      /\ slots[1] = <<>> /\ pc = "off" /\ booting /\ n = 1 /\ request = NoRequest
  BY OtherPage DEF Init
<1>2. ~Receiving(0) /\ ~Receiving(1)
  BY <1>1 DEF Receiving
<1>3. AtOff
  BY <1>1, <1>2 DEF AtOff
<1> QED
  BY <1>1, <1>2, <1>3
     DEF EepromInv, BootingAt, Requested, Control, Copies, Page

LEMMA InvStep == ASSUME Recoverable PROVE IndInv /\ [Next]_vars => EepromInv'
<1> SUFFICES ASSUME IndInv, [Next]_vars PROVE EepromInv'
  OBVIOUS
<1>1. CASE UNCHANGED vars
  BY <1>1 DEF vars, IndInv, EepromInv, BootingAt, Requested, Asked, Control, Copies,
     AtOff, AtReady, AtKey, AtFirst, AtFirstKey, AtCopy, AtCopyKey, Copying, AtErase,
     AtMark, AtClean, AtFormat, AtFormatClean, Good, Blank, Moving, Receiving, Alone,
     Headers, Complete, Right, Merged, Started
<1>2. CASE Next
  <2>1. Book'
    BY <1>2, BookStep
  <2>2. PagesOK'
    BY <1>2, BootPages, CleanPages, FormatPages, WritePages, WriteKeyPages,
       TransferPages, FirstPages, FirstKeyPages, CopyNothingPages, CopyPages,
       CopyKeyPages, CopiedPages, EraseOldPages, MarkPages, PowerCutPages
       DEF Next, Driver
  <2> QED
    BY <2>1, <2>2 DEF Book, PagesOK, EepromInv
<1> QED
  BY <1>1, <1>2

\* Wherever the driver is, the headers and the slots of the two pages tell a
\* restart how far it came: a cut during EE_PageTransfer, during an erase or
\* in the middle of EE_Init is recovered from, for any keys, page size and
\* number of cuts, as long as the pages have room for the copies.
THEOREM EepromInvariance == ASSUME Recoverable PROVE Spec => []EepromInv
<1>1. Init => EepromInv
  BY InvInit
<1>2. TypeInv /\ EepromInv /\ [Next]_vars => EepromInv'
  BY InvStep DEF IndInv
<1> QED
  BY <1>1, <1>2, TypeInvariance, PTL DEF Spec

\* EE_Init and every transfer leave one page with everything and the other
\* one blank, whatever was cut before.
THEOREM KnownGoodPages == ASSUME Recoverable PROVE Spec => []KnownGood
<1>1. EepromInv => KnownGood
  BY DEF EepromInv, Control, AtReady, Good, Blank, KnownGood
<1> QED
  BY <1>1, EepromInvariance, PTL

-----------------------------------------------------------------------------
(***************************************************************************)
(* A write that returns has written.                                       *)
(***************************************************************************)
\* While the other variables are copied behind it, the page that is filled
\* already answers for the variable that is written.
Answered ==
    ~booting /\ pc \in {"copy", "copyKey", "erase", "mark"}
      => Last(slots[to], request.key) = request.value

LEMMA AnsweredFirst == ASSUME IndInv, FirstKey PROVE Answered'
<1>0. /\ SlotsOK /\ header \in [Page -> Status] /\ to \in Page /\ AtFirstKey /\ Asked
  BY Known DEF Control, FirstKey, BootingAt, Requested
<1>1. WritePage = to /\ slots[to] = <<Half(request.value)>>
  BY <1>0, FindReceiving DEF AtFirstKey, Moving
<1>2. PICK p \in Page : p = to
  BY <1>0
<1>3. PICK k \in Key, v \in Value : request = [key |-> k, value |-> v]
  BY <1>0 DEF Asked
<1>4. ProgramKey(p, k) /\ slots[p] = <<Half(v)>> /\ to' = p /\ request' = request
  BY <1>1, <1>2, <1>3 DEF FirstKey, ram
<1>5. Last(slots'[p], k) = v
  BY <1>0, <1>4, MergedFirst
<1> QED
  BY <1>3, <1>4, <1>5 DEF Answered

LEMMA AnsweredCopy == ASSUME Recoverable, IndInv, Answered, Copy PROVE Answered' /\ pc' = "copyKey"
<1>0. SlotsOK /\ header \in [Page -> Status] /\ to \in Page /\ AtCopy /\ Requested
  BY Known DEF Control, Copy
<1>1. /\ Receiving(to) /\ WritePage = to /\ ReadPage = Other(to) /\ ReadPage # NoPage
      /\ n <= Len(Table) /\ Len(slots[to]) <= cuts * Len(Table) + n
  BY <1>0, FindReceiving, OtherPage, VEepromAssumption DEF AtCopy, Copying, Moving, Copy
<1>2. ~Full(to)
  BY <1>0, <1>1, RoomToCopy DEF IndInv
<1>3. ProgramValue(to, Read(Table[n])) /\ pc' = "copyKey" /\ UNCHANGED ram
  BY <1>1, <1>2 DEF Copy
<1>4. Read(Table[n]) \in Value
  BY <1>0, ReadType DEF Copy
<1>5. \A j \in Key : Last(slots'[to], j) = Last(slots[to], j)
  BY <1>0, <1>2, <1>3, <1>4, MergedHalf
<1>6. ASSUME ~booting PROVE request.key \in Key
  BY <1>0, <1>6 DEF Requested, Asked, Copy
<1> QED
  BY <1>3, <1>5, <1>6 DEF Answered, ram, Copy

LEMMA AnsweredCopyKey == ASSUME IndInv, Answered, CopyKey PROVE Answered'
<1>0. SlotsOK /\ header \in [Page -> Status] /\ to \in Page /\ AtCopyKey /\ Requested
  BY Known DEF Control, CopyKey
<1>1. PICK p \in Page : p = to
  BY <1>0
<1>2. /\ WritePage = p /\ n <= Len(Table) /\ n \in 1..Len(Table) + 1
      /\ slots[p] # <<>> /\ slots[p][1].key # Table[n]
      /\ slots[p][Len(slots[p])] = Half(Last(slots[Other(p)], Table[n]))
  BY <1>0, <1>1, FindReceiving DEF AtCopyKey, Copying, Moving, IndInv, TypeInv, TypeOK
<1>3. PICK k \in Key : k = Table[n]
  BY <1>2, TableType
<1>4. ProgramKey(p, k)
  BY <1>2, <1>3 DEF CopyKey
<1>5. \A j \in Key : j # k => Last(slots'[p], j) = Last(slots[p], j)
  BY <1>0, <1>2, <1>3, <1>4, MergedCopy
<1>6. ASSUME ~booting PROVE request.key \in Key /\ request.key # k
  BY <1>0, <1>1, <1>2, <1>3, <1>6 DEF Requested, Asked, CopyKey, AtCopyKey, Copying, Started
<1> QED
  BY <1>1, <1>5, <1>6 DEF Answered, CopyKey

LEMMA AnsweredStep == ASSUME Recoverable, IndInv, Answered, [Next]_vars PROVE Answered'
<1>0. BootingAt /\ header \in [Page -> Status] /\ to \in Page /\ Other(to) \in Page /\ Other(to) # to
      /\ SlotsOK
  BY Known
<1>1. CASE UNCHANGED vars
  BY <1>1 DEF Answered, vars
<1>2. CASE Boot \/ PowerCut
  BY <1>0, <1>2 DEF Answered, Boot, PowerCut, BootingAt
<1>3. CASE Clean
  BY <1>0, <1>3 DEF Answered, Clean, Return, BootingAt, ram
<1>4. CASE Format \/ FormatMark \/ FormatClean \/ Write \/ WriteKey \/ Transfer \/ First
  BY <1>4 DEF Answered, Format, FormatMark, FormatClean, Write, WriteKey, Transfer, First, Return
<1>5. CASE FirstKey
  BY <1>5, AnsweredFirst
<1>6. CASE CopyNothing
  BY <1>6 DEF Answered, CopyNothing, flash
<1>7. CASE Copy
  BY <1>7, AnsweredCopy
<1>8. CASE CopyKey
  BY <1>8, AnsweredCopyKey
<1>9. CASE Copied
  BY <1>9 DEF Answered, Copied, flash, ram
<1>10. CASE EraseOld
  <2>1. slots'[to] = slots[to]
    BY <1>0, <1>10 DEF EraseOld, Erase, SlotsOK
  <2> QED
    BY <1>10, <2>1 DEF Answered, EraseOld, ram
<1>11. CASE Mark
  BY <1>11 DEF Answered, Mark, Return, ram
<1> QED
  BY <1>1, <1>2, <1>3, <1>4, <1>5, <1>6, <1>7, <1>8, <1>9, <1>10, <1>11 DEF Next, Driver

\* What the last step of a write leaves: the page for reading answers with the
\* value.
WriteReturns ==
    pc # "ready" /\ ~booting /\ pc' = "ready"
      => \A k \in Key, v \in Value : request = [key |-> k, value |-> v] => Read(k)' = v

\* A good page is the one that is read.
LEMMA ReadsGood ==
  ASSUME NEW p \in Page, Good(p)', NEW k
  PROVE  Read(k)' = Last(slots'[p], k)
<1>1. header'[p] = "valid" /\ header'[Other(p)] = "erased"
  BY DEF Good, Blank
<1>2. ReadPage' = p
  BY <1>1, OtherPage DEF ReadPage, Page
<1>3. p # NoPage
  BY VEepromAssumption
<1> QED
  BY <1>2, <1>3 DEF Read

LEMMA WriteKeyReturns == ASSUME IndInv, WriteKey PROVE WriteReturns
<1>0. SlotsOK /\ header \in [Page -> Status] /\ AtKey /\ Requested /\ BootingAt
  BY Known DEF Control, WriteKey
<1>1. PICK p \in Page : Good(p) /\ slots[p] # <<>> /\ slots[p][Len(slots[p])] = Half(request.value)
  BY <1>0 DEF AtKey
<1>2. SUFFICES ASSUME NEW k \in Key, NEW v \in Value, request = [key |-> k, value |-> v]
               PROVE  Read(k)' = v
  BY DEF WriteReturns
<1>3. ProgramKey(p, k)
  BY <1>1, <1>2, FindGood DEF WriteKey
<1>4. slots'[p] = Keyed(slots[p], k) /\ slots[p] \in Seq(Slot)
  BY <1>0, <1>1, <1>3, ProgrammedKey DEF SlotsOK
<1>5. slots[p][Len(slots[p])].key = NoKey /\ slots[p][Len(slots[p])].value = v
  BY <1>1, <1>2 DEF Half
<1>6. Last(slots'[p], k) = v
  BY <1>1, <1>4, <1>5, LastKeyed
<1>7. Good(p)'
  <2>1. Other(p) \in Page /\ Other(p) # p
    BY OtherPage
  <2>2. header' = header /\ slots'[Other(p)] = slots[Other(p)]
    BY <1>0, <1>3, <2>1 DEF ProgramKey, SlotsOK
  <2> QED
    BY <1>1, <2>2 DEF Good, Blank
<1> QED
  BY <1>6, <1>7, ReadsGood

LEMMA MarkReturns == ASSUME IndInv, Answered, Mark PROVE WriteReturns
<1>0. /\ SlotsOK /\ header \in [Page -> Status] /\ to \in Page /\ Other(to) \in Page
      /\ Other(to) # to /\ AtMark
  BY Known DEF Control, Mark
<1>1. SUFFICES ASSUME ~booting, NEW k \in Key, NEW v \in Value, request = [key |-> k, value |-> v]
               PROVE  Read(k)' = v
  BY DEF WriteReturns
<1>2. PICK p \in Page : p = to
  BY <1>0
<1>3. Last(slots[p], k) = v
  BY <1>1, <1>2 DEF Answered, Mark
<1>4. /\ header'[p] = "valid" /\ slots' = slots
      /\ header'[Other(p)] = header[Other(p)]
  BY <1>0, <1>2, Marked DEF Mark
<1>5. Blank(Other(p))
  BY <1>0, <1>1, <1>2 DEF AtMark
<1>6. Good(p)'
  BY <1>4, <1>5 DEF Good, Blank
<1> QED
  BY <1>3, <1>4, <1>6, ReadsGood

LEMMA StepReturns == ASSUME Recoverable, IndInv, Answered, [Next]_vars PROVE WriteReturns
<1>0. BootingAt
  BY Known
<1>1. CASE UNCHANGED vars
  BY <1>1 DEF WriteReturns, vars
<1>2. CASE Boot \/ PowerCut
  BY <1>2 DEF WriteReturns, Boot, PowerCut
<1>3. CASE Clean \/ Format \/ FormatMark \/ FormatClean
  BY <1>0, <1>3 DEF WriteReturns, Clean, Format, FormatMark, FormatClean, BootingAt
<1>4. CASE Write \/ Transfer
  BY <1>4 DEF WriteReturns, Write, Transfer
<1>5. CASE WriteKey
  BY <1>5, WriteKeyReturns
<1>6. CASE First
  <2>1. pc' = "firstKey"
    <3>1. AtFirst /\ header \in [Page -> Status] /\ to \in Page
      BY <1>6, Known DEF Control, First
    <3>2. WritePage = to /\ slots[to] = <<>>
      BY <3>1, FindReceiving DEF AtFirst, Moving
    <3>3. ~Full(WritePage)
      BY <3>2, VEepromAssumption DEF Full
    <3> QED
      BY <1>6, <3>3 DEF First
  <2> QED
    BY <2>1 DEF WriteReturns
<1>7. CASE FirstKey \/ CopyNothing \/ CopyKey \/ Copied \/ EraseOld
  BY <1>7 DEF WriteReturns, FirstKey, CopyNothing, CopyKey, Copied, EraseOld
<1>8. CASE Copy
  BY <1>8, AnsweredCopy DEF WriteReturns
<1>9. CASE Mark
  BY <1>9, MarkReturns
<1> QED
  BY <1>1, <1>2, <1>3, <1>4, <1>5, <1>6, <1>7, <1>8, <1>9 DEF Next, Driver

\* A write that returns, from a page with room or after a transfer of any
\* number of variables, is read back: EE_WriteVariable returns only after the
\* key is programmed, and none of the copies that follow it hides it.
THEOREM WrittenIsRead == ASSUME Recoverable PROVE Spec => ReadBack
<1>1. Init => Answered
  BY DEF Init, Answered
<1>2. TypeInv /\ EepromInv /\ Answered /\ [Next]_vars => Answered'
  BY AnsweredStep DEF IndInv
<1>3. TypeInv /\ EepromInv /\ Answered /\ [Next]_vars
      => [pc # "ready" /\ ~booting /\ pc' = "ready"
            => \A k \in Key, v \in Value :
                 request = [key |-> k, value |-> v] => Read(k)' = v]_vars
  BY StepReturns DEF IndInv, WriteReturns
<1> QED
  BY <1>1, <1>2, <1>3, TypeInvariance, EepromInvariance, PTL DEF Spec, ReadBack

-----------------------------------------------------------------------------
(***************************************************************************)
(* What is stored: every step is a step of SettingsStore or a stutter.     *)
(***************************************************************************)
Implements == [Settings!Next]_<<store, request>>

Kept == \A k \in Key : Held(k)' = Held(k)

LEMMA KeptStore == ASSUME Kept PROVE store' = store
  BY DEF Kept, store

LEMMA Stutters == ASSUME Kept, request' = request PROVE Implements
  BY KeptStore DEF Implements

LEMMA Ends == ASSUME Kept, request' = NoRequest PROVE Implements
  BY KeptStore DEF Implements, Settings!Next, Settings!End

LEMMA Asks ==
  ASSUME Kept, request = NoRequest, Asked'
  PROVE  Implements
  BY KeptStore DEF Implements, Asked, Settings!Next, Settings!Ask

LEMMA TakesEffect ==
  ASSUME Asked, request' \in {request, NoRequest},
         \A k \in Key :
           Held(k)' = IF k = request.key THEN request.value ELSE Held(k)
  PROVE  Implements
<1>1. request # NoRequest
  BY VEepromAssumption DEF Asked, NoRequest
<1>2. store' = [store EXCEPT ![request.key] = request.value]
  BY DEF store
<1> QED
  BY <1>1, <1>2 DEF Implements, Settings!Next, Settings!TakeEffect

\* A step that keeps an alone page, or one that receives, keeps all of it.
LEMMA AloneKept ==
  ASSUME NEW p \in Page, Alone(p), Alone(p)',
         \A k \in Key : Last(slots'[p], k) = Last(slots[p], k)
  PROVE  Kept
  BY HeldAlone, HeldAloneNext DEF Kept

LEMMA ReceivingKept ==
  ASSUME NEW p \in Page, Receiving(p), Receiving(p)',
         \A k \in Key : Merged(p, k)' = Merged(p, k)
  PROVE  Kept
  BY HeldReceiving, HeldReceivingNext DEF Kept

\* The page that was filled holds everything, and the other one is dropped.
LEMMA CompleteKept ==
  ASSUME NEW p \in Page, Receiving(p), Complete(p), Alone(p)', slots'[p] = slots[p]
  PROVE  Kept
  BY HeldReceiving, HeldAloneNext DEF Kept, Complete

LEMMA HeldNowhere ==
  /\ Headers("erased", "erased") /\ pc # "clean" => \A k : Held(k) = NoValue
  /\ Headers("erased", "erased")' /\ pc' # "clean" => \A k : Held(k)' = NoValue
  BY OtherPage DEF Headers, Held, Alone, Receiving

LEMMA HeldBetween ==
  /\ Headers("valid", "valid") /\ pc = "clean" =>
       \A k : Held(k) = Last(slots[to], k)
  /\ Headers("valid", "valid")' /\ pc' = "clean" =>
       \A k : Held(k)' = Last(slots'[to'], k)
  BY OtherPage DEF Headers, Held, Alone, Receiving

LEMMA BootImplements == ASSUME IndInv, IndInv', Boot PROVE Implements
<1>0. header' = header /\ slots' = slots /\ request' = request
  BY DEF Boot, flash
<1>1. AtOff /\ to' \in Page
  BY Known, OtherPage DEF Control, Boot
<1>2. CASE pc' = "clean"
  <2>1. PICK p \in Page : header[p] # "erased" /\ header[Other(p)] = "erased"
    BY <1>2 DEF Boot
  <2>2. Alone(p) /\ Alone(p)'
    BY <2>1, <1>0 DEF Alone
  <2> QED
    BY <2>2, <1>0, AloneKept, Stutters
<1>3. CASE pc' = "copy"
  <2>1. PICK p \in Page : Receiving(p)
    BY <1>3 DEF Boot, Receiving
  <2>2. Receiving(p)' /\ \A k \in Key : Merged(p, k)' = Merged(p, k)
    BY <2>1, <1>0 DEF Receiving, Merged
  <2> QED
    BY <2>1, <2>2, <1>0, ReceivingKept, Stutters
<1>4. CASE pc' = "format"
  <2>1. header[0] = header[1] /\ pc # "clean" /\ pc' # "clean"
    BY <1>4 DEF Boot
  <2>2. Headers("erased", "erased") /\ Headers("erased", "erased")'
    BY <2>1, <1>0, <1>1 DEF AtOff, Headers
  <2>3. Kept
    BY <2>1, <2>2, HeldNowhere DEF Kept
  <2> QED
    BY <2>3, <1>0, Stutters
<1> QED
  BY <1>2, <1>3, <1>4 DEF Boot

LEMMA CleanImplements == ASSUME IndInv, Clean PROVE Implements
<1>0. /\ SlotsOK /\ header \in [Page -> Status] /\ to \in Page
      /\ Other(to) \in Page /\ Other(to) # to /\ Other(Other(to)) = to
      /\ AtClean
  BY Known DEF Control, Clean
<1>1. /\ header'[Other(to)] = "erased"
      /\ header'[to] = header[to] /\ header[to] # "erased"
      /\ slots'[to] = slots[to]
  <2>1. CASE FullyErased(Other(to))
    BY <2>1, <1>0, OtherPage DEF Clean, flash, AtClean, Alone, FullyErased, Headers, Page
  <2>2. CASE ~FullyErased(Other(to))
    BY <2>2, <1>0, Erased DEF Clean, AtClean, Alone, Headers, Page
  <2> QED
    BY <2>1, <2>2
<1>2. PICK p \in Page : p = to
  BY <1>0
<1>3. Alone(p)'
  BY <1>1, <1>2 DEF Alone
<1>4. Kept
  <2>1. CASE Alone(to)
    BY <2>1, <1>1, <1>2, <1>3, AloneKept
  <2>2. CASE ~Alone(to)
    <3>1. \A k \in Key : Held(k) = Last(slots[to], k)
      BY <2>2, <1>0, HeldBetween DEF AtClean, Clean
    <3> QED
      BY <3>1, <1>1, <1>2, <1>3, HeldAloneNext DEF Kept
  <2> QED
    BY <2>1, <2>2
<1>5. request' = request \/ request' = NoRequest
  BY DEF Clean, ram, Return
<1> QED
  BY <1>4, <1>5, Stutters, Ends

LEMMA FormatImplements ==
  ASSUME IndInv, Format \/ FormatMark \/ FormatClean
  PROVE  Implements
<1>0. SlotsOK /\ header \in [Page -> Status] /\ Control
  BY Known
<1>1. CASE Format
  <2>1. AtFormat
    BY <1>0, <1>1 DEF Control, Format
  <2>2. header' = header /\ slots' = slots /\ request' = request
        /\ pc # "clean" /\ pc' # "clean"
    BY <1>1, <2>1 DEF Format, FullyErased, AtFormat, Blank, flash, ram
  <2>3. Headers("erased", "erased") /\ Headers("erased", "erased")'
    BY <2>1, <2>2 DEF AtFormat, Blank, Headers
  <2> QED
    BY <2>2, <2>3, HeldNowhere, Stutters DEF Kept
<1>2. CASE FormatMark
  <2>1. AtFormat /\ MarkPage(0, "valid") /\ pc # "clean" /\ request' = request
    BY <1>0, <1>2 DEF Control, FormatMark, ram
  <2>2. header'[0] = "valid" /\ header'[1] = "erased" /\ slots' = slots
    BY <2>1, <1>0, OtherPage, Marked DEF AtFormat, Blank
  <2>3. Headers("erased", "erased") /\ slots'[0] = <<>>
    BY <2>1, <2>2 DEF AtFormat, Blank, Headers
  <2>4. Alone(0)'
    BY <2>2, OtherPage DEF Alone
  <2>5. Kept
    BY <2>1, <2>3, <2>4, OtherPage, HeldNowhere, HeldAloneNext, LastOfBlank DEF Kept
  <2> QED
    BY <2>1, <2>5, Stutters
<1>3. CASE FormatClean
  <2>1. Good(0) /\ request' = NoRequest /\ FullyErased(1)
    BY <1>0, <1>3 DEF Control, FormatClean, AtFormatClean, FullyErased, Return
  <2>2. header' = header /\ slots' = slots
    BY <1>3, <2>1 DEF FormatClean, flash
  <2>3. Alone(0) /\ Alone(0)'
    BY <2>1, <2>2 DEF Good, Blank, Alone
  <2> QED
    BY <2>1, <2>2, <2>3, OtherPage, AloneKept, Ends
<1> QED
  BY <1>1, <1>2, <1>3

LEMMA WriteImplements == ASSUME IndInv, Write PROVE Implements
<1>0. SlotsOK /\ header \in [Page -> Status] /\ AtReady /\ request = NoRequest
  BY Known DEF Control, Write, Requested
<1>1. PICK p \in Page : Good(p)
  BY <1>0 DEF AtReady
<1>2. WritePage = p /\ ~Full(p)
  BY <1>1, FindGood DEF Write
<1>3. PICK k \in Key, v \in Value :
        request' = [key |-> k, value |-> v] /\ ProgramValue(p, v)
  BY <1>2 DEF Write
<1>4. Asked' /\ header' = header
  BY <1>3 DEF Asked, ProgramValue
<1>5. Alone(p) /\ Alone(p)'
  BY <1>1, <1>4 DEF Good, Blank, Alone
<1>6. \A j \in Key : Last(slots'[p], j) = Last(slots[p], j)
  BY <1>0, <1>2, <1>3, MergedHalf
<1> QED
  BY <1>0, <1>4, <1>5, <1>6, AloneKept, Asks

LEMMA WriteKeyImplements == ASSUME IndInv, WriteKey PROVE Implements
<1>0. SlotsOK /\ header \in [Page -> Status] /\ AtKey /\ Asked
  BY Known DEF Control, WriteKey, BootingAt, Requested
<1>1. PICK p \in Page : /\ Good(p) /\ slots[p] # <<>>
                        /\ slots[p][Len(slots[p])] = Half(request.value)
  BY <1>0 DEF AtKey
<1>2. /\ request.key \in Key /\ ProgramKey(p, request.key)
      /\ request' = NoRequest /\ header' = header
  BY <1>0, <1>1, FindGood DEF WriteKey, Asked, Return, ProgramKey
<1>3. slots'[p] = Keyed(slots[p], request.key)
  BY <1>0, <1>1, <1>2, ProgrammedKey
<1>4. Alone(p) /\ Alone(p)'
  BY <1>1, <1>2 DEF Good, Blank, Alone
<1>5. /\ slots[p] \in Seq(Slot) /\ slots[p][Len(slots[p])].key = NoKey
      /\ slots[p][Len(slots[p])].value = request.value
  BY <1>0, <1>1 DEF SlotsOK, Half
<1>6. ASSUME NEW k \in Key
      PROVE  Held(k)' = IF k = request.key THEN request.value ELSE Held(k)
  <2>1. Held(k) = Last(slots[p], k) /\ Held(k)' = Last(slots'[p], k)
    BY <1>4, HeldAlone, HeldAloneNext
  <2> QED
    BY <2>1, <1>1, <1>2, <1>3, <1>5, LastKeyed
<1> QED
  BY <1>0, <1>2, <1>6, TakesEffect

LEMMA TransferImplements == ASSUME IndInv, Transfer PROVE Implements
<1>0. SlotsOK /\ header \in [Page -> Status] /\ AtReady /\ request = NoRequest
  BY Known DEF Control, Transfer, Requested
<1>1. PICK p \in Page : Good(p)
  BY <1>0 DEF AtReady
<1>2. MarkPage(Other(p), "receive") /\ Asked'
  BY <1>1, FindGood DEF Transfer, Asked
<1>3. /\ header'[Other(p)] = "receive" /\ header'[p] = "valid"
      /\ slots' = slots /\ slots[Other(p)] = <<>>
      /\ Other(p) \in Page /\ Other(Other(p)) = p
  BY <1>0, <1>1, <1>2, OtherPage, Marked DEF Good, Blank
<1>4. Alone(p) /\ Receiving(Other(p))'
  BY <1>1, <1>3 DEF Good, Blank, Alone, Receiving
<1>5. ASSUME NEW k \in Key PROVE Held(k)' = Held(k)
  <2>1. Held(k) = Last(slots[p], k)
    BY <1>4, HeldAlone
  <2>2. Held(k)' = Merged(Other(p), k)'
    BY <1>3, <1>4, HeldReceivingNext
  <2>3. Merged(Other(p), k)' = Last(slots[p], k)
    BY <1>3 DEF Merged
  <2> QED
    BY <2>1, <2>2, <2>3
<1> QED
  BY <1>0, <1>2, <1>5, Asks DEF Kept

LEMMA FirstImplements == ASSUME IndInv, First PROVE Implements
<1>0. SlotsOK /\ to \in Page /\ AtFirst /\ Asked
  BY Known DEF Control, First, BootingAt, Requested
<1>1. PICK p \in Page : p = to
  BY <1>0
<1>2. WritePage = p /\ Receiving(p) /\ slots[p] = <<>>
  BY <1>0, <1>1, FindReceiving DEF AtFirst, Moving
<1>3. ~Full(p)
  BY <1>2, VEepromAssumption DEF Full
<1>4. /\ ProgramValue(p, request.value) /\ request.value \in Value
      /\ request' = request /\ header' = header
  BY <1>0, <1>2, <1>3 DEF First, ram, ProgramValue, Asked
<1>5. Receiving(p)' /\ \A k \in Key : Merged(p, k)' = Merged(p, k)
  BY <1>0, <1>2, <1>3, <1>4, MergedHalf DEF Receiving
<1> QED
  BY <1>2, <1>4, <1>5, ReceivingKept, Stutters

LEMMA FirstKeyImplements == ASSUME IndInv, FirstKey PROVE Implements
<1>0. SlotsOK /\ to \in Page /\ AtFirstKey /\ Asked
  BY Known DEF Control, FirstKey, BootingAt, Requested
<1>1. PICK p \in Page : p = to
  BY <1>0
<1>2. WritePage = p /\ Receiving(p) /\ slots[p] = <<Half(request.value)>>
  BY <1>0, <1>1, FindReceiving DEF AtFirstKey, Moving
<1>3. PICK k \in Key, v \in Value : k = request.key /\ v = request.value
  BY <1>0 DEF Asked
<1>4. ProgramKey(p, k) /\ request' = request /\ header' = header
  BY <1>2, <1>3 DEF FirstKey, ram, ProgramKey
<1>5. /\ \A j \in Key : Merged(p, j) = Last(slots[Other(p)], j)
      /\ \A j \in Key :
           Merged(p, j)' = IF j = k THEN v ELSE Last(slots[Other(p)], j)
  BY <1>0, <1>2, <1>3, <1>4, MergedFirst
<1>6. Receiving(p)'
  BY <1>2, <1>4 DEF Receiving
<1>7. ASSUME NEW j \in Key
      PROVE  Held(j)' = IF j = request.key THEN request.value ELSE Held(j)
  <2>1. Held(j) = Merged(p, j) /\ Held(j)' = Merged(p, j)'
    BY <1>2, <1>6, HeldReceiving, HeldReceivingNext
  <2> QED
    BY <2>1, <1>3, <1>5
<1> QED
  BY <1>0, <1>4, <1>7, TakesEffect

LEMMA CopyImplements ==
  ASSUME Recoverable, IndInv, Copy \/ CopyKey \/ CopyNothing \/ Copied
  PROVE  Implements
<1>0. SlotsOK /\ to \in Page /\ Control
  BY Known
<1>1. PICK p \in Page : p = to
  BY <1>0
<1>2. Receiving(p) /\ WritePage = p /\ ReadPage = Other(p)
  BY <1>0, <1>1, FindReceiving
     DEF Control, AtCopy, AtCopyKey, Copying, Moving, Copy, CopyKey, CopyNothing, Copied
<1>3. CASE CopyNothing \/ Copied
  <2>1. header' = header /\ slots' = slots /\ request' = request
    BY <1>3 DEF CopyNothing, Copied, flash, ram
  <2>2. Receiving(p)' /\ \A k \in Key : Merged(p, k)' = Merged(p, k)
    BY <1>2, <2>1 DEF Receiving, Merged
  <2> QED
    BY <1>2, <2>1, <2>2, ReceivingKept, Stutters
<1>4. CASE Copy
  <2>1. AtCopy /\ n <= Len(Table) /\ n \in 1..Len(Table) + 1
    BY <1>0, <1>4 DEF Control, Copy, IndInv, TypeInv, TypeOK
  <2>2. ~Full(p)
    BY <1>1, <2>1, RoomToCopy DEF IndInv, AtCopy
  <2>3. PICK v \in Value : ProgramValue(p, v)
    <3>1. SlotsOK /\ Read(Table[n]) \in Value \cup {NoValue}
      BY <1>0, ReadType
    <3> QED
      BY <1>2, <1>4, <2>2, <3>1 DEF Copy
  <2>4. Receiving(p)' /\ \A k \in Key : Merged(p, k)' = Merged(p, k)
    BY <1>0, <1>2, <2>2, <2>3, MergedHalf DEF Receiving, ProgramValue
  <2>5. request' = request
    BY <1>2, <1>4, <2>2 DEF Copy, ram
  <2> QED
    BY <1>2, <2>4, <2>5, ReceivingKept, Stutters
<1>5. CASE CopyKey
  <2>1. AtCopyKey /\ n \in 1..Len(Table) + 1
    BY <1>0, <1>5 DEF Control, CopyKey, IndInv, TypeInv, TypeOK
  <2>2. PICK k \in Key : k = Table[n]
    BY <2>1, TableType DEF AtCopyKey
  <2>3. /\ slots[p] # <<>> /\ slots[p][1].key # k
        /\ slots[p][Len(slots[p])] = Half(Last(slots[Other(p)], k))
    BY <1>1, <2>1, <2>2 DEF AtCopyKey
  <2>4. ProgramKey(p, k) /\ request' = request /\ header' = header
    BY <1>2, <1>5, <2>2 DEF CopyKey, ProgramKey
  <2>5. Receiving(p)' /\ \A j \in Key : Merged(p, j)' = Merged(p, j)
    BY <1>0, <1>2, <2>3, <2>4, MergedCopy DEF Receiving
  <2> QED
    BY <1>2, <2>4, <2>5, ReceivingKept, Stutters
<1> QED
  BY <1>3, <1>4, <1>5

LEMMA EraseOldImplements == ASSUME IndInv, EraseOld PROVE Implements
<1>0. /\ SlotsOK /\ header \in [Page -> Status] /\ to \in Page /\ Other(to) \in Page
      /\ Other(to) # to /\ AtErase
  BY Known DEF Control, EraseOld
<1>1. PICK p \in Page : p = to
  BY <1>0
<1>2. Receiving(p) /\ Complete(p)
  BY <1>0, <1>1 DEF AtErase, Moving, Complete
<1>3. /\ header'[Other(p)] = "erased" /\ header'[p] = header[p]
      /\ slots'[p] = slots[p] /\ request' = request
  BY <1>0, <1>1, Erased DEF EraseOld, ram
<1>4. Alone(p)'
  BY <1>2, <1>3 DEF Receiving, Alone
<1> QED
  BY <1>2, <1>3, <1>4, CompleteKept, Stutters

LEMMA MarkImplements == ASSUME IndInv, Mark PROVE Implements
<1>0. /\ SlotsOK /\ header \in [Page -> Status] /\ to \in Page /\ Other(to) \in Page
      /\ Other(to) # to /\ AtMark
  BY Known DEF Control, Mark
<1>1. /\ header'[to] = "valid" /\ slots' = slots
      /\ header'[Other(to)] = header[Other(to)]
  BY <1>0, Marked DEF Mark
<1>2. request' = request \/ request' = NoRequest
  BY DEF Mark, ram, Return
<1>3. CASE header[Other(to)] = "valid"
  <2>1. to = 1 /\ pc' = "clean" /\ to' = 1 /\ Receiving(1) /\ Complete(1)
    BY <1>0, <1>3 DEF AtMark, Blank, Moving, Complete, Mark, ram
  <2>2. Headers("valid", "valid")'
    BY <1>1, <1>3, <2>1, OtherPage DEF Headers
  <2>3. \A k \in Key : Held(k) = Last(slots[1], k)
    BY <2>1, OtherPage, HeldReceiving DEF Complete
  <2>4. \A k \in Key : Held(k)' = Last(slots[1], k)
    BY <1>1, <2>1, <2>2, HeldBetween
  <2> QED
    BY <1>2, <2>3, <2>4, Stutters, Ends DEF Kept
<1>4. CASE header[Other(to)] # "valid"
  <2>1. Blank(Other(to))
    BY <1>0, <1>4 DEF AtMark, Moving, Receiving
  <2>2. PICK p \in Page : p = to
    BY <1>0
  <2>3. Alone(p) /\ Alone(p)'
    BY <1>0, <1>1, <2>1, <2>2 DEF AtMark, Blank, Alone
  <2> QED
    BY <1>1, <1>2, <2>3, AloneKept, Stutters, Ends
<1> QED
  BY <1>3, <1>4

LEMMA PowerCutImplements ==
  ASSUME Recoverable, IndInv, IndInv', PowerCut
  PROVE  Implements
<1>0. SlotsOK /\ header \in [Page -> Status] /\ to \in Page /\ Control
  BY Known
<1>1. ~Headers("receive", "valid") /\ ~Headers("valid", "valid")
      /\ request' = NoRequest /\ pc' # "clean"
  BY DEF PowerCut, Recoverable, InWindow
<1>2. CASE UNCHANGED flash
  <2>1. header' = header /\ slots' = slots
    BY <1>2 DEF flash
  <2>2. CASE pc = "clean"
    <3>1. PICK p \in Page : p = to
      BY <1>0
    <3>2. Alone(p) /\ Alone(p)'
      BY <1>0, <1>1, <2>1, <2>2, <3>1 DEF Control, AtClean, Alone
    <3> QED
      BY <1>1, <2>1, <3>2, AloneKept, Ends
  <2>3. CASE pc # "clean"
    <3>1. Kept
      BY <2>1, <2>3, <1>1 DEF Kept, Held, Alone, Receiving, Merged
    <3> QED
      BY <1>1, <3>1, Ends
  <2> QED
    BY <2>2, <2>3
<1>3. CASE Torn
  <2>1. /\ header'[0] = "erased" /\ header'[1] = header[1] /\ header[1] # "erased"
        /\ slots' = slots
        /\ \/ pc = "erase" /\ to = 1
           \/ pc = "clean" /\ to = 1
    BY <1>3, TornPage
  <2>2. Alone(1)'
    BY <2>1, OtherPage DEF Alone
  <2>3. CASE pc = "erase"
    <3>1. Receiving(1) /\ Complete(1)
      BY <1>0, <2>1, <2>3 DEF Control, AtErase, Moving, Complete
    <3> QED
      BY <1>1, <2>1, <2>2, <3>1, OtherPage, CompleteKept, Ends
  <2>4. CASE pc = "clean"
    <3>1. Alone(1)
      BY <1>0, <1>1, <2>1, <2>4 DEF Control, AtClean
    <3> QED
      BY <1>1, <2>1, <2>2, <3>1, OtherPage, AloneKept, Ends
  <2> QED
    BY <2>1, <2>3, <2>4
<1> QED
  BY <1>2, <1>3 DEF PowerCut

\* The two pages implement the store of settings: every write takes effect in
\* a single step or not at all, and neither transfers nor power cuts nor
\* recoveries change a stored value, for any keys, values, page size and
\* number of cuts, as long as the pages have room for the copies.
THEOREM EepromRefinement == ASSUME Recoverable PROVE Spec => StoreSpec
<1>1. Init => Settings!Init
  <2> SUFFICES ASSUME Init PROVE Settings!Init
    OBVIOUS
  <2>1. Headers("erased", "erased") /\ pc # "clean" /\ request = NoRequest
    BY OtherPage DEF Init, Headers
  <2>2. store = [k \in Key |-> NoValue]
    BY <2>1, HeldNowhere DEF store
  <2> QED
    BY <2>1, <2>2 DEF Settings!Init
<1>2. TypeInv /\ EepromInv /\ TypeInv' /\ EepromInv' /\ [Next]_vars
        => [Settings!Next]_<<store, request>>
  <2> SUFFICES ASSUME IndInv, IndInv', [Next]_vars PROVE Implements
    BY DEF IndInv, Implements
  <2>1. CASE UNCHANGED vars
    <3>1. UNCHANGED <<store, request>>
      BY <2>1 DEF vars, store, Held, Alone, Receiving, Merged
    <3> QED
      BY <3>1 DEF Implements
  <2>2. CASE Next
    BY <2>2, BootImplements, CleanImplements, FormatImplements, WriteImplements,
       WriteKeyImplements, TransferImplements, FirstImplements, FirstKeyImplements,
       CopyImplements, EraseOldImplements, MarkImplements, PowerCutImplements
       DEF Next, Driver
  <2> QED
    BY <2>1, <2>2
<1> QED
  BY <1>1, <1>2, TypeInvariance, EepromInvariance, PTL DEF Spec, StoreSpec, Settings!Spec
=============================================================================
