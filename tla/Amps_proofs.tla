----------------------------- MODULE Amps_proofs -----------------------------
(***************************************************************************)
(* Amps: what a program leaves in each place that it writes to, whatever   *)
(* it finds there, and that the last to write to a place has written what  *)
(* the settings ask for.                                                   *)
(***************************************************************************)
EXTENDS Amps, Integers, SequenceTheorems, TLAPS

\* The places: the registers, the two fields of each DEVICE_CTRL_2, the pin.
Pin == <<"pin", "pin">>
MuteBit == {<<"woofer", "mute">>, <<"tweeter", "mute">>}
StateBits == {<<"woofer", "state">>, <<"tweeter", "state">>}
Places == {<<"reg", r>> : r \in Registers} \cup MuteBit \cup StateBits \cup {Pin}
Holds(k) == IF k[1] = "reg" THEN reg[k[2]] ELSE ctrl[k[1]][k[2]]

\* What an operation writes to, and what it leaves there.
Touches(op, k) ==
    \/ op.kind = "write" /\ op.register # "ctrl" /\ k = <<"reg", op.register>>
    \/ op.kind = "write" /\ op.register = "ctrl" /\ k \in {<<op.chip, "state">>, <<op.chip, "mute">>}
    \/ op.kind = "state" /\ k = <<op.chip, "state">>
    \/ op.kind = "mute" /\ k = <<op.chip, "mute">>
    \/ op.kind = "enable" /\ k = Pin
Writes(op, k) ==
    IF op.kind = "write" /\ op.register = "ctrl" THEN IF k[2] = "state" THEN "play" ELSE "unmuted" ELSE op.value

\* A load writes a place once at most, or the same again.
LoadSpares(l, k) == \A j \in 1..Len(l) : ~Touches(l[j], k)
LoadLeaves(l, k, v) ==
    /\ \E j \in 1..Len(l) : Touches(l[j], k)
    /\ \A j \in 1..Len(l) : Touches(l[j], k) => Writes(l[j], k) = v

Spares(p, k) == \A i \in 1..Len(p) : LoadSpares(p[i], k)
Leaves(p, k, v) == \E i \in 1..Len(p) : LoadLeaves(p[i], k, v) /\ \A m \in i + 1..Len(p) : LoadSpares(p[m], k)
\* A program that finds a in the place k has b there in the end.
Turns(p, k, a, b) == Leaves(p, k, b) \/ (Spares(p, k) /\ a = b)

\* What the settings ask for in a place: e is the eco mode, x and y are bass
\* and treble, t the tones set since the eco mode was switched.
WantedBy(e, x, y, t, k) ==
    IF k \in StateBits THEN "play"
    ELSE IF k = <<"reg", "bassEq">> THEN IF e /\ "bassEq" \notin t THEN "0dB" ELSE x
    ELSE IF k = <<"reg", "trebleEq">> THEN IF e /\ "trebleEq" \notin t THEN "0dB" ELSE y
    ELSE IF k[2] \in {"program", "path", "bypassEq", "gpio", "misc"} THEN "normal"
    ELSE IF e THEN "eco" ELSE "normal"
Wanted(k) == WantedBy(eco, bass, treble, tuned, k)
Followed == ({<<"reg", r>> : r \in Registers} \ {<<"reg", "right">>}) \cup StateBits
Normal == profile = "normal" /\ ~ampFailed /\ ~raced

BluetoothInv ==
    /\ Spares(ampTodo["Bluetooth"], Pin)
    /\ ampPower = "preOn" \/ profile = "normal" =>
          /\ \A k \in Places \ MuteBit : Spares(ampTodo["Bluetooth"], k)
          /\ \A k \in MuteBit : Turns(ampTodo["Bluetooth"], k, "unmuted", "unmuted")
AudioInv ==
    ampPower = "on" =>
        /\ Spares(ampTodo["Audio"], Pin)
        /\ Normal => \A k \in Followed : Turns(ampTodo["Audio"], k, Holds(k), Wanted(k))
MuteInv ==
    ampPower = "on" /\ Normal =>
        \A k \in MuteBit : /\ Turns(ampTodo["Audio"], k, "unmuted", "unmuted")
                           /\ (\A t \in Callers : Spares(ampTodo[t], k)) => Holds(k) = "unmuted"

Names == Registers \cup {"ctrl", ""}
Written == Values \cup {"", "hiZ", "play", "muted", "unmuted", "on", "off"}
Kinds == {"select", "read", "write", "state", "mute", "enable"}
Fits(kind, register, value) ==
    /\ kind = "write" => register # "" /\ (register # "ctrl" => value \in Values)
    /\ kind = "state" => value \in {"hiZ", "play"}
    /\ kind = "mute" => value \in {"muted", "unmuted"}
Ops ==
    {op \in [chip : Chips, page : Pages, kind : Kinds, register : Names, value : Written] :
        Fits(op.kind, op.register, op.value)}
Loads == {l \in Seq(Ops) : Len(l) > 0}
Programs == Seq(Loads)
TodoOK == ampTodo \in [Callers -> Programs]

AmpInv == AmpTypeOK /\ TodoOK /\ BluetoothInv /\ AudioInv /\ MuteInv
-----------------------------------------------------------------------------
LEMMA TurnsOne ==
  ASSUME NEW p, NEW k, NEW v, NEW w, Leaves(p, k, v)
  PROVE  /\ ~Spares(p, k)
         /\ Leaves(p, k, w) => v = w
<1>1. PICK i \in 1..Len(p) : LoadLeaves(p[i], k, v) /\ \A m \in i + 1..Len(p) : LoadSpares(p[m], k)
  BY DEF Leaves
<1>2. ~LoadSpares(p[i], k)
  BY <1>1 DEF LoadLeaves, LoadSpares
<1>3. ASSUME Leaves(p, k, w) PROVE v = w
  <2>1. PICK j \in 1..Len(p) : LoadLeaves(p[j], k, w) /\ \A m \in j + 1..Len(p) : LoadSpares(p[m], k)
    BY <1>3 DEF Leaves
  <2>2. ~LoadSpares(p[j], k)
    BY <2>1 DEF LoadLeaves, LoadSpares
  <2>3. i \in Int /\ j \in Int
    OBVIOUS
  <2>4. i = j
    <3>1. i < j => j \in i + 1..Len(p)
      BY <2>3
    <3>2. j < i => i \in j + 1..Len(p)
      BY <2>3
    <3> QED
      BY <1>1, <1>2, <2>1, <2>2, <2>3, <3>1, <3>2
  <2> QED
    BY <1>1, <2>1, <2>4 DEF LoadLeaves
<1> QED
  BY <1>2, <1>3 DEF Spares

\* A program that hands on what it finds, whatever that is, does not write.
LEMMA TurnsNothing ==
  ASSUME NEW p, NEW k, Turns(p, k, 1, 1), Turns(p, k, 2, 2)
  PROVE  Spares(p, k)
  BY TurnsOne DEF Turns

LEMMA EmptyProgram ==
  ASSUME NEW k, NEW a
  PROVE  <<>> \in Programs /\ Spares(<<>>, k) /\ Turns(<<>>, k, a, a)
  BY DEF Programs, Spares, Turns

\* One program after another.
LEMMA Joined ==
  ASSUME NEW p \in Programs, NEW q \in Programs
  PROVE  /\ p \o q \in Programs /\ Len(p \o q) = Len(p) + Len(q) /\ Len(p) \in Nat /\ Len(q) \in Nat
         /\ \A i \in 1..Len(p) : i \in 1..Len(p \o q) /\ (p \o q)[i] = p[i]
         /\ \A m \in 1..Len(p \o q) : m \notin 1..Len(p) => m - Len(p) \in 1..Len(q) /\ (p \o q)[m] = q[m - Len(p)]
         /\ \A i \in 1..Len(q) : Len(p) + i \in 1..Len(p \o q) /\ (p \o q)[Len(p) + i] = q[i]
<1> DEFINE r == p \o q
<1>1. /\ r \in Programs /\ Len(r) = Len(p) + Len(q) /\ Len(p) \in Nat /\ Len(q) \in Nat
      /\ \A i \in 1..Len(p) : r[i] = p[i]
      /\ \A i \in 1..Len(q) : r[Len(p) + i] = q[i]
  BY DEF Programs
<1> HIDE DEF r
<1>2. \A m \in 1..Len(r) : m \notin 1..Len(p) => m - Len(p) \in 1..Len(q) /\ r[m] = q[m - Len(p)]
  <2> SUFFICES ASSUME NEW m \in 1..Len(r), m \notin 1..Len(p) PROVE m - Len(p) \in 1..Len(q) /\ r[m] = q[m - Len(p)]
    OBVIOUS
  <2>1. m - Len(p) \in 1..Len(q) /\ Len(p) + (m - Len(p)) = m
    BY <1>1
  <2> QED
    BY <1>1, <2>1
<1>3. \A i \in 1..Len(p) : i \in 1..Len(r)
  BY <1>1
<1>4. \A i \in 1..Len(q) : Len(p) + i \in 1..Len(r)
  BY <1>1
<1> QED
  BY <1>1, <1>2, <1>3, <1>4 DEF r

LEMMA ComposeSpares ==
  ASSUME NEW p \in Programs, NEW q \in Programs, NEW k
  PROVE  Spares(p \o q, k) <=> Spares(p, k) /\ Spares(q, k)
<1> DEFINE r == p \o q
<1>1. /\ \A i \in 1..Len(p) : i \in 1..Len(r) /\ r[i] = p[i]
      /\ \A m \in 1..Len(r) : m \notin 1..Len(p) => m - Len(p) \in 1..Len(q) /\ r[m] = q[m - Len(p)]
      /\ \A i \in 1..Len(q) : Len(p) + i \in 1..Len(r) /\ r[Len(p) + i] = q[i]
  BY Joined
<1> HIDE DEF r
<1>2. Spares(r, k) <=> Spares(p, k) /\ Spares(q, k)
  BY <1>1 DEF Spares
<1> QED
  BY <1>2 DEF r

\* What the second leaves is left.
LEMMA ComposeLeaves ==
  ASSUME NEW p \in Programs, NEW q \in Programs, NEW k, NEW c, Leaves(q, k, c)
  PROVE  Leaves(p \o q, k, c)
<1> DEFINE r == p \o q
<1>1. /\ Len(r) = Len(p) + Len(q) /\ Len(p) \in Nat /\ Len(q) \in Nat
      /\ \A m \in 1..Len(r) : m \notin 1..Len(p) => m - Len(p) \in 1..Len(q) /\ r[m] = q[m - Len(p)]
      /\ \A i \in 1..Len(q) : Len(p) + i \in 1..Len(r) /\ r[Len(p) + i] = q[i]
  BY Joined
<1> HIDE DEF r
<1>2. PICK i \in 1..Len(q) : LoadLeaves(q[i], k, c) /\ \A m \in i + 1..Len(q) : LoadSpares(q[m], k)
  BY DEF Leaves
<1>3. Len(p) + i \in 1..Len(r) /\ LoadLeaves(r[Len(p) + i], k, c)
  BY <1>1, <1>2
<1>4. ASSUME NEW m \in Len(p) + i + 1..Len(r) PROVE LoadSpares(r[m], k)
  <2>1. m \in 1..Len(r) /\ m \notin 1..Len(p) /\ m - Len(p) \in i + 1..Len(q)
    BY <1>1
  <2> QED
    BY <1>1, <1>2, <2>1
<1> QED
  BY <1>1, <1>3, <1>4 DEF Leaves, r

LEMMA Compose ==
  ASSUME NEW p \in Programs, NEW q \in Programs, NEW k, NEW a, NEW b, NEW c,
         Turns(p, k, a, b), Turns(q, k, b, c)
  PROVE  Turns(p \o q, k, a, c)
<1>1. CASE Leaves(q, k, c)
  BY <1>1, ComposeLeaves DEF Turns
<1>2. CASE Spares(q, k) /\ b = c /\ Leaves(p, k, b)
  <2> DEFINE r == p \o q
  <2>1. /\ Len(r) = Len(p) + Len(q) /\ Len(p) \in Nat /\ Len(q) \in Nat
        /\ \A i \in 1..Len(p) : i \in 1..Len(r) /\ r[i] = p[i]
        /\ \A m \in 1..Len(r) : m \notin 1..Len(p) => m - Len(p) \in 1..Len(q) /\ r[m] = q[m - Len(p)]
    BY Joined
  <2> HIDE DEF r
  <2>2. PICK i \in 1..Len(p) : LoadLeaves(p[i], k, b) /\ \A m \in i + 1..Len(p) : LoadSpares(p[m], k)
    BY <1>2 DEF Leaves
  <2>3. i \in 1..Len(r) /\ LoadLeaves(r[i], k, c)
    BY <1>2, <2>1, <2>2
  <2>4. ASSUME NEW m \in i + 1..Len(r) PROVE LoadSpares(r[m], k)
    <3>1. CASE m \in 1..Len(p)
      <4>1. m \in i + 1..Len(p)
        BY <2>1, <3>1
      <4> QED
        BY <2>1, <2>2, <3>1, <4>1
    <3>2. CASE m \notin 1..Len(p)
      <4>1. m \in 1..Len(r)
        BY <2>1
      <4> QED
        BY <1>2, <2>1, <3>2, <4>1 DEF Spares
    <3> QED
      BY <3>1, <3>2
  <2> QED
    BY <2>1, <2>3, <2>4 DEF Turns, Leaves, r
<1>3. CASE Spares(q, k) /\ b = c /\ Spares(p, k) /\ a = b
  BY <1>3, ComposeSpares DEF Turns
<1> QED
  BY <1>1, <1>2, <1>3 DEF Turns

\* One load.
LEMMA OneLoad ==
  ASSUME NEW l \in Loads, NEW k, NEW a, NEW b,
         LoadLeaves(l, k, b) \/ (LoadSpares(l, k) /\ a = b)
  PROVE  <<l>> \in Programs /\ Turns(<<l>>, k, a, b)
<1> DEFINE p == <<l>>
<1>1. p \in Programs /\ Len(p) = 1 /\ p[1] = l
  BY DEF Programs
<1> HIDE DEF p
<1>2. CASE LoadLeaves(l, k, b)
  <2>1. 1 \in 1..Len(p) /\ LoadLeaves(p[1], k, b) /\ \A m \in 1 + 1..Len(p) : LoadSpares(p[m], k)
    BY <1>1, <1>2
  <2> QED
    BY <1>1, <2>1 DEF Turns, Leaves, p
<1>3. CASE LoadSpares(l, k) /\ a = b
  <2>1. \A i \in 1..Len(p) : LoadSpares(p[i], k)
    BY <1>1, <1>3
  <2> QED
    BY <1>1, <1>3, <2>1 DEF Turns, Spares, p
<1> QED
  BY <1>2, <1>3
-----------------------------------------------------------------------------
\* The operations, and what each writes to.
OpCtrl(op) == op.kind = "write" /\ op.register = "ctrl"

LEMMA ReadsTouchNothing ==
  ASSUME NEW op, NEW k, op.kind \in {"select", "read"}
  PROVE  ~Touches(op, k)
  BY DEF Touches

Bits(bits, value) == (bits = "state" /\ value \in {"hiZ", "play"}) \/ (bits = "mute" /\ value \in {"muted", "unmuted"})

LEMMA ModifyLoad ==
  ASSUME NEW chip \in Chips, NEW bits, NEW value, Bits(bits, value)
  PROVE  /\ Modify(chip, bits, value) \in Loads
         /\ \A k : k # <<chip, bits>> => LoadSpares(Modify(chip, bits, value), k)
         /\ LoadLeaves(Modify(chip, bits, value), <<chip, bits>>, value)
<1> DEFINE o1 == Op(chip, "control", "select", "", "")
           o2 == Op(chip, "control", "read", "", "")
           o3 == Op(chip, "control", bits, "", value)
           l == <<o1, o2, o3>>
<1>0. /\ "control" \in Pages /\ "" \in Names /\ "" \in Written /\ value \in Written
      /\ "select" \in Kinds /\ "read" \in Kinds /\ bits \in Kinds
      /\ Fits("select", "", "") /\ Fits("read", "", "") /\ Fits(bits, "", value)
  BY DEF Kinds, Bits, Written, Pages, Names, Fits
<1>e. o1 = Op(chip, "control", "select", "", "") /\ o2 = Op(chip, "control", "read", "", "") /\ o3 = Op(chip, "control", bits, "", value)
  OBVIOUS
<1> HIDE DEF o1, o2, o3
<1>1. o1 \in Ops /\ o1.kind = "select"
  BY <1>0, <1>e DEF Op, Ops
<1>2. o2 \in Ops /\ o2.kind = "read"
  BY <1>0, <1>e DEF Op, Ops
<1>3. o3 \in Ops /\ o3.kind = bits /\ o3.chip = chip /\ o3.value = value
  BY <1>0, <1>e DEF Op, Ops
<1>4. l = Modify(chip, bits, value)
  BY <1>e DEF Modify
<1>5. l \in Loads /\ Len(l) = 3 /\ l[1] = o1 /\ l[2] = o2 /\ l[3] = o3
  BY <1>1, <1>2, <1>3 DEF Loads
<1> HIDE DEF l
<1>6. \A j \in 1..Len(l) : j = 1 \/ j = 2 \/ j = 3
  BY <1>5
<1>7. \A k : ~Touches(l[1], k) /\ ~Touches(l[2], k)
  BY <1>1, <1>2, <1>5, ReadsTouchNothing
<1>8. \A k : Touches(l[3], k) <=> k = <<chip, bits>>
  BY <1>3, <1>5 DEF Touches, Bits
<1>9. Writes(l[3], <<chip, bits>>) = value
  BY <1>3, <1>5 DEF Writes, Bits
<1>10. \A k : k # <<chip, bits>> => LoadSpares(l, k)
  BY <1>6, <1>7, <1>8 DEF LoadSpares
<1>11. LoadLeaves(l, <<chip, bits>>, value)
  <2>1. 3 \in 1..Len(l)
    BY <1>5
  <2> QED
    BY <2>1, <1>6, <1>7, <1>8, <1>9 DEF LoadLeaves
<1> QED
  BY <1>4, <1>5, <1>10, <1>11

AfterModify(chip, bits, value, k, a) == IF k = <<chip, bits>> THEN value ELSE a

LEMMA ModifyTurns ==
  ASSUME NEW chip \in Chips, NEW bits, NEW value, Bits(bits, value), NEW k, NEW a
  PROVE  /\ <<Modify(chip, bits, value)>> \in Programs
         /\ Turns(<<Modify(chip, bits, value)>>, k, a, AfterModify(chip, bits, value, k, a))
<1> DEFINE l == Modify(chip, bits, value)
           b == AfterModify(chip, bits, value, k, a)
<1>1. l \in Loads
  BY ModifyLoad
<1>2. LoadLeaves(l, k, b) \/ (LoadSpares(l, k) /\ a = b)
  BY ModifyLoad DEF AfterModify
<1> HIDE DEF l, b
<1>3. <<l>> \in Programs /\ Turns(<<l>>, k, a, b)
  BY <1>1, <1>2, OneLoad
<1> QED
  BY <1>3 DEF l, b

\* A table.
Entries ==
    {e \in Pages \X (Registers \cup {"ctrl"}) \X Written : e[2] # "ctrl" => e[3] \in Values}
EntryTouches(chip, e, k) ==
    IF e[2] = "ctrl" THEN k = <<chip, "state">> \/ k = <<chip, "mute">> ELSE k = <<"reg", e[2]>>
EntryWrites(e, k) == IF e[2] = "ctrl" THEN IF k[2] = "state" THEN "play" ELSE "unmuted" ELSE e[3]
TableTurns(chip, E, k, a, b) ==
    \/ (\A e \in E : ~EntryTouches(chip, e, k)) /\ a = b
    \/ (\E e \in E : EntryTouches(chip, e, k)) /\ \A e \in E : EntryTouches(chip, e, k) => EntryWrites(e, k) = b
\* The entries of es are those of the set E.
Lists(es, E) == es \in Seq(Entries) /\ E = {es[i] : i \in 1..Len(es)}

LEMMA EntryOp ==
  ASSUME NEW chip \in Chips, NEW e \in Entries
  PROVE  /\ Op(chip, e[1], "select", "", "") \in Ops
         /\ Op(chip, e[1], "write", e[2], e[3]) \in Ops
         /\ \A k : ~Touches(Op(chip, e[1], "select", "", ""), k)
         /\ \A k : Touches(Op(chip, e[1], "write", e[2], e[3]), k) <=> EntryTouches(chip, e, k)
         /\ \A k : Writes(Op(chip, e[1], "write", e[2], e[3]), k) = EntryWrites(e, k)
<1>0. e[1] \in Pages /\ e[2] \in Registers \cup {"ctrl"} /\ e[3] \in Written /\ (e[2] # "ctrl" => e[3] \in Values)
  BY DEF Entries
<1> DEFINE o1 == Op(chip, e[1], "select", "", "")
           o2 == Op(chip, e[1], "write", e[2], e[3])
<1>2. "" \notin Registers \cup {"ctrl"}
  BY DEF Registers
<1>e. o1 = Op(chip, e[1], "select", "", "") /\ o2 = Op(chip, e[1], "write", e[2], e[3]) /\ "select" \in Kinds /\ "write" \in Kinds /\ "" \in Written /\ "" \in Names
      /\ Fits("select", "", "") /\ Fits("write", e[2], e[3]) /\ e[2] \in Names /\ e[1] \in Pages
  BY <1>0, <1>2 DEF Kinds, Written, Names, Fits, Pages
<1> HIDE DEF o1, o2
<1>1. o1 \in Ops /\ o1.kind = "select"
  BY <1>0, <1>e DEF Op, Ops
<1>3. o2 \in Ops /\ o2.chip = chip /\ o2.kind = "write" /\ o2.register = e[2] /\ o2.value = e[3]
  BY <1>0, <1>2, <1>e DEF Op, Ops
<1>4. \A k : ~Touches(o1, k)
  BY <1>1, ReadsTouchNothing
<1>5. \A k : Touches(o2, k) <=> EntryTouches(chip, e, k)
  BY <1>3 DEF Touches, EntryTouches
<1>6. \A k : Writes(o2, k) = EntryWrites(e, k)
  BY <1>3 DEF Writes, EntryWrites
<1> QED
  BY <1>1, <1>3, <1>4, <1>5, <1>6 DEF o1, o2

LEMMA TableLoad ==
  ASSUME NEW chip \in Chips, NEW es, NEW E, Lists(es, E), Len(es) > 0, NEW k, NEW a, NEW b,
         TableTurns(chip, E, k, a, b)
  PROVE  /\ << ConfigTable(chip, es) >> \in Programs
         /\ Turns(<< ConfigTable(chip, es) >>, k, a, b)
<1>0. es \in Seq(Entries) /\ E = {es[i] : i \in 1..Len(es)} /\ Len(es) \in Nat
  BY DEF Lists
<1> DEFINE n == Len(es)
           first(e) == Op(chip, e[1], "select", "", "")
           second(e) == Op(chip, e[1], "write", e[2], e[3])
           l == [i \in 1..2 * n |-> IF i % 2 = 1 THEN first(es[(i + 1) \div 2]) ELSE second(es[(i + 1) \div 2])]
<1>1. l = ConfigTable(chip, es)
  BY DEF ConfigTable
<1>2. \A i \in 1..n : es[i] \in Entries
  BY <1>0
<1>3. \A e \in Entries : /\ first(e) \in Ops /\ second(e) \in Ops
                         /\ ~Touches(first(e), k)
                         /\ Touches(second(e), k) <=> EntryTouches(chip, e, k)
                         /\ Writes(second(e), k) = EntryWrites(e, k)
  BY EntryOp
<1> HIDE DEF first, second
<1>4. \A i \in 1..2 * n : (i + 1) \div 2 \in 1..n
  BY <1>0
<1>5. l \in Seq(Ops) /\ Len(l) = 2 * n
  <2>1. \A i \in 1..2 * n : l[i] \in Ops
    BY <1>2, <1>3, <1>4
  <2>2. l \in [1..2 * n -> Ops]
    BY <2>1
  <2>3. 2 * n \in Nat
    BY <1>0
  <2> HIDE DEF l
  <2> QED
    BY <2>2, <2>3
<1>6. l \in Loads
  BY <1>0, <1>5 DEF Loads
<1>7. \A i \in 1..Len(l) : IF i % 2 = 1 THEN l[i] = first(es[(i + 1) \div 2]) ELSE l[i] = second(es[(i + 1) \div 2])
  BY <1>5
<1> HIDE DEF l
<1>8. \A j \in 1..Len(l) : Touches(l[j], k) => /\ EntryTouches(chip, es[(j + 1) \div 2], k)
                                               /\ Writes(l[j], k) = EntryWrites(es[(j + 1) \div 2], k)
                                               /\ es[(j + 1) \div 2] \in E
  <2> TAKE j \in 1..Len(l)
  <2>1. (j + 1) \div 2 \in 1..n
    BY <1>4, <1>5
  <2>2. es[(j + 1) \div 2] \in Entries /\ es[(j + 1) \div 2] \in E
    BY <1>0, <1>2, <2>1
  <2> QED
    BY <1>3, <1>7, <2>2
<1>9. ASSUME NEW e \in E, EntryTouches(chip, e, k) PROVE \E j \in 1..Len(l) : Touches(l[j], k)
  <2>1. PICK i \in 1..n : e = es[i]
    BY <1>0
  <2>2. i \in Nat /\ 2 * i \in 1..Len(l) /\ (2 * i) % 2 # 1 /\ (2 * i + 1) \div 2 = i
    BY <1>0, <1>5
  <2>3. l[2 * i] = second(es[i])
    BY <1>7, <2>2
  <2>4. Touches(l[2 * i], k)
    BY <1>2, <1>3, <1>9, <2>1, <2>3
  <2> QED
    BY <2>2, <2>4
<1>10. CASE (\A e \in E : ~EntryTouches(chip, e, k)) /\ a = b
  <2>1. LoadSpares(l, k)
    BY <1>8, <1>10 DEF LoadSpares
  <2> QED
    BY <1>1, <1>6, <1>10, <2>1, OneLoad
<1>11. CASE (\E e \in E : EntryTouches(chip, e, k)) /\ \A e \in E : EntryTouches(chip, e, k) => EntryWrites(e, k) = b
  <2>1. LoadLeaves(l, k, b)
    BY <1>8, <1>9, <1>11 DEF LoadLeaves
  <2> QED
    BY <1>1, <1>6, <2>1, OneLoad
<1> QED
  BY <1>10, <1>11 DEF TableTurns
-----------------------------------------------------------------------------
\* One operation of a program.
LEMMA TailOf ==
  ASSUME NEW S, NEW s \in Seq(S), s # <<>>
  PROVE  /\ Tail(s) \in Seq(S) /\ Len(s) \in Nat /\ Len(s) > 0 /\ Len(Tail(s)) = Len(s) - 1
         /\ \A i \in 1..Len(Tail(s)) : i + 1 \in 1..Len(s) /\ Tail(s)[i] = s[i + 1]
         /\ \A i \in 1..Len(s) : i # 1 => i - 1 \in 1..Len(Tail(s)) /\ s[i] = Tail(s)[i - 1]
         /\ 1 \in 1..Len(s) /\ s[1] \in S
<1>1. Tail(s) \in Seq(S) /\ Len(s) \in Nat /\ Len(s) > 0 /\ Len(Tail(s)) = Len(s) - 1
  OBVIOUS
<1>2. \A i \in 1..Len(Tail(s)) : i + 1 \in 1..Len(s) /\ Tail(s)[i] = s[i + 1]
  BY <1>1
<1>3. ASSUME NEW i \in 1..Len(s), i # 1 PROVE i - 1 \in 1..Len(Tail(s)) /\ s[i] = Tail(s)[i - 1]
  <2>1. i - 1 \in 1..Len(Tail(s)) /\ (i - 1) + 1 = i
    BY <1>1, <1>3
  <2> QED
    BY <1>2, <2>1
<1> QED
  BY <1>1, <1>2, <1>3

LEMMA LoadTail ==
  ASSUME NEW l \in Loads, NEW k, NEW b
  PROVE  /\ Len(l) # 1 => Tail(l) \in Loads
         /\ Len(l) = 1 => LoadSpares(Tail(l), k)
         /\ LoadSpares(l, k) <=> ~Touches(l[1], k) /\ LoadSpares(Tail(l), k)
         /\ LoadLeaves(l, k, b) => /\ Touches(l[1], k) => Writes(l[1], k) = b
                                   /\ \/ LoadLeaves(Tail(l), k, b)
                                      \/ LoadSpares(Tail(l), k) /\ Touches(l[1], k)
<1>0. l \in Seq(Ops) /\ l # <<>>
  BY DEF Loads
<1> DEFINE s == Tail(l)
<1>1. /\ s \in Seq(Ops) /\ Len(l) \in Nat /\ Len(l) > 0 /\ Len(s) = Len(l) - 1
      /\ \A i \in 1..Len(s) : i + 1 \in 1..Len(l) /\ s[i] = l[i + 1]
      /\ \A i \in 1..Len(l) : i # 1 => i - 1 \in 1..Len(s) /\ l[i] = s[i - 1]
      /\ 1 \in 1..Len(l)
  BY <1>0, TailOf
<1> HIDE DEF s
<1>2. Len(l) # 1 => s \in Loads
  BY <1>1 DEF Loads
<1>3. Len(l) = 1 => LoadSpares(s, k)
  BY <1>1 DEF LoadSpares
<1>4. LoadSpares(l, k) <=> ~Touches(l[1], k) /\ LoadSpares(s, k)
  BY <1>1 DEF LoadSpares
<1>5. ASSUME LoadLeaves(l, k, b)
      PROVE  /\ Touches(l[1], k) => Writes(l[1], k) = b
             /\ LoadLeaves(s, k, b) \/ (LoadSpares(s, k) /\ Touches(l[1], k))
  <2>1. Touches(l[1], k) => Writes(l[1], k) = b
    BY <1>1, <1>5 DEF LoadLeaves
  <2>2. \A j \in 1..Len(s) : Touches(s[j], k) => Writes(s[j], k) = b
    BY <1>1, <1>5 DEF LoadLeaves
  <2>3. CASE \E j \in 1..Len(s) : Touches(s[j], k)
    BY <2>1, <2>2, <2>3 DEF LoadLeaves
  <2>4. CASE \A j \in 1..Len(s) : ~Touches(s[j], k)
    <3>1. LoadSpares(s, k)
      BY <2>4 DEF LoadSpares
    <3>2. PICK j \in 1..Len(l) : Touches(l[j], k)
      BY <1>5 DEF LoadLeaves
    <3>3. j = 1
      BY <1>1, <2>4, <3>2
    <3> QED
      BY <2>1, <3>1, <3>2, <3>3
  <2> QED
    BY <2>3, <2>4
<1> QED
  BY <1>2, <1>3, <1>4, <1>5 DEF s

\* What is left of a program after one operation.
Rest(p) == (IF Len(p[1]) = 1 THEN <<>> ELSE <<Tail(p[1])>>) \o Tail(p)

LEMMA RestTurns ==
  ASSUME NEW p \in Programs, p # <<>>, NEW k
  PROVE  /\ Rest(p) \in Programs /\ p[1][1] \in Ops
         /\ Spares(p, k) <=> ~Touches(p[1][1], k) /\ Spares(Rest(p), k)
         /\ \A a, b : Turns(p, k, a, b) =>
               /\ Touches(p[1][1], k) => Turns(Rest(p), k, Writes(p[1][1], k), b)
               /\ ~Touches(p[1][1], k) => Turns(Rest(p), k, a, b)
<1> DEFINE l == p[1]
           s == Tail(p)
           q == IF Len(l) = 1 THEN <<>> ELSE <<Tail(l)>>
<1>1. /\ s \in Programs /\ Len(p) \in Nat /\ Len(p) > 0 /\ Len(s) = Len(p) - 1
      /\ \A i \in 1..Len(s) : i + 1 \in 1..Len(p) /\ s[i] = p[i + 1]
      /\ \A i \in 1..Len(p) : i # 1 => i - 1 \in 1..Len(s) /\ p[i] = s[i - 1]
      /\ 1 \in 1..Len(p) /\ l \in Loads
  BY TailOf DEF Programs
<1>2. l \in Seq(Ops) /\ Len(l) > 0
  BY <1>1 DEF Loads
<1>3. l[1] \in Ops
  BY <1>2
<1>4. q \in Programs
  BY <1>1, LoadTail DEF Programs
<1>5. Rest(p) = q \o s
  BY DEF Rest
<1>6. p[1] = l
  OBVIOUS
<1>7. Len(l) = 1 => q = <<>> /\ LoadSpares(Tail(l), k)
  BY <1>1, LoadTail
<1>8. Len(l) # 1 => q = <<Tail(l)>> /\ Tail(l) \in Loads
  BY <1>1, LoadTail
<1> HIDE DEF l, s, q
<1>9. \A b : LoadLeaves(Tail(l), k, b) => Leaves(q, k, b)
  <2> TAKE b
  <2>1. HAVE LoadLeaves(Tail(l), k, b)
  <2>2. ~LoadSpares(Tail(l), k)
    BY <2>1 DEF LoadLeaves, LoadSpares
  <2>3. Len(q) = 1 /\ q[1] = Tail(l)
    BY <1>7, <1>8, <2>2
  <2>4. 1 \in 1..Len(q) /\ \A m \in 1 + 1..Len(q) : LoadSpares(q[m], k)
    BY <2>3
  <2> QED
    BY <2>1, <2>3, <2>4 DEF Leaves
<1>10. LoadSpares(Tail(l), k) <=> Spares(q, k)
  <2>1. CASE Len(l) = 1
    BY <1>7, <2>1 DEF Spares
  <2>2. CASE Len(l) # 1
    <3>1. Len(q) = 1 /\ q[1] = Tail(l)
      BY <1>8, <2>2
    <3>2. 1 \in 1..Len(q) /\ \A i \in 1..Len(q) : i = 1
      BY <3>1
    <3> HIDE DEF Rest
    <3> QED
      BY <3>1, <3>2 DEF Spares
  <2> QED
    BY <2>1, <2>2
<1>11. Spares(p, k) <=> LoadSpares(l, k) /\ Spares(s, k)
  BY <1>1, <1>6 DEF Spares
<1>12. Spares(q \o s, k) <=> Spares(q, k) /\ Spares(s, k)
  BY <1>1, <1>4, ComposeSpares
<1>13. Spares(p, k) <=> ~Touches(l[1], k) /\ Spares(q \o s, k)
  BY <1>1, <1>10, <1>11, <1>12, LoadTail
<1>14. ASSUME NEW a, NEW b, Turns(p, k, a, b)
       PROVE  /\ Touches(l[1], k) => Turns(q \o s, k, Writes(l[1], k), b)
              /\ ~Touches(l[1], k) => Turns(q \o s, k, a, b)
  <2>1. CASE Spares(p, k) /\ a = b
    BY <1>13, <2>1 DEF Turns
  <2>2. CASE Leaves(p, k, b)
    <3>1. PICK i \in 1..Len(p) : LoadLeaves(p[i], k, b) /\ \A m \in i + 1..Len(p) : LoadSpares(p[m], k)
      BY <2>2 DEF Leaves
    <3>2. CASE i # 1
      <4>1. i - 1 \in 1..Len(s) /\ LoadLeaves(s[i - 1], k, b)
        BY <1>1, <3>1, <3>2
      <4>2. ASSUME NEW m \in (i - 1) + 1..Len(s) PROVE LoadSpares(s[m], k)
        <5>1. m \in 1..Len(s) /\ m + 1 \in i + 1..Len(p)
          BY <1>1, <4>1
        <5> QED
          BY <1>1, <3>1, <5>1
      <4>3. Leaves(s, k, b)
        BY <4>1, <4>2 DEF Leaves
      <4> QED
        BY <1>1, <1>4, <4>3, ComposeLeaves DEF Turns
    <3>3. CASE i = 1
      <4>1. Spares(s, k)
        <5> SUFFICES ASSUME NEW m \in 1..Len(s) PROVE LoadSpares(s[m], k)
          BY DEF Spares
        <5>1. m + 1 \in i + 1..Len(p)
          BY <1>1, <3>3
        <5> QED
          BY <1>1, <3>1, <5>1
      <4>2. LoadLeaves(l, k, b)
        BY <1>6, <3>1, <3>3
      <4>3. /\ Touches(l[1], k) => Writes(l[1], k) = b
            /\ LoadLeaves(Tail(l), k, b) \/ (LoadSpares(Tail(l), k) /\ Touches(l[1], k))
        BY <1>1, <4>2, LoadTail
      <4>4. Turns(s, k, b, b)
        BY <4>1 DEF Turns
      <4>5. CASE LoadLeaves(Tail(l), k, b)
        <5>1. \A c : Turns(q, k, c, b)
          BY <1>9, <4>5 DEF Turns
        <5>2. \A c : Turns(q \o s, k, c, b)
          BY <1>1, <1>4, <4>4, <5>1, Compose
        <5> QED
          BY <5>2
      <4>6. CASE LoadSpares(Tail(l), k) /\ Touches(l[1], k)
        <5>1. Turns(q, k, b, b)
          BY <1>10, <4>6 DEF Turns
        <5>2. Turns(q \o s, k, b, b)
          BY <1>1, <1>4, <4>4, <5>1, Compose
        <5> QED
          BY <4>3, <4>6, <5>2
      <4> QED
        BY <4>3, <4>5, <4>6
    <3> QED
      BY <3>2, <3>3
  <2> QED
    BY <1>14, <2>1, <2>2 DEF Turns
<1>15. q \o s \in Programs
  BY <1>1, <1>4 DEF Programs
<1> QED
  BY <1>3, <1>5, <1>6, <1>13, <1>14, <1>15
-----------------------------------------------------------------------------
\* The tables.
LEMMA PlaceCases ==
  ASSUME NEW k \in Places
  PROVE  \/ \E r \in Registers : k = <<"reg", r>>
         \/ \E c \in Chips : k = <<c, "state">> \/ k = <<c, "mute">>
         \/ k = Pin
  BY DEF Places, MuteBit, StateBits, Chips

LEMMA EntryAt ==
  ASSUME NEW chip \in Chips, NEW p, NEW n, NEW v
  PROVE  /\ \A r \in Registers : /\ EntryTouches(chip, <<p, n, v>>, <<"reg", r>>) <=> n = r
                                 /\ n = r => EntryWrites(<<p, n, v>>, <<"reg", r>>) = v
         /\ \A c \in Chips : /\ EntryTouches(chip, <<p, n, v>>, <<c, "state">>) <=> n = "ctrl" /\ c = chip
                             /\ EntryTouches(chip, <<p, n, v>>, <<c, "mute">>) <=> n = "ctrl" /\ c = chip
                             /\ n = "ctrl" => /\ EntryWrites(<<p, n, v>>, <<c, "state">>) = "play"
                                              /\ EntryWrites(<<p, n, v>>, <<c, "mute">>) = "unmuted"
         /\ ~EntryTouches(chip, <<p, n, v>>, Pin)
<1>1. "ctrl" \notin Registers /\ "reg" \notin Chips /\ "pin" \notin Chips
  BY DEF Registers, Chips
<1>2. <<p, n, v>>[2] = n /\ <<p, n, v>>[3] = v
  OBVIOUS
<1> QED
  BY <1>1, <1>2 DEF EntryTouches, EntryWrites, Pin

LEMMA JoinLists ==
  ASSUME NEW s, NEW t, NEW E, NEW F, Lists(s, E), Lists(t, F)
  PROVE  Lists(s \o t, E \cup F) /\ Len(s \o t) = Len(s) + Len(t)
<1> DEFINE u == s \o t
<1>1. s \in Seq(Entries) /\ t \in Seq(Entries) /\ E = {s[i] : i \in 1..Len(s)} /\ F = {t[i] : i \in 1..Len(t)}
  BY DEF Lists
<1>2. /\ u \in Seq(Entries) /\ Len(u) = Len(s) + Len(t) /\ Len(s) \in Nat /\ Len(t) \in Nat
      /\ \A i \in 1..Len(s) : u[i] = s[i]
      /\ \A i \in 1..Len(t) : u[Len(s) + i] = t[i]
  BY <1>1
<1> HIDE DEF u
<1>3. \A i \in 1..Len(s) : i \in 1..Len(u)
  BY <1>2
<1>4. \A i \in 1..Len(t) : Len(s) + i \in 1..Len(u)
  BY <1>2
<1>5. \A i \in 1..Len(u) : u[i] \in E \cup F
  <2> TAKE i \in 1..Len(u)
  <2>1. CASE i \in 1..Len(s)
    BY <1>1, <1>2, <2>1
  <2>2. CASE i \notin 1..Len(s)
    <3>1. i - Len(s) \in 1..Len(t) /\ Len(s) + (i - Len(s)) = i
      BY <1>2, <2>2
    <3> QED
      BY <1>1, <1>2, <3>1
  <2> QED
    BY <2>1, <2>2
<1>6. \A e \in E \cup F : \E i \in 1..Len(u) : e = u[i]
  <2> TAKE e \in E \cup F
  <2>1. CASE e \in E
    <3>1. PICK i \in 1..Len(s) : e = s[i]
      BY <1>1, <2>1
    <3> QED
      BY <1>2, <1>3, <3>1
  <2>2. CASE e \in F
    <3>1. PICK i \in 1..Len(t) : e = t[i]
      BY <1>1, <2>2
    <3> QED
      BY <1>2, <1>4, <3>1
  <2> QED
    BY <2>1, <2>2
<1>7. E \cup F = {u[i] : i \in 1..Len(u)}
  BY <1>5, <1>6
<1> QED
  BY <1>2, <1>7 DEF Lists, u

LEMMA OneList ==
  ASSUME NEW d \in Entries
  PROVE  Lists(<<d>>, {d}) /\ Len(<<d>>) = 1
<1>1. <<d>> \in Seq(Entries) /\ {d} = {<<d>>[i] : i \in 1..1} /\ Len(<<d>>) = 1
  OBVIOUS
<1> QED
  BY <1>1 DEF Lists

LEMMA TwoList ==
  ASSUME NEW d \in Entries, NEW e \in Entries
  PROVE  Lists(<<d, e>>, {d, e}) /\ Len(<<d, e>>) = 2
<1>1. <<d, e>> \in Seq(Entries) /\ {d, e} = {<<d, e>>[i] : i \in 1..2} /\ Len(<<d, e>>) = 2
  OBVIOUS
<1> QED
  BY <1>1 DEF Lists

LEMMA ThreeList ==
  ASSUME NEW d \in Entries, NEW e \in Entries, NEW f \in Entries
  PROVE  Lists(<<d, e, f>>, {d, e, f}) /\ Len(<<d, e, f>>) = 3
<1>1. <<d, e, f>> \in Seq(Entries) /\ {d, e, f} = {<<d, e, f>>[i] : i \in 1..3} /\ Len(<<d, e, f>>) = 3
  OBVIOUS
<1> QED
  BY <1>1 DEF Lists

LEMMA EntryElsewhere ==
  ASSUME NEW chip \in Chips, NEW p, NEW n \in Registers, NEW v, NEW k \in Places, k # <<"reg", n>>
  PROVE  ~EntryTouches(chip, <<p, n, v>>, k)
<1>0. n # "ctrl"
  BY DEF Registers
<1>1. CASE \E r \in Registers : k = <<"reg", r>>
  <2>1. PICK r \in Registers : k = <<"reg", r>>
    BY <1>1
  <2> QED
    BY <2>1, EntryAt
<1>2. CASE \E c \in Chips : k = <<c, "state">> \/ k = <<c, "mute">>
  <2>1. PICK c \in Chips : k = <<c, "state">> \/ k = <<c, "mute">>
    BY <1>2
  <2>2. ~EntryTouches(chip, <<p, n, v>>, <<c, "state">>) /\ ~EntryTouches(chip, <<p, n, v>>, <<c, "mute">>)
    BY <1>0, EntryAt
  <2> QED
    BY <2>1, <2>2
<1>3. CASE k = Pin
  BY <1>3, EntryAt
<1> QED
  BY <1>1, <1>2, <1>3, PlaceCases

\* What a table of one entry does, and one of two.
AfterOne(n, v, k, a) == IF k = <<"reg", n>> THEN v ELSE a

LEMMA OneEntry ==
  ASSUME NEW chip \in Chips, NEW p, NEW n \in Registers, NEW v, <<p, n, v>> \in Entries, NEW k \in Places, NEW a
  PROVE  /\ << ConfigTable(chip, << <<p, n, v>> >>) >> \in Programs
         /\ Turns(<< ConfigTable(chip, << <<p, n, v>> >>) >>, k, a, AfterOne(n, v, k, a))
<1> DEFINE e == <<p, n, v>>
           es == <<e>>
           b == AfterOne(n, v, k, a)
<1>0. e \in Entries
  OBVIOUS
<1>1. Lists(es, {e}) /\ Len(es) > 0
  <2> HIDE DEF e
  <2> QED
    BY <1>0, OneList
<1>2. TableTurns(chip, {e}, k, a, b)
  <2>1. CASE k = <<"reg", n>>
    BY <2>1, EntryAt DEF TableTurns, AfterOne
  <2>2. CASE k # <<"reg", n>>
    <3>1. ~EntryTouches(chip, e, k)
      BY <2>2, EntryElsewhere
    <3> QED
      BY <2>2, <3>1 DEF TableTurns, AfterOne
  <2> QED
    BY <2>1, <2>2
<1> HIDE DEF b, es, e
<1>3. << ConfigTable(chip, es) >> \in Programs /\ Turns(<< ConfigTable(chip, es) >>, k, a, b)
  BY <1>1, <1>2, TableLoad
<1> QED
  BY <1>3 DEF e, es, b

AfterTwo(n, v, m, w, k, a) == IF k = <<"reg", n>> THEN v ELSE IF k = <<"reg", m>> THEN w ELSE a

LEMMA TwoEntries ==
  ASSUME NEW chip \in Chips, NEW p, NEW n \in Registers, NEW v, <<p, n, v>> \in Entries,
         NEW q, NEW m \in Registers, NEW w, <<q, m, w>> \in Entries, n # m, NEW k \in Places, NEW a
  PROVE  /\ << ConfigTable(chip, << <<p, n, v>>, <<q, m, w>> >>) >> \in Programs
         /\ Turns(<< ConfigTable(chip, << <<p, n, v>>, <<q, m, w>> >>) >>, k, a, AfterTwo(n, v, m, w, k, a))
<1> DEFINE e == <<p, n, v>>
           f == <<q, m, w>>
           es == <<e, f>>
           b == AfterTwo(n, v, m, w, k, a)
<1>0. e \in Entries /\ f \in Entries
  OBVIOUS
<1>1. Lists(es, {e, f}) /\ Len(es) > 0
  <2> HIDE DEF e, f
  <2> QED
    BY <1>0, TwoList
<1>2. TableTurns(chip, {e, f}, k, a, b)
  <2>1. CASE k = <<"reg", n>>
    BY <2>1, EntryAt DEF TableTurns, AfterTwo
  <2>2. CASE k = <<"reg", m>>
    <3>1. k # <<"reg", n>>
      BY <2>2
    <3> QED
      BY <2>2, <3>1, EntryAt DEF TableTurns, AfterTwo
  <2>3. CASE k # <<"reg", n>> /\ k # <<"reg", m>>
    <3>1. ~EntryTouches(chip, e, k) /\ ~EntryTouches(chip, f, k)
      BY <2>3, EntryElsewhere
    <3> QED
      BY <2>3, <3>1 DEF TableTurns, AfterTwo
  <2> QED
    BY <2>1, <2>2, <2>3
<1> HIDE DEF b, es, e, f
<1>3. << ConfigTable(chip, es) >> \in Programs /\ Turns(<< ConfigTable(chip, es) >>, k, a, b)
  BY <1>1, <1>2, TableLoad
<1> QED
  BY <1>3 DEF e, f, es, b

\* No table reaches the pin.
LEMMA TablePin ==
  ASSUME NEW chip \in Chips, NEW es, NEW E, Lists(es, E), Len(es) > 0, NEW a
  PROVE  /\ << ConfigTable(chip, es) >> \in Programs
         /\ Turns(<< ConfigTable(chip, es) >>, Pin, a, a)
<1>1. ASSUME NEW e PROVE ~EntryTouches(chip, e, Pin)
  BY DEF EntryTouches, Pin, Chips
<1>2. TableTurns(chip, E, Pin, a, a)
  BY <1>1 DEF TableTurns
<1> QED
  BY <1>2, TableLoad
LEMMA PinOfOne ==
  ASSUME NEW chip \in Chips, NEW e \in Entries, NEW a
  PROVE  /\ << ConfigTable(chip, <<e>>) >> \in Programs
         /\ Turns(<< ConfigTable(chip, <<e>>) >>, Pin, a, a)
<1>1. Lists(<<e>>, {e}) /\ Len(<<e>>) > 0
  BY OneList
<1> QED
  BY <1>1, TablePin

LEMMA PinOfTwo ==
  ASSUME NEW chip \in Chips, NEW e \in Entries, NEW f \in Entries, NEW a
  PROVE  /\ << ConfigTable(chip, <<e, f>>) >> \in Programs
         /\ Turns(<< ConfigTable(chip, <<e, f>>) >>, Pin, a, a)
<1>1. Lists(<<e, f>>, {e, f}) /\ Len(<<e, f>>) > 0
  BY TwoList
<1> QED
  BY <1>1, TablePin
-----------------------------------------------------------------------------
\* The two configurations.
WooferNormal == {"program", "left", "right", "bypassEq", "bands", "drc", "path", "gpio"}
TweeterNormal == {"tVolume", "tDrc", "misc"}
Configured(chip, names, tone, k, a) ==
    IF \E r \in names : k = <<"reg", r>> THEN "normal"
    ELSE IF k = <<"reg", tone>> THEN "0dB"
    ELSE IF k = <<chip, "state">> THEN "play"
    ELSE IF k = <<chip, "mute">> THEN "unmuted"
    ELSE a

\* E sets each of the registers to what is normal, and lets the amplifier play.
Configures(E, names, tone) ==
    /\ \A e \in E : \E p, n, v : /\ e = <<p, n, v>>
                                 /\ \/ n \in names /\ v = "normal"
                                    \/ n = tone /\ v = "0dB"
                                    \/ n = "ctrl"
    /\ \A r \in names : \E p : <<p, r, "normal">> \in E
    /\ \E p : <<p, tone, "0dB">> \in E
    /\ \E p, v : <<p, "ctrl", v>> \in E

LEMMA ConfigurationTurns ==
  ASSUME NEW chip \in Chips, NEW es, NEW E, Lists(es, E), Len(es) > 0,
         NEW names \in SUBSET Registers, NEW tone \in Registers \ names, Configures(E, names, tone),
         NEW k \in Places, NEW a
  PROVE  /\ << ConfigTable(chip, es) >> \in Programs
         /\ Turns(<< ConfigTable(chip, es) >>, k, a, Configured(chip, names, tone, k, a))
<1> DEFINE b == Configured(chip, names, tone, k, a)
<1>0. "ctrl" \notin Registers /\ "reg" \notin Chips /\ "pin" \notin Chips
  BY DEF Registers, Chips
<1>1. ASSUME NEW r \in Registers, k = <<"reg", r>> PROVE TableTurns(chip, E, k, a, b)
  <2>0. \A p, n, v : /\ EntryTouches(chip, <<p, n, v>>, k) <=> n = r
                     /\ n = r => EntryWrites(<<p, n, v>>, k) = v
    <3> TAKE p, n, v
    <3>1. /\ EntryTouches(chip, <<p, n, v>>, <<"reg", r>>) <=> n = r
          /\ n = r => EntryWrites(<<p, n, v>>, <<"reg", r>>) = v
      BY EntryAt
    <3> QED
      BY <1>1, <3>1
  <2>1. CASE r \in names
    <3>1. b = "normal"
      BY <1>1, <2>1 DEF Configured
    <3>2. PICK p : <<p, r, "normal">> \in E
      BY <2>1 DEF Configures
    <3>3. \E e \in E : EntryTouches(chip, e, k)
      BY <2>0, <3>2
    <3>4. ASSUME NEW e \in E, EntryTouches(chip, e, k) PROVE EntryWrites(e, k) = b
      <4>1. PICK q, n, v : /\ e = <<q, n, v>>
                           /\ (n \in names /\ v = "normal") \/ (n = tone /\ v = "0dB") \/ n = "ctrl"
        BY DEF Configures
      <4>2. n = r
        BY <2>0, <3>4, <4>1
      <4>3. v = "normal"
        BY <1>0, <2>1, <4>1, <4>2
      <4> QED
        BY <2>0, <3>1, <4>1, <4>2, <4>3
    <3> QED
      BY <3>3, <3>4 DEF TableTurns
  <2>2. CASE r = tone
    <3>1. b = "0dB"
      BY <1>1, <2>2 DEF Configured
    <3>2. PICK p : <<p, tone, "0dB">> \in E
      BY DEF Configures
    <3>3. \E e \in E : EntryTouches(chip, e, k)
      BY <2>0, <2>2, <3>2
    <3>4. ASSUME NEW e \in E, EntryTouches(chip, e, k) PROVE EntryWrites(e, k) = b
      <4>1. PICK q, n, v : /\ e = <<q, n, v>>
                           /\ (n \in names /\ v = "normal") \/ (n = tone /\ v = "0dB") \/ n = "ctrl"
        BY DEF Configures
      <4>2. n = r
        BY <2>0, <3>4, <4>1
      <4>3. v = "0dB"
        BY <1>0, <2>2, <4>1, <4>2
      <4> QED
        BY <2>0, <3>1, <4>1, <4>2, <4>3
    <3> QED
      BY <3>3, <3>4 DEF TableTurns
  <2>3. CASE r \notin names /\ r # tone
    <3>1. b = a
      BY <1>0, <1>1, <2>3 DEF Configured
    <3>2. ASSUME NEW e \in E PROVE ~EntryTouches(chip, e, k)
      <4>1. PICK q, n, v : /\ e = <<q, n, v>>
                           /\ (n \in names /\ v = "normal") \/ (n = tone /\ v = "0dB") \/ n = "ctrl"
        BY DEF Configures
      <4>2. n # r
        BY <1>0, <2>3, <4>1
      <4> QED
        BY <2>0, <4>1, <4>2
    <3> QED
      BY <3>1, <3>2 DEF TableTurns
  <2> QED
    BY <2>1, <2>2, <2>3
<1>2. ASSUME NEW c \in Chips, k = <<c, "state">> \/ k = <<c, "mute">> PROVE TableTurns(chip, E, k, a, b)
  <2>a. \A p, n, v : /\ EntryTouches(chip, <<p, n, v>>, k) <=> n = "ctrl" /\ c = chip
                     /\ n = "ctrl" => EntryWrites(<<p, n, v>>, k) = IF k = <<c, "state">> THEN "play" ELSE "unmuted"
    <3> TAKE p, n, v
    <3>1. /\ EntryTouches(chip, <<p, n, v>>, <<c, "state">>) <=> n = "ctrl" /\ c = chip
          /\ EntryTouches(chip, <<p, n, v>>, <<c, "mute">>) <=> n = "ctrl" /\ c = chip
          /\ n = "ctrl" => /\ EntryWrites(<<p, n, v>>, <<c, "state">>) = "play"
                           /\ EntryWrites(<<p, n, v>>, <<c, "mute">>) = "unmuted"
      BY EntryAt
    <3>2. <<c, "state">> # <<c, "mute">>
      OBVIOUS
    <3> QED
      BY <1>2, <3>1, <3>2
  <2>b. \A r : k # <<"reg", r>>
    BY <1>0, <1>2
  <2>0. /\ \A p, n, v : /\ EntryTouches(chip, <<p, n, v>>, k) <=> n = "ctrl" /\ c = chip
                        /\ n = "ctrl" => EntryWrites(<<p, n, v>>, k) = IF k = <<c, "state">> THEN "play" ELSE "unmuted"
        /\ \A r : k # <<"reg", r>>
    BY <2>a, <2>b
  <2>1. CASE c = chip
    <3>1. b = IF k = <<c, "state">> THEN "play" ELSE "unmuted"
      BY <1>2, <2>0, <2>1 DEF Configured
    <3>2. PICK p, v : <<p, "ctrl", v>> \in E
      BY DEF Configures
    <3>3. EntryTouches(chip, <<p, "ctrl", v>>, k)
      BY <2>0, <2>1
    <3>4. ASSUME NEW e \in E, EntryTouches(chip, e, k) PROVE EntryWrites(e, k) = b
      <4>1. PICK q, n, w : e = <<q, n, w>>
        BY DEF Configures
      <4> QED
        BY <2>0, <3>1, <3>4, <4>1
    <3> QED
      BY <3>2, <3>3, <3>4 DEF TableTurns
  <2>2. CASE c # chip
    <3>1. b = a
      BY <1>2, <2>0, <2>2 DEF Configured
    <3>2. ASSUME NEW e \in E PROVE ~EntryTouches(chip, e, k)
      <4>1. PICK q, n, w : e = <<q, n, w>>
        BY DEF Configures
      <4> QED
        BY <2>0, <2>2, <4>1
    <3> QED
      BY <3>1, <3>2 DEF TableTurns
  <2> QED
    BY <2>1, <2>2
<1>3. ASSUME k = Pin PROVE TableTurns(chip, E, k, a, b)
  <2>1. b = a
    BY <1>0, <1>3 DEF Configured, Pin
  <2>2. ASSUME NEW e \in E PROVE ~EntryTouches(chip, e, k)
    BY <1>3 DEF EntryTouches, Pin, Chips
  <2> QED
    BY <2>1, <2>2 DEF TableTurns
<1>4. TableTurns(chip, E, k, a, b)
  BY <1>1, <1>2, <1>3, PlaceCases
<1> HIDE DEF b
<1>5. << ConfigTable(chip, es) >> \in Programs /\ Turns(<< ConfigTable(chip, es) >>, k, a, b)
  BY <1>4, TableLoad
<1> QED
  BY <1>5 DEF b

AfterWoofer(k, a) == Configured("woofer", WooferNormal, "bassEq", k, a)
AfterTweeter(k, a) == Configured("tweeter", TweeterNormal, "trebleEq", k, a)

WooferEntries ==
    {<<"program", "program", "normal">>, <<"volume", "left", "normal">>, <<"volume", "right", "normal">>,
     <<"volume", "bypassEq", "normal">>, <<"bands", "bands", "normal">>, <<"tone", "bassEq", "0dB">>,
     <<"drc", "drc", "normal">>, <<"path", "path", "normal">>, <<"control", "gpio", "normal">>, <<"control", "ctrl", "play">>}
TweeterEntries ==
    {<<"volume", "tVolume", "normal">>, <<"tone", "trebleEq", "0dB">>, <<"drc", "tDrc", "normal">>,
     <<"control", "misc", "normal">>, <<"control", "ctrl", "play">>}

LEMMA EntryTypes ==
  ASSUME NEW p \in Pages, NEW n \in Registers \cup {"ctrl"}, NEW v \in Written, n # "ctrl" => v \in Values
  PROVE  <<p, n, v>> \in Entries
  BY DEF Entries

LEMMA TableEntries ==
  /\ WooferEntries \subseteq Entries
  /\ TweeterEntries \subseteq Entries
  /\ \A v \in Values : /\ <<"bands", "bands", v>> \in Entries /\ <<"drc", "drc", v>> \in Entries
                       /\ <<"volume", "left", v>> \in Entries /\ <<"volume", "right", v>> \in Entries
                       /\ <<"volume", "tVolume", v>> \in Entries /\ <<"drc", "tDrc", v>> \in Entries
                       /\ <<"tone", "bassEq", v>> \in Entries /\ <<"tone", "trebleEq", v>> \in Entries
                       /\ <<"path", "path", v>> \in Entries /\ <<"volume", "bypassEq", v>> \in Entries
                       /\ <<"control", "gpio", v>> \in Entries /\ <<"control", "misc", v>> \in Entries
<1>1. Values \subseteq Written /\ "play" \in Written /\ {"normal", "eco", "low", "bypass", "0dB", "6dB"} \subseteq Values
  BY DEF Written, Values, Tones
<1>2. /\ {"program", "control", "volume", "bands", "tone", "drc", "path"} \subseteq Pages
      /\ {"program", "left", "right", "bands", "drc", "path", "bassEq", "bypassEq", "gpio", "tVolume", "tDrc", "trebleEq", "misc"} \subseteq Registers
  BY DEF Pages, Registers
<1>3. \A p \in Pages, n \in Registers, v \in Values : <<p, n, v>> \in Entries
  BY <1>1, EntryTypes
<1>4. <<"control", "ctrl", "play">> \in Entries
  BY <1>1, <1>2, EntryTypes
<1> HIDE DEF Pages, Registers, Values, Entries
<1>5. WooferEntries \subseteq Entries
  BY <1>1, <1>2, <1>3, <1>4 DEF WooferEntries
<1>6. TweeterEntries \subseteq Entries
  BY <1>1, <1>2, <1>3, <1>4 DEF TweeterEntries
<1> QED
  BY <1>2, <1>3, <1>5, <1>6

LEMMA WooferLists == Lists(tas5825p_config_registers, WooferEntries) /\ Len(tas5825p_config_registers) = 10
<1> DEFINE e1 == <<"program", "program", "normal">>
           e2 == <<"volume", "left", "normal">>
           e3 == <<"volume", "right", "normal">>
           e4 == <<"volume", "bypassEq", "normal">>
           e5 == <<"bands", "bands", "normal">>
           e6 == <<"tone", "bassEq", "0dB">>
           e7 == <<"drc", "drc", "normal">>
           e8 == <<"path", "path", "normal">>
           e9 == <<"control", "gpio", "normal">>
           e10 == <<"control", "ctrl", "play">>
<1>1. WooferEntries = {e1, e2, e3, e4, e5, e6, e7, e8, e9, e10}
  BY DEF WooferEntries
<1>2. tas5825p_config_registers = <<e1>> \o <<e2, e3, e4>> \o <<e5, e6>> \o <<e7>> \o <<e8>> \o <<e9, e10>>
  BY DEF tas5825p_config_registers, WooferProgram, WooferVolumes, WooferBands, WooferDrc, WooferPath, Plays
<1> HIDE DEF e1, e2, e3, e4, e5, e6, e7, e8, e9, e10
<1>3. \A e \in {e1, e2, e3, e4, e5, e6, e7, e8, e9, e10} : e \in Entries
  BY <1>1, TableEntries
<1> DEFINE t1 == <<e1>>
           t2 == <<e2, e3, e4>>
           t3 == <<e5, e6>>
           t4 == <<e7>>
           t5 == <<e8>>
           t6 == <<e9, e10>>
           F1 == {e1}
           F2 == {e2, e3, e4}
           F3 == {e5, e6}
           F4 == {e7}
           F5 == {e8}
           F6 == {e9, e10}
<1>4. /\ Lists(t1, F1) /\ Len(t1) = 1
      /\ Lists(t2, F2) /\ Len(t2) = 3
      /\ Lists(t3, F3) /\ Len(t3) = 2
      /\ Lists(t4, F4) /\ Len(t4) = 1
      /\ Lists(t5, F5) /\ Len(t5) = 1
      /\ Lists(t6, F6) /\ Len(t6) = 2
  BY <1>3, OneList, TwoList, ThreeList
<1>5. F1 \cup F2 \cup F3 \cup F4 \cup F5 \cup F6 = WooferEntries
  BY <1>1
<1>6. tas5825p_config_registers = t1 \o t2 \o t3 \o t4 \o t5 \o t6
  BY <1>2
<1> HIDE DEF t1, F1, t2, F2, t3, F3, t4, F4, t5, F5, t6, F6
<1> DEFINE s1 == t1 \o t2
           G1 == F1 \cup F2
<1>7. Lists(s1, G1) /\ Len(s1) = 4
  <2>1. Lists(t1, F1) /\ Lists(t2, F2) /\ Len(t1) = 1 /\ Len(t2) = 3
    BY <1>4
  <2>2. Lists(t1 \o t2, F1 \cup F2) /\ Len(t1 \o t2) = Len(t1) + Len(t2)
    BY <2>1, JoinLists
  <2> QED
    BY <2>1, <2>2
<1> HIDE DEF s1, G1
<1> DEFINE s2 == s1 \o t3
           G2 == G1 \cup F3
<1>8. Lists(s2, G2) /\ Len(s2) = 6
  <2>1. Lists(s1, G1) /\ Lists(t3, F3) /\ Len(s1) = 4 /\ Len(t3) = 2
    BY <1>4, <1>7
  <2>2. Lists(s1 \o t3, G1 \cup F3) /\ Len(s1 \o t3) = Len(s1) + Len(t3)
    BY <2>1, JoinLists
  <2> QED
    BY <2>1, <2>2
<1> HIDE DEF s2, G2
<1> DEFINE s3 == s2 \o t4
           G3 == G2 \cup F4
<1>9. Lists(s3, G3) /\ Len(s3) = 7
  <2>1. Lists(s2, G2) /\ Lists(t4, F4) /\ Len(s2) = 6 /\ Len(t4) = 1
    BY <1>4, <1>8
  <2>2. Lists(s2 \o t4, G2 \cup F4) /\ Len(s2 \o t4) = Len(s2) + Len(t4)
    BY <2>1, JoinLists
  <2> QED
    BY <2>1, <2>2
<1> HIDE DEF s3, G3
<1> DEFINE s4 == s3 \o t5
           G4 == G3 \cup F5
<1>10. Lists(s4, G4) /\ Len(s4) = 8
  <2>1. Lists(s3, G3) /\ Lists(t5, F5) /\ Len(s3) = 7 /\ Len(t5) = 1
    BY <1>4, <1>9
  <2>2. Lists(s3 \o t5, G3 \cup F5) /\ Len(s3 \o t5) = Len(s3) + Len(t5)
    BY <2>1, JoinLists
  <2> QED
    BY <2>1, <2>2
<1> HIDE DEF s4, G4
<1> DEFINE s5 == s4 \o t6
           G5 == G4 \cup F6
<1>11. Lists(s5, G5) /\ Len(s5) = 10
  <2>1. Lists(s4, G4) /\ Lists(t6, F6) /\ Len(s4) = 8 /\ Len(t6) = 2
    BY <1>4, <1>10
  <2>2. Lists(s4 \o t6, G4 \cup F6) /\ Len(s4 \o t6) = Len(s4) + Len(t6)
    BY <2>1, JoinLists
  <2> QED
    BY <2>1, <2>2
<1> QED
  BY <1>5, <1>6, <1>11 DEF s1, G1, s2, G2, s3, G3, s4, G4, s5, G5

LEMMA TweeterLists == Lists(tas5805m_config_registers, TweeterEntries) /\ Len(tas5805m_config_registers) = 5
<1> DEFINE e1 == <<"volume", "tVolume", "normal">>
           e2 == <<"tone", "trebleEq", "0dB">>
           e3 == <<"drc", "tDrc", "normal">>
           e4 == <<"control", "misc", "normal">>
           e5 == <<"control", "ctrl", "play">>
<1>1. TweeterEntries = {e1, e2, e3, e4, e5}
  BY DEF TweeterEntries
<1>2. tas5805m_config_registers = <<e1>> \o <<e2>> \o <<e3>> \o <<e4, e5>>
  BY DEF tas5805m_config_registers, TweeterVolumes, TweeterBands, TweeterDrc, Plays
<1> HIDE DEF e1, e2, e3, e4, e5
<1>3. \A e \in {e1, e2, e3, e4, e5} : e \in Entries
  BY <1>1, TableEntries
<1> DEFINE t1 == <<e1>>
           t2 == <<e2>>
           t3 == <<e3>>
           t4 == <<e4, e5>>
           F1 == {e1}
           F2 == {e2}
           F3 == {e3}
           F4 == {e4, e5}
<1>4. /\ Lists(t1, F1) /\ Len(t1) = 1
      /\ Lists(t2, F2) /\ Len(t2) = 1
      /\ Lists(t3, F3) /\ Len(t3) = 1
      /\ Lists(t4, F4) /\ Len(t4) = 2
  BY <1>3, OneList, TwoList
<1>5. F1 \cup F2 \cup F3 \cup F4 = TweeterEntries
  BY <1>1
<1>6. tas5805m_config_registers = t1 \o t2 \o t3 \o t4
  BY <1>2
<1> HIDE DEF t1, F1, t2, F2, t3, F3, t4, F4
<1> DEFINE s1 == t1 \o t2
           G1 == F1 \cup F2
<1>7. Lists(s1, G1) /\ Len(s1) = 2
  <2>1. Lists(t1, F1) /\ Lists(t2, F2) /\ Len(t1) = 1 /\ Len(t2) = 1
    BY <1>4
  <2>2. Lists(t1 \o t2, F1 \cup F2) /\ Len(t1 \o t2) = Len(t1) + Len(t2)
    BY <2>1, JoinLists
  <2> QED
    BY <2>1, <2>2
<1> HIDE DEF s1, G1
<1> DEFINE s2 == s1 \o t3
           G2 == G1 \cup F3
<1>8. Lists(s2, G2) /\ Len(s2) = 3
  <2>1. Lists(s1, G1) /\ Lists(t3, F3) /\ Len(s1) = 2 /\ Len(t3) = 1
    BY <1>4, <1>7
  <2>2. Lists(s1 \o t3, G1 \cup F3) /\ Len(s1 \o t3) = Len(s1) + Len(t3)
    BY <2>1, JoinLists
  <2> QED
    BY <2>1, <2>2
<1> HIDE DEF s2, G2
<1> DEFINE s3 == s2 \o t4
           G3 == G2 \cup F4
<1>9. Lists(s3, G3) /\ Len(s3) = 5
  <2>1. Lists(s2, G2) /\ Lists(t4, F4) /\ Len(s2) = 3 /\ Len(t4) = 2
    BY <1>4, <1>8
  <2>2. Lists(s2 \o t4, G2 \cup F4) /\ Len(s2 \o t4) = Len(s2) + Len(t4)
    BY <2>1, JoinLists
  <2> QED
    BY <2>1, <2>2
<1> QED
  BY <1>5, <1>6, <1>9 DEF s1, G1, s2, G2, s3, G3

LEMMA WooferTurns ==
  ASSUME NEW k \in Places, NEW a
  PROVE  /\ Woofer(tas5825p_config_registers) \in Programs
         /\ Turns(Woofer(tas5825p_config_registers), k, a, AfterWoofer(k, a))
<1>1. WooferNormal \in SUBSET Registers /\ "bassEq" \in Registers \ WooferNormal /\ "woofer" \in Chips
  BY DEF WooferNormal, Registers, Chips
<1>2. Configures(WooferEntries, WooferNormal, "bassEq")
  BY DEF Configures, WooferEntries, WooferNormal
<1>3. Lists(tas5825p_config_registers, WooferEntries) /\ Len(tas5825p_config_registers) > 0
  BY WooferLists
<1> HIDE DEF WooferNormal, WooferEntries
<1> QED
  BY <1>1, <1>2, <1>3, ConfigurationTurns DEF Woofer, AfterWoofer

LEMMA TweeterTurns ==
  ASSUME NEW k \in Places, NEW a
  PROVE  /\ Tweeter(tas5805m_config_registers) \in Programs
         /\ Turns(Tweeter(tas5805m_config_registers), k, a, AfterTweeter(k, a))
<1>1. TweeterNormal \in SUBSET Registers /\ "trebleEq" \in Registers \ TweeterNormal /\ "tweeter" \in Chips
  BY DEF TweeterNormal, Registers, Chips
<1>2. Configures(TweeterEntries, TweeterNormal, "trebleEq")
  BY DEF Configures, TweeterEntries, TweeterNormal
<1>3. Lists(tas5805m_config_registers, TweeterEntries) /\ Len(tas5805m_config_registers) > 0
  BY TweeterLists
<1> HIDE DEF TweeterNormal, TweeterEntries
<1> QED
  BY <1>1, <1>2, <1>3, ConfigurationTurns DEF Tweeter, AfterTweeter
-----------------------------------------------------------------------------
\* The programs.
LEMMA Names3 ==
  /\ {"program", "left", "right", "bands", "drc", "path", "bassEq", "bypassEq", "gpio",
      "tVolume", "tDrc", "trebleEq", "misc"} = Registers
  /\ "woofer" \in Chips /\ "tweeter" \in Chips
  /\ {"normal", "eco", "low", "bypass", "0dB", "6dB"} \subseteq Values /\ Tones \subseteq Values
  BY DEF Registers, Chips, Values, Tones

\* A program that finds a in a place leaves what the second makes of what the
\* first leaves.
LEMMA Then ==
  ASSUME NEW p, NEW q, NEW k, NEW a, NEW b, NEW c,
         p \in Programs /\ Turns(p, k, a, b), q \in Programs /\ Turns(q, k, b, c)
  PROVE  p \o q \in Programs /\ Turns(p \o q, k, a, c)
  BY Joined, Compose

LEMMA PinElsewhere ==
  ASSUME NEW a
  PROVE  /\ Pin \in Places
         /\ \A n, v : AfterOne(n, v, Pin, a) = a
         /\ \A n, v, m, w : AfterTwo(n, v, m, w, Pin, a) = a
         /\ \A c \in Chips : \A f, v : AfterModify(c, f, v, Pin, a) = a
         /\ AfterWoofer(Pin, a) = a /\ AfterTweeter(Pin, a) = a
  BY DEF Pin, Places, AfterOne, AfterTwo, AfterModify, AfterWoofer, AfterTweeter, Configured, Chips

\* Back to high impedance, the tables, and playing again.
LEMMA PlaysAgain ==
  ASSUME NEW k \in Places, NEW a
  PROVE  /\ AfterModify("woofer", "state", "play", k, AfterWoofer(k, AfterModify("woofer", "state", "hiZ", k, a))) = AfterWoofer(k, a)
         /\ AfterModify("tweeter", "state", "play", k, AfterTweeter(k, AfterModify("tweeter", "state", "hiZ", k, a))) = AfterTweeter(k, a)
  BY DEF AfterModify, AfterWoofer, AfterTweeter, Configured

LEMMA SetupWooferTurns ==
  ASSUME NEW mode \in {"normal", "bypass"}, NEW k \in Places, NEW a, mode = "normal" \/ k = Pin
  PROVE  /\ SetupWoofer(mode) \in Programs
         /\ Turns(SetupWoofer(mode), k, a, AfterWoofer(k, a))
<1> DEFINE h == << Modify("woofer", "state", "hiZ") >>
           c == Woofer(tas5825p_config_registers)
           b == IF mode = "bypass"
                THEN Woofer(tas5825p_bypass_config_registers) \o Woofer(<< <<"volume", "bypassEq", "bypass">> >>)
                     \o Woofer(<< <<"control", "gpio", "bypass">> >>)
                ELSE <<>>
           p == << Modify("woofer", "state", "play") >>
           a1 == AfterModify("woofer", "state", "hiZ", k, a)
           a2 == AfterWoofer(k, a1)
           a3 == AfterModify("woofer", "state", "play", k, a2)
<1>1. h \in Programs /\ Turns(h, k, a, a1)
  BY Names3, ModifyTurns DEF Bits
<1>2. c \in Programs /\ Turns(c, k, a1, a2)
  BY WooferTurns
<1>3. p \in Programs /\ Turns(p, k, a2, a3)
  BY Names3, ModifyTurns DEF Bits
<1>4. b \in Programs /\ Turns(b, k, a2, a2)
  <2>1. CASE mode = "normal"
    BY <2>1, EmptyProgram
  <2>2. CASE mode = "bypass"
    <3> DEFINE b1 == Woofer(tas5825p_bypass_config_registers)
               b2 == Woofer(<< <<"volume", "bypassEq", "bypass">> >>)
               b3 == Woofer(<< <<"control", "gpio", "bypass">> >>)
    <3>0. k = Pin
      BY <2>2
    <3>1. b1 \in Programs /\ Turns(b1, k, a2, a2)
      <4> DEFINE e == <<"drc", "drc", "bypass">>
                 f == <<"path", "path", "bypass">>
      <4>1. e \in Entries /\ f \in Entries
        BY TableEntries, Names3
      <4>2. b1 = << ConfigTable("woofer", <<e, f>>) >>
        BY DEF Woofer, tas5825p_bypass_config_registers
      <4> HIDE DEF e, f, a2, b1
      <4> QED
        BY <3>0, <4>1, <4>2, Names3, PinOfTwo
    <3>2. b2 \in Programs /\ Turns(b2, k, a2, a2)
      <4> DEFINE e == <<"volume", "bypassEq", "bypass">>
      <4>1. e \in Entries
        BY TableEntries, Names3
      <4>2. b2 = << ConfigTable("woofer", <<e>>) >>
        BY DEF Woofer
      <4> HIDE DEF e, a2, b2
      <4> QED
        BY <3>0, <4>1, <4>2, Names3, PinOfOne
    <3>3. b3 \in Programs /\ Turns(b3, k, a2, a2)
      <4> DEFINE e == <<"control", "gpio", "bypass">>
      <4>1. e \in Entries
        BY TableEntries, Names3
      <4>2. b3 = << ConfigTable("woofer", <<e>>) >>
        BY DEF Woofer
      <4> HIDE DEF e, a2, b3
      <4> QED
        BY <3>0, <4>1, <4>2, Names3, PinOfOne
    <3>4. b = b1 \o b2 \o b3
      BY <2>2
    <3> HIDE DEF b1, b2, b3, b, a2
    <3>5. b1 \o b2 \in Programs /\ Turns(b1 \o b2, k, a2, a2)
      BY <3>1, <3>2, Then
    <3> DEFINE b12 == b1 \o b2
    <3> HIDE DEF b12
    <3>6. b12 \o b3 \in Programs /\ Turns(b12 \o b3, k, a2, a2)
      BY <3>3, <3>5, Then DEF b12
    <3> QED
      BY <3>4, <3>6 DEF b12
  <2> QED
    BY <2>1, <2>2
<1>5. SetupWoofer(mode) = h \o c \o b \o p
  BY DEF SetupWoofer
<1>6. a3 = AfterWoofer(k, a)
  BY PlaysAgain
<1> HIDE DEF h, c, b, p, a1, a2, a3
<1> DEFINE r1 == h \o c
           r2 == r1 \o b
           r3 == r2 \o p
<1>7. r1 \in Programs /\ Turns(r1, k, a, a2)
  BY <1>1, <1>2, Then
<1> HIDE DEF r1
<1>8. r2 \in Programs /\ Turns(r2, k, a, a2)
  BY <1>4, <1>7, Then
<1> HIDE DEF r2
<1>9. r3 \in Programs /\ Turns(r3, k, a, a3)
  BY <1>3, <1>8, Then
<1> QED
  BY <1>5, <1>6, <1>9 DEF r1, r2
LEMMA SetupTweeterTurns ==
  ASSUME NEW mode \in {"normal", "bypass"}, NEW k \in Places, NEW a, mode = "normal" \/ k = Pin
  PROVE  /\ SetupTweeter(mode) \in Programs
         /\ Turns(SetupTweeter(mode), k, a, AfterTweeter(k, a))
<1> DEFINE h == << Modify("tweeter", "state", "hiZ") >>
           c == Tweeter(tas5805m_config_registers)
           b == IF mode = "bypass"
                THEN Tweeter(tas5805m_bypass_config_registers) \o Tweeter(<< <<"control", "misc", "bypass">> >>)
                ELSE <<>>
           p == << Modify("tweeter", "state", "play") >>
           a1 == AfterModify("tweeter", "state", "hiZ", k, a)
           a2 == AfterTweeter(k, a1)
           a3 == AfterModify("tweeter", "state", "play", k, a2)
<1>1. h \in Programs /\ Turns(h, k, a, a1)
  BY Names3, ModifyTurns DEF Bits
<1>2. c \in Programs /\ Turns(c, k, a1, a2)
  BY TweeterTurns
<1>3. p \in Programs /\ Turns(p, k, a2, a3)
  BY Names3, ModifyTurns DEF Bits
<1>4. b \in Programs /\ Turns(b, k, a2, a2)
  <2>1. CASE mode = "normal"
    BY <2>1, EmptyProgram
  <2>2. CASE mode = "bypass"
    <3> DEFINE e == <<"control", "misc", "bypass">>
               b1 == << ConfigTable("tweeter", <<e>>) >>
    <3>0. k = Pin
      BY <2>2
    <3>1. e \in Entries
      BY TableEntries, Names3
    <3>2. b = b1 \o b1
      BY <2>2 DEF Tweeter, tas5805m_bypass_config_registers
    <3> HIDE DEF e, a2, b
    <3>3. b1 \in Programs /\ Turns(b1, k, a2, a2)
      BY <3>0, <3>1, Names3, PinOfOne
    <3> HIDE DEF b1
    <3> QED
      BY <3>2, <3>3, Then
  <2> QED
    BY <2>1, <2>2
<1>5. SetupTweeter(mode) = h \o c \o b \o p
  BY DEF SetupTweeter
<1>6. a3 = AfterTweeter(k, a)
  BY PlaysAgain
<1> HIDE DEF h, c, b, p, a1, a2, a3
<1> DEFINE r1 == h \o c
           r2 == r1 \o b
           r3 == r2 \o p
<1>7. r1 \in Programs /\ Turns(r1, k, a, a2)
  BY <1>1, <1>2, Then
<1> HIDE DEF r1
<1>8. r2 \in Programs /\ Turns(r2, k, a, a2)
  BY <1>4, <1>7, Then
<1> HIDE DEF r2
<1>9. r3 \in Programs /\ Turns(r3, k, a, a3)
  BY <1>3, <1>8, Then
<1> QED
  BY <1>5, <1>6, <1>9 DEF r1, r2

AfterEco(on, k, a) ==
    LET w == IF on THEN "eco" ELSE "normal"
        v == IF on THEN "eco" ELSE "low"
    IN AfterOne("tDrc", w, k, AfterOne("tVolume", w, k,
         AfterTwo("left", w, "right", v, k, AfterOne("drc", w, k, AfterOne("bands", w, k, a)))))

LEMMA EcoTurns ==
  ASSUME NEW on \in BOOLEAN, NEW k \in Places, NEW a
  PROVE  /\ EnableEcoMode(on) \in Programs
         /\ Turns(EnableEcoMode(on), k, a, AfterEco(on, k, a))
<1> DEFINE w == IF on THEN "eco" ELSE "normal"
           v == IF on THEN "eco" ELSE "low"
           p1 == << ConfigTable("woofer", << <<"bands", "bands", w>> >>) >>
           p2 == << ConfigTable("woofer", << <<"drc", "drc", w>> >>) >>
           p3 == << ConfigTable("woofer", << <<"volume", "left", w>>, <<"volume", "right", v>> >>) >>
           p4 == << ConfigTable("tweeter", << <<"volume", "tVolume", w>> >>) >>
           p5 == << ConfigTable("tweeter", << <<"drc", "tDrc", w>> >>) >>
           a1 == AfterOne("bands", w, k, a)
           a2 == AfterOne("drc", w, k, a1)
           a3 == AfterTwo("left", w, "right", v, k, a2)
           a4 == AfterOne("tVolume", w, k, a3)
           a5 == AfterOne("tDrc", w, k, a4)
<1>1. w \in Values /\ v \in Values
  BY Names3
<1>2. EnableEcoMode(on) = p1 \o p2 \o p3 \o p4 \o p5
  BY DEF EnableEcoMode, Woofer, Tweeter, tas5825p_normal_to_eco_mode_config_1, tas5825p_normal_to_eco_mode_config_2,
         tas5825p_normal_to_eco_mode_config_3, tas5805m_normal_to_eco_mode_config_1, tas5805m_normal_to_eco_mode_config_2,
         tas5825p_eco_to_normal_mode_config_1, tas5825p_eco_to_normal_mode_config_2, tas5825p_eco_to_normal_mode_config_3,
         tas5805m_eco_to_normal_mode_config_1, tas5805m_eco_to_normal_mode_config_2
<1>3. AfterEco(on, k, a) = a5
  BY DEF AfterEco
<1> HIDE DEF w, v
<1>4. /\ "bands" \in Registers /\ "drc" \in Registers /\ "left" \in Registers /\ "right" \in Registers /\ "left" # "right"
      /\ "tVolume" \in Registers /\ "tDrc" \in Registers /\ "woofer" \in Chips /\ "tweeter" \in Chips
      /\ <<"bands", "bands", w>> \in Entries /\ <<"drc", "drc", w>> \in Entries
      /\ <<"volume", "left", w>> \in Entries /\ <<"volume", "right", v>> \in Entries
      /\ <<"volume", "tVolume", w>> \in Entries /\ <<"drc", "tDrc", w>> \in Entries
  BY <1>1, Names3, TableEntries
<1>5. p1 \in Programs /\ Turns(p1, k, a, a1)
  BY <1>4, OneEntry
<1> HIDE DEF a1
<1>6. p2 \in Programs /\ Turns(p2, k, a1, a2)
  BY <1>4, OneEntry
<1> HIDE DEF a2
<1>7. p3 \in Programs /\ Turns(p3, k, a2, a3)
  BY <1>4, TwoEntries
<1> HIDE DEF a3
<1>8. p4 \in Programs /\ Turns(p4, k, a3, a4)
  BY <1>4, OneEntry
<1> HIDE DEF a4
<1>9. p5 \in Programs /\ Turns(p5, k, a4, a5)
  BY <1>4, OneEntry
<1> HIDE DEF a5, p1, p2, p3, p4, p5
<1> DEFINE r1 == p1 \o p2
           r2 == r1 \o p3
           r3 == r2 \o p4
           r4 == r3 \o p5
<1>10. r1 \in Programs /\ Turns(r1, k, a, a2)
  BY <1>5, <1>6, Then
<1> HIDE DEF r1
<1>11. r2 \in Programs /\ Turns(r2, k, a, a3)
  BY <1>7, <1>10, Then
<1> HIDE DEF r2
<1>12. r3 \in Programs /\ Turns(r3, k, a, a4)
  BY <1>8, <1>11, Then
<1> HIDE DEF r3
<1>13. r4 \in Programs /\ Turns(r4, k, a, a5)
  BY <1>9, <1>12, Then
<1> QED
  BY <1>2, <1>3, <1>13 DEF r1, r2, r3

LEMMA ToneTurns ==
  ASSUME NEW db \in Tones, NEW k \in Places, NEW a
  PROVE  /\ SetBass(db) \in Programs /\ Turns(SetBass(db), k, a, AfterOne("bassEq", db, k, a))
         /\ SetTreble(db) \in Programs /\ Turns(SetTreble(db), k, a, AfterOne("trebleEq", db, k, a))
<1>1. /\ "bassEq" \in Registers /\ "trebleEq" \in Registers /\ "woofer" \in Chips /\ "tweeter" \in Chips
      /\ <<"tone", "bassEq", db>> \in Entries /\ <<"tone", "trebleEq", db>> \in Entries
  BY Names3, TableEntries
<1> QED
  BY <1>1, OneEntry DEF SetBass, SetTreble, Woofer, Tweeter

LEMMA EcoTonesTurn ==
  ASSUME bass \in Tones, treble \in Tones, NEW on \in BOOLEAN, NEW k \in Places, NEW a
  PROVE  /\ EcoTones(on) \in Programs
         /\ Turns(EcoTones(on), k, a, AfterOne("trebleEq", IF on THEN "0dB" ELSE treble, k,
                                               AfterOne("bassEq", IF on THEN "0dB" ELSE bass, k, a)))
<1> DEFINE x == IF on THEN "0dB" ELSE bass
           y == IF on THEN "0dB" ELSE treble
           p == SetBass(x)
           q == SetTreble(y)
           b == AfterOne("bassEq", x, k, a)
           c == AfterOne("trebleEq", y, k, b)
<1>1. x \in Tones /\ y \in Tones
  BY DEF Tones
<1>2. EcoTones(on) = p \o q
  BY DEF EcoTones
<1> HIDE DEF x, y
<1>3. p \in Programs /\ Turns(p, k, a, b)
  BY <1>1, ToneTurns
<1> HIDE DEF b
<1>4. q \in Programs /\ Turns(q, k, b, c)
  BY <1>1, ToneTurns
<1> HIDE DEF p, q, c
<1>5. p \o q \in Programs /\ Turns(p \o q, k, a, c)
  BY <1>3, <1>4, Then
<1> QED
  BY <1>2, <1>5 DEF b, c, x, y

AfterMute(value, k, a) == IF k \in MuteBit THEN value ELSE a

LEMMA PairIs ==
  ASSUME NEW m, NEW n
  PROVE  <<m, n>> = <<m>> \o <<n>>
<1> DEFINE S == {m, n}
<1>1. <<m, n>> \in Seq(S) /\ <<m>> \in Seq(S) /\ <<n>> \in Seq(S)
  OBVIOUS
<1> HIDE DEF S
<1>2. <<m>> \o <<n>> \in Seq(S)
  BY <1>1
<1>3. Len(<<m, n>>) = 2 /\ Len(<<m>> \o <<n>>) = 2
  BY <1>1
<1>4. (<<m>> \o <<n>>)[1] = m /\ (<<m>> \o <<n>>)[2] = n
  BY <1>1
<1>5. ASSUME NEW i \in 1..2 PROVE <<m, n>>[i] = (<<m>> \o <<n>>)[i]
  BY <1>4
<1> QED
  BY <1>1, <1>2, <1>3, <1>5, SeqEqual

LEMMA MuteTurns ==
  ASSUME NEW value \in {"muted", "unmuted"}, NEW k \in Places, NEW a
  PROVE  /\ Mute(value) \in Programs
         /\ Turns(Mute(value), k, a, AfterMute(value, k, a))
<1> DEFINE m == Modify("tweeter", "mute", value)
           n == Modify("woofer", "mute", value)
           p == <<m>>
           q == <<n>>
           b == AfterModify("tweeter", "mute", value, k, a)
           c == AfterModify("woofer", "mute", value, k, b)
<1>1. c = AfterMute(value, k, a)
  BY DEF AfterMute, AfterModify, MuteBit
<1>2. p \in Programs /\ Turns(p, k, a, b)
  BY Names3, ModifyTurns DEF Bits
<1> HIDE DEF b
<1>3. q \in Programs /\ Turns(q, k, b, c)
  BY Names3, ModifyTurns DEF Bits
<1> HIDE DEF c, m, n
<1>4. <<m, n>> = p \o q
  BY PairIs
<1> HIDE DEF p, q
<1>5. p \o q \in Programs /\ Turns(p \o q, k, a, c)
  BY <1>2, <1>3, Then
<1> QED
  BY <1>1, <1>4, <1>5 DEF Mute, m, n

LEMMA EnableProgram ==
  ASSUME NEW value \in {"on", "off"}
  PROVE  Enable(value) \in Programs
<1> DEFINE op == Op("woofer", "none", "enable", "", value)
           l == <<op>>
<1>1. op \in Ops
  BY DEF Op, Ops, Chips, Pages, Kinds, Names, Written, Fits
<1> HIDE DEF op
<1>2. l \in Loads
  BY <1>1 DEF Loads
<1> HIDE DEF l
<1>3. <<l>> \in Programs
  BY <1>2 DEF Programs
<1> QED
  BY <1>3 DEF Enable, l, op
-----------------------------------------------------------------------------
\* What the programs leave where the settings are followed.
LEMMA FollowedCases ==
  ASSUME NEW k \in Followed
  PROVE  /\ k \in Places /\ k \notin MuteBit /\ k # Pin
         /\ \/ k = <<"reg", "program">> \/ k = <<"reg", "left">> \/ k = <<"reg", "bands">> \/ k = <<"reg", "drc">>
            \/ k = <<"reg", "path">> \/ k = <<"reg", "bassEq">> \/ k = <<"reg", "bypassEq">> \/ k = <<"reg", "gpio">>
            \/ k = <<"reg", "tVolume">> \/ k = <<"reg", "tDrc">> \/ k = <<"reg", "trebleEq">> \/ k = <<"reg", "misc">>
            \/ k = <<"woofer", "state">> \/ k = <<"tweeter", "state">>
<1>1. CASE k \in StateBits
  BY <1>1 DEF StateBits, Places, MuteBit, Pin
<1>2. CASE k \notin StateBits
  <2>1. PICK r \in Registers : k = <<"reg", r>> /\ r # "right"
    BY <1>2 DEF Followed
  <2>2. k \in Places /\ k \notin MuteBit /\ k # Pin
    BY <2>1 DEF Places, MuteBit, Pin
  <2> QED
    BY <2>1, <2>2 DEF Registers
<1> QED
  BY <1>1, <1>2

AfterOn(e, x, y, k, a) ==
    LET b == AfterTweeter(k, AfterWoofer(k, a))
        c == IF e THEN AfterEco(TRUE, k, b) ELSE b
    IN AfterOne("trebleEq", IF e THEN "0dB" ELSE y, k, AfterOne("bassEq", IF e THEN "0dB" ELSE x, k, c))
AfterSwitch(on, x, y, k, a) ==
    AfterOne("trebleEq", IF on THEN "0dB" ELSE y, k, AfterOne("bassEq", IF on THEN "0dB" ELSE x, k, AfterEco(on, k, a)))

\* After the power on every place has what the settings ask for, whatever it had.
LEMMA OnValues ==
  ASSUME NEW e \in BOOLEAN, NEW x, NEW y, NEW a
  PROVE  /\ \A k \in Followed : AfterOn(e, x, y, k, a) = WantedBy(e, x, y, {}, k)
         /\ \A k \in MuteBit : AfterOn(e, x, y, k, a) = "unmuted"
         /\ AfterOn(e, x, y, Pin, a) = a
<1>1. ASSUME NEW k \in Followed PROVE AfterOn(e, x, y, k, a) = WantedBy(e, x, y, {}, k)
  BY FollowedCases DEF AfterOn, WantedBy, StateBits, AfterOne, AfterTwo, AfterEco, AfterWoofer, AfterTweeter, Configured,
                       WooferNormal, TweeterNormal
<1>2. ASSUME NEW k \in MuteBit PROVE AfterOn(e, x, y, k, a) = "unmuted"
  BY DEF MuteBit, AfterOn, AfterOne, AfterTwo, AfterEco, AfterWoofer, AfterTweeter, Configured, WooferNormal, TweeterNormal
<1>3. AfterOn(e, x, y, Pin, a) = a
  BY DEF Pin, AfterOn, AfterOne, AfterTwo, AfterEco, AfterWoofer, AfterTweeter, Configured, WooferNormal, TweeterNormal
<1> QED
  BY <1>1, <1>2, <1>3

\* Switching the eco mode changes what has to change.
LEMMA SwitchValues ==
  ASSUME NEW e \in BOOLEAN, NEW on \in BOOLEAN, NEW x, NEW y, NEW t
  PROVE  /\ \A k \in Followed : AfterSwitch(on, x, y, k, WantedBy(e, x, y, t, k)) = WantedBy(on, x, y, {}, k)
         /\ \A k \in MuteBit : \A a : AfterSwitch(on, x, y, k, a) = a
         /\ \A a : AfterSwitch(on, x, y, Pin, a) = a
<1>1. ASSUME NEW k \in Followed PROVE AfterSwitch(on, x, y, k, WantedBy(e, x, y, t, k)) = WantedBy(on, x, y, {}, k)
  BY FollowedCases DEF AfterSwitch, WantedBy, StateBits, AfterOne, AfterTwo, AfterEco
<1>2. ASSUME NEW k \in MuteBit, NEW a PROVE AfterSwitch(on, x, y, k, a) = a
  BY DEF MuteBit, AfterSwitch, AfterOne, AfterTwo, AfterEco
<1>3. ASSUME NEW a PROVE AfterSwitch(on, x, y, Pin, a) = a
  BY DEF Pin, AfterSwitch, AfterOne, AfterTwo, AfterEco
<1> QED
  BY <1>1, <1>2, <1>3

LEMMA BassValues ==
  ASSUME NEW e \in BOOLEAN, NEW x, NEW y, NEW t, NEW s, s = t \cup {"bassEq"}, NEW db, NEW k \in Followed
  PROVE  AfterOne("bassEq", db, k, WantedBy(e, x, y, t, k)) = WantedBy(e, db, y, s, k)
  BY FollowedCases DEF WantedBy, StateBits, AfterOne

LEMMA TrebleValues ==
  ASSUME NEW e \in BOOLEAN, NEW x, NEW y, NEW t, NEW s, s = t \cup {"trebleEq"}, NEW db, NEW k \in Followed
  PROVE  AfterOne("trebleEq", db, k, WantedBy(e, x, y, t, k)) = WantedBy(e, x, db, s, k)
  BY FollowedCases DEF WantedBy, StateBits, AfterOne

OnProgram == SetupWoofer("normal") \o SetupTweeter("normal") \o (IF eco THEN EnableEcoMode(TRUE) ELSE <<>>) \o EcoTones(eco)

LEMMA OnTurns ==
  ASSUME eco \in BOOLEAN, bass \in Tones, treble \in Tones, NEW k \in Places, NEW a
  PROVE  OnProgram \in Programs /\ Turns(OnProgram, k, a, AfterOn(eco, bass, treble, k, a))
<1> DEFINE p1 == SetupWoofer("normal")
           p2 == SetupTweeter("normal")
           p3 == IF eco THEN EnableEcoMode(TRUE) ELSE <<>>
           p4 == EcoTones(eco)
           a1 == AfterWoofer(k, a)
           a2 == AfterTweeter(k, a1)
           a3 == IF eco THEN AfterEco(TRUE, k, a2) ELSE a2
           a4 == AfterOne("trebleEq", IF eco THEN "0dB" ELSE treble, k, AfterOne("bassEq", IF eco THEN "0dB" ELSE bass, k, a3))
           normal == "normal"
<1>0. normal \in {"normal", "bypass"} /\ normal = "normal"
  OBVIOUS
<1>1. p1 \in Programs /\ Turns(p1, k, a, a1)
  <2> HIDE DEF normal
  <2> QED
    BY <1>0, SetupWooferTurns
<1> HIDE DEF a1
<1>2. p2 \in Programs /\ Turns(p2, k, a1, a2)
  <2> HIDE DEF normal
  <2> QED
    BY <1>0, SetupTweeterTurns
<1> HIDE DEF a2
<1>3. p3 \in Programs /\ Turns(p3, k, a2, a3)
  <2>1. CASE eco
    <3>1. EnableEcoMode(TRUE) \in Programs /\ Turns(EnableEcoMode(TRUE), k, a2, AfterEco(TRUE, k, a2))
      BY EcoTurns
    <3> QED
      BY <2>1, <3>1
  <2>2. CASE ~eco
    BY <2>2, EmptyProgram
  <2> QED
    BY <2>1, <2>2
<1> HIDE DEF a3
<1>4. p4 \in Programs /\ Turns(p4, k, a3, a4)
  BY EcoTonesTurn
<1>5. OnProgram = p1 \o p2 \o p3 \o p4
  BY DEF OnProgram
<1>6. a4 = AfterOn(eco, bass, treble, k, a)
  BY DEF AfterOn, a1, a2, a3
<1> HIDE DEF p1, p2, p3, p4, a4
<1> DEFINE r1 == p1 \o p2
           r2 == r1 \o p3
           r3 == r2 \o p4
<1>7. r1 \in Programs /\ Turns(r1, k, a, a2)
  BY <1>1, <1>2, Then
<1> HIDE DEF r1
<1>8. r2 \in Programs /\ Turns(r2, k, a, a3)
  BY <1>3, <1>7, Then
<1> HIDE DEF r2
<1>9. r3 \in Programs /\ Turns(r3, k, a, a4)
  BY <1>4, <1>8, Then
<1> QED
  BY <1>5, <1>6, <1>9 DEF r1, r2

LEMMA SwitchTurns ==
  ASSUME bass \in Tones, treble \in Tones, NEW on \in BOOLEAN, NEW k \in Places, NEW a
  PROVE  /\ EnableEcoMode(on) \o EcoTones(on) \in Programs
         /\ Turns(EnableEcoMode(on) \o EcoTones(on), k, a, AfterSwitch(on, bass, treble, k, a))
<1> DEFINE p == EnableEcoMode(on)
           q == EcoTones(on)
           b == AfterEco(on, k, a)
           c == AfterOne("trebleEq", IF on THEN "0dB" ELSE treble, k, AfterOne("bassEq", IF on THEN "0dB" ELSE bass, k, b))
<1>1. p \in Programs /\ Turns(p, k, a, b)
  BY EcoTurns
<1>2. c = AfterSwitch(on, bass, treble, k, a)
  BY DEF AfterSwitch
<1> HIDE DEF b
<1>3. q \in Programs /\ Turns(q, k, b, c)
  BY EcoTonesTurn
<1> HIDE DEF c, p, q
<1>4. p \o q \in Programs /\ Turns(p \o q, k, a, c)
  BY <1>1, <1>3, Then
<1> QED
  BY <1>2, <1>4 DEF p, q

\* Muted and unmuted again: nothing else is written to.
LEMMA JackTurns ==
  ASSUME NEW k \in Places, NEW a
  PROVE  /\ Mute("muted") \o Mute("unmuted") \in Programs
         /\ Turns(Mute("muted") \o Mute("unmuted"), k, a, AfterMute("unmuted", k, a))
<1> DEFINE p == Mute("muted")
           q == Mute("unmuted")
           b == AfterMute("muted", k, a)
           c == AfterMute("unmuted", k, b)
<1>1. c = AfterMute("unmuted", k, a)
  BY DEF AfterMute
<1>2. p \in Programs /\ Turns(p, k, a, b)
  BY MuteTurns
<1> HIDE DEF b
<1>3. q \in Programs /\ Turns(q, k, b, c)
  BY MuteTurns
<1> HIDE DEF c, p, q
<1>4. p \o q \in Programs /\ Turns(p \o q, k, a, c)
  BY <1>2, <1>3, Then
<1> QED
  BY <1>1, <1>4 DEF p, q
-----------------------------------------------------------------------------
\* The first step of a program that fails leaves the rest of it.
LEMMA TailTurns ==
  ASSUME NEW p \in Programs, p # <<>>, NEW k
  PROVE  /\ Tail(p) \in Programs
         /\ Spares(p, k) => Spares(Tail(p), k)
         /\ \A a : Turns(p, k, a, a) => Turns(Tail(p), k, a, a)
<1> DEFINE s == Tail(p)
<1>1. /\ s \in Programs /\ Len(p) \in Nat /\ Len(p) > 0 /\ Len(s) = Len(p) - 1
      /\ \A i \in 1..Len(s) : i + 1 \in 1..Len(p) /\ s[i] = p[i + 1]
      /\ \A i \in 1..Len(p) : i # 1 => i - 1 \in 1..Len(s) /\ p[i] = s[i - 1]
  BY TailOf DEF Programs
<1> HIDE DEF s
<1>2. Spares(p, k) => Spares(s, k)
  BY <1>1 DEF Spares
<1>3. ASSUME NEW a, Turns(p, k, a, a) PROVE Turns(s, k, a, a)
  <2>1. CASE Spares(p, k)
    BY <1>2, <2>1 DEF Turns
  <2>2. CASE Leaves(p, k, a)
    <3>1. PICK i \in 1..Len(p) : LoadLeaves(p[i], k, a) /\ \A m \in i + 1..Len(p) : LoadSpares(p[m], k)
      BY <2>2 DEF Leaves
    <3>2. ASSUME NEW m \in i..Len(s), m \in 1..Len(s) PROVE LoadSpares(s[m], k)
      <4>1. m + 1 \in i + 1..Len(p)
        BY <1>1, <3>2
      <4> QED
        BY <1>1, <3>1, <3>2, <4>1
    <3>3. CASE i = 1
      <4>1. Spares(s, k)
        BY <1>1, <3>2, <3>3 DEF Spares
      <4> QED
        BY <4>1 DEF Turns
    <3>4. CASE i # 1
      <4>1. i - 1 \in 1..Len(s) /\ LoadLeaves(s[i - 1], k, a)
        BY <1>1, <3>1, <3>4
      <4>2. ASSUME NEW m \in (i - 1) + 1..Len(s) PROVE LoadSpares(s[m], k)
        <5>1. m \in i..Len(s) /\ m \in 1..Len(s)
          BY <1>1, <4>1
        <5> QED
          BY <3>2, <5>1
      <4> QED
        BY <4>1, <4>2 DEF Turns, Leaves
    <3> QED
      BY <3>3, <3>4
  <2> QED
    BY <1>3, <2>1, <2>2 DEF Turns
<1> QED
  BY <1>1, <1>2, <1>3 DEF s

\* A transaction that does not interfere writes what the operation says.
LEMMA TransactHolds ==
  ASSUME AmpTypeOK, TodoOK, NEW t \in Callers, Transact(t), ~raced',
         NEW op, op = ampTodo[t][1][1], op \in Ops, NEW k \in Places, k # Pin
  PROVE  Holds(k)' = IF Touches(op, k) THEN Writes(op, k) ELSE Holds(k)
<1>0. /\ ctrl \in [Chips -> ControlRegister] /\ reg \in [Registers -> Values] /\ data \in [Callers -> ControlRegister]
      /\ raced \in BOOLEAN
  BY DEF AmpTypeOK
<1>1. /\ op.chip \in Chips /\ op.kind \in Kinds /\ op.register \in Names /\ op.value \in Written
      /\ Fits(op.kind, op.register, op.value)
  BY DEF Ops
<1>2. /\ ~raced /\ ~Races(t, op)
      /\ Select(op) \/ ReadControl(t, op) \/ WriteBack(t, op) \/ WriteRegister(op)
  BY DEF Transact, Interfere
<1>3. \/ \E r \in Registers : k = <<"reg", r>>
      \/ \E c \in Chips : k = <<c, "state">> \/ k = <<c, "mute">>
  BY PlaceCases
<1>4. "reg" \notin Chips /\ "ctrl" \notin Registers
  BY DEF Chips, Registers
<1>5. CASE Select(op) \/ ReadControl(t, op)
  <2>1. op.kind \in {"select", "read"} /\ UNCHANGED <<reg, ctrl>>
    BY <1>5 DEF Select, ReadControl
  <2> QED
    BY <2>1, ReadsTouchNothing DEF Holds
<1>6. CASE WriteRegister(op)
  <2>1. CASE op.register # "ctrl"
    <3>1. reg' = [reg EXCEPT ![op.register] = op.value] /\ ctrl' = ctrl /\ op.kind = "write"
      BY <1>6, <2>1 DEF WriteRegister
    <3>2. op.register \in Registers
      BY <1>1, <2>1, <3>1 DEF Names, Fits
    <3>3. Touches(op, k) <=> k = <<"reg", op.register>>
      BY <2>1, <3>1 DEF Touches
    <3>4. Writes(op, k) = op.value
      BY <2>1 DEF Writes
    <3>5. CASE \E r \in Registers : k = <<"reg", r>>
      <4>1. PICK r \in Registers : k = <<"reg", r>>
        BY <3>5
      <4>2. Holds(k) = reg[r] /\ Holds(k)' = reg'[r]
        BY <4>1 DEF Holds
      <4>3. reg'[r] = IF r = op.register THEN op.value ELSE reg[r]
        BY <1>0, <3>1, <3>2
      <4>4. k = <<"reg", op.register>> <=> r = op.register
        BY <4>1
      <4> QED
        BY <3>3, <3>4, <4>2, <4>3, <4>4
    <3>6. CASE \E c \in Chips : k = <<c, "state">> \/ k = <<c, "mute">>
      <4>1. k[1] # "reg" /\ k # <<"reg", op.register>>
        BY <1>4, <3>6
      <4> QED
        BY <3>1, <3>3, <4>1 DEF Holds
    <3> QED
      BY <1>3, <3>5, <3>6
  <2>2. CASE op.register = "ctrl"
    <3>1. ctrl' = [ctrl EXCEPT ![op.chip] = [state |-> "play", mute |-> "unmuted"]] /\ reg' = reg /\ op.kind = "write"
      BY <1>6, <2>2 DEF WriteRegister
    <3>2. Touches(op, k) <=> k = <<op.chip, "state">> \/ k = <<op.chip, "mute">>
      BY <2>2, <3>1 DEF Touches
    <3>3. Writes(op, k) = IF k[2] = "state" THEN "play" ELSE "unmuted"
      BY <2>2, <3>1 DEF Writes
    <3>4. CASE \E r \in Registers : k = <<"reg", r>>
      <4>1. k[1] = "reg" /\ k # <<op.chip, "state">> /\ k # <<op.chip, "mute">>
        BY <1>1, <1>4, <3>4
      <4> QED
        BY <3>1, <3>2, <4>1 DEF Holds
    <3>5. ASSUME NEW c \in Chips, k = <<c, "state">> PROVE Holds(k)' = IF Touches(op, k) THEN Writes(op, k) ELSE Holds(k)
      <4>1. Holds(k) = ctrl[c].state /\ Holds(k)' = ctrl'[c].state
        BY <1>4, <3>5 DEF Holds
      <4>2. Touches(op, k) <=> c = op.chip
        BY <3>2, <3>5
      <4>3. Writes(op, k) = "play"
        BY <3>3, <3>5
      <4> QED
        BY <1>0, <1>1, <3>1, <4>1, <4>2, <4>3
    <3>6. ASSUME NEW c \in Chips, k = <<c, "mute">> PROVE Holds(k)' = IF Touches(op, k) THEN Writes(op, k) ELSE Holds(k)
      <4>1. Holds(k) = ctrl[c].mute /\ Holds(k)' = ctrl'[c].mute
        BY <1>4, <3>6 DEF Holds
      <4>2. Touches(op, k) <=> c = op.chip
        BY <3>2, <3>6
      <4>3. Writes(op, k) = "unmuted"
        BY <3>3, <3>6
      <4> QED
        BY <1>0, <1>1, <3>1, <4>1, <4>2, <4>3
    <3> QED
      BY <1>3, <3>4, <3>5, <3>6
  <2> QED
    BY <2>1, <2>2
<1>7. CASE WriteBack(t, op)
  <2>1. op.kind \in {"state", "mute"} /\ reg' = reg /\ ctrl' = [ctrl EXCEPT ![op.chip] = [data[t] EXCEPT ![op.kind] = op.value]]
    BY <1>7 DEF WriteBack
  <2>2. data[t] = ctrl[op.chip]
    BY <1>2, <2>1 DEF Races
  <2>3. Touches(op, k) <=> k = <<op.chip, op.kind>>
    BY <2>1 DEF Touches
  <2>4. Writes(op, k) = op.value
    BY <2>1 DEF Writes
  <2>5. CASE \E r \in Registers : k = <<"reg", r>>
    <3>1. k[1] = "reg" /\ k # <<op.chip, op.kind>>
      BY <1>1, <1>4, <2>5
    <3> QED
      BY <2>1, <2>3, <3>1 DEF Holds
  <2>6. ASSUME NEW c \in Chips, k = <<c, "state">> PROVE Holds(k)' = IF Touches(op, k) THEN Writes(op, k) ELSE Holds(k)
    <3>1. Holds(k) = ctrl[c].state /\ Holds(k)' = ctrl'[c].state
      BY <1>4, <2>6 DEF Holds
    <3>2. Touches(op, k) <=> c = op.chip /\ op.kind = "state"
      BY <2>3, <2>6
    <3> QED
      BY <1>0, <1>1, <2>1, <2>2, <2>4, <3>1, <3>2 DEF ControlRegister
  <2>7. ASSUME NEW c \in Chips, k = <<c, "mute">> PROVE Holds(k)' = IF Touches(op, k) THEN Writes(op, k) ELSE Holds(k)
    <3>1. Holds(k) = ctrl[c].mute /\ Holds(k)' = ctrl'[c].mute
      BY <1>4, <2>7 DEF Holds
    <3>2. Touches(op, k) <=> c = op.chip /\ op.kind = "mute"
      BY <2>3, <2>7
    <3> QED
      BY <1>0, <1>1, <2>1, <2>2, <2>4, <3>1, <3>2 DEF ControlRegister
  <2> QED
    BY <1>3, <2>5, <2>6, <2>7
<1> QED
  BY <1>2, <1>5, <1>6, <1>7-----------------------------------------------------------------------------
\* The steps.
LEMMA AmpInitial ==
  ASSUME AmpInit
  PROVE  AmpInv
<1>1. \A k, a : <<>> \in Programs /\ Spares(<<>>, k) /\ Turns(<<>>, k, a, a)
  BY EmptyProgram
<1>2. \A t \in Callers : ampTodo[t] = <<>>
  BY DEF AmpInit
<1>3. TodoOK
  BY <1>1 DEF AmpInit, TodoOK
<1>4. AmpTypeOK
  <2>1. page \in [Chips -> Pages]
    BY DEF AmpInit, Pages
  <2>2. reg \in [Registers -> Values]
    BY DEF AmpInit, Lost, Values
  <2>3. ctrl \in [Chips -> ControlRegister] /\ data \in [Callers -> ControlRegister]
    BY DEF AmpInit, AfterReset, ControlRegister, Chips
  <2>4. DOMAIN ampTodo = Callers /\ {bass, treble} \subseteq Tones /\ ampAsked \in 0..AmpAsks
    BY AmpAssumption DEF AmpInit, Tones
  <2>5. /\ ampPower \in {"off", "preOn", "on"} /\ profile \in {"normal", "bypass", "tested"} /\ tuned \subseteq {"bassEq", "trebleEq"}
        /\ {eco, ampFailed, raced} \subseteq BOOLEAN
    BY DEF AmpInit
  <2> QED
    BY <2>1, <2>2, <2>3, <2>4, <2>5 DEF AmpTypeOK
<1>5. BluetoothInv /\ AudioInv /\ MuteInv
  BY <1>1, <1>2 DEF AmpInit, BluetoothInv, AudioInv, MuteInv, Callers
<1> QED
  BY <1>3, <1>4, <1>5 DEF AmpInv

\* What a task is given to do.
LEMMA GivesTodo ==
  ASSUME TodoOK, NEW t \in Callers, NEW p, Gives(t, p)
  PROVE  /\ ampTodo'[t] = p
         /\ \A u \in Callers : u # t => ampTodo'[u] = ampTodo[u]
         /\ DOMAIN ampTodo' = Callers
         /\ p \in Programs => TodoOK'
  BY DEF TodoOK, Gives

LEMMA FirstOp ==
  ASSUME TodoOK, NEW t \in Callers, ampTodo[t] # <<>>
  PROVE  /\ ampTodo[t] \in Programs /\ ampTodo[t][1][1] \in Ops
         /\ Rest(ampTodo[t]) \in Programs /\ Tail(ampTodo[t]) \in Programs
         /\ Drop(t) => Gives(t, Rest(ampTodo[t]))
<1>1. ampTodo[t] \in Programs
  BY DEF TodoOK
<1> QED
  BY <1>1, RestTurns, TailTurns DEF Drop, Rest

LEMMA TransactTypes ==
  ASSUME AmpTypeOK, TodoOK, NEW t \in Callers, Transact(t)
  PROVE  AmpTypeOK' /\ TodoOK'
<1> DEFINE op == ampTodo[t][1][1]
<1>1. Gives(t, Rest(ampTodo[t])) /\ Rest(ampTodo[t]) \in Programs /\ op \in Ops
  BY FirstOp DEF Transact
<1>2. TodoOK' /\ DOMAIN ampTodo' = Callers
  BY <1>1, GivesTodo
<1>3. \/ Interfere
      \/ (Select(op) \/ ReadControl(t, op) \/ WriteBack(t, op) \/ WriteRegister(op)) /\ UNCHANGED raced
  BY DEF Transact
<1>4. UNCHANGED <<AmpSettings, ampFailed>>
  BY DEF Transact
<1> HIDE DEF op
<1>5. /\ op.chip \in Chips /\ op.page \in Pages /\ op.kind \in Kinds /\ op.register \in Names /\ op.value \in Written
      /\ Fits(op.kind, op.register, op.value)
  BY <1>1 DEF Ops
<1>6. /\ ctrl \in [Chips -> ControlRegister] /\ reg \in [Registers -> Values] /\ data \in [Callers -> ControlRegister]
      /\ page \in [Chips -> Pages] /\ raced \in BOOLEAN
  BY DEF AmpTypeOK
<1>7. /\ ctrl' \in [Chips -> ControlRegister] /\ reg' \in [Registers -> Values] /\ data' \in [Callers -> ControlRegister]
      /\ page' \in [Chips -> Pages] /\ raced' \in BOOLEAN
  <2>1. CASE Interfere
    BY <1>6, <2>1 DEF Interfere, Lost, AfterReset, ControlRegister, Values, Chips
  <2>2. CASE Select(op) /\ UNCHANGED raced
    BY <1>5, <1>6, <2>2 DEF Select
  <2>3. CASE ReadControl(t, op) /\ UNCHANGED raced
    BY <1>5, <1>6, <2>3 DEF ReadControl
  <2>4. CASE WriteBack(t, op) /\ UNCHANGED raced
    <3>1. [data[t] EXCEPT ![op.kind] = op.value] \in ControlRegister
      BY <1>5, <1>6, <2>4 DEF WriteBack, ControlRegister, Fits
    <3> QED
      BY <1>5, <1>6, <2>4, <3>1 DEF WriteBack
  <2>5. CASE WriteRegister(op) /\ UNCHANGED raced
    <3>1. op.register # "ctrl" => op.register \in Registers /\ op.value \in Values
      BY <1>5, <2>5 DEF WriteRegister, Fits, Names
    <3> QED
      BY <1>5, <1>6, <2>5, <3>1 DEF WriteRegister, ControlRegister
  <2> QED
    BY <1>3, <2>1, <2>2, <2>3, <2>4, <2>5
<1> QED
  BY <1>2, <1>4, <1>7 DEF AmpTypeOK, AmpSettings

LEMMA SetPinTypes ==
  ASSUME AmpTypeOK, TodoOK, NEW t \in Callers, SetPin(t)
  PROVE  AmpTypeOK' /\ TodoOK'
<1>1. Gives(t, Rest(ampTodo[t])) /\ Rest(ampTodo[t]) \in Programs
  BY FirstOp DEF SetPin
<1>2. TodoOK' /\ DOMAIN ampTodo' = Callers
  BY <1>1, GivesTodo
<1>3. page' \in [Chips -> Pages]
  BY DEF SetPin, Pages
<1>4. reg' \in [Registers -> Values] /\ ctrl' \in [Chips -> ControlRegister]
  BY DEF SetPin, Lost, AfterReset, Values, ControlRegister
<1>5. ampFailed' \in BOOLEAN /\ raced' \in BOOLEAN /\ UNCHANGED <<AmpSettings, data>>
  BY DEF SetPin
<1> QED
  BY <1>2, <1>3, <1>4, <1>5 DEF AmpTypeOK, AmpSettings

LEMMA FailLoadTypes ==
  ASSUME AmpTypeOK, TodoOK, NEW t \in Callers, FailLoad(t)
  PROVE  AmpTypeOK' /\ TodoOK'
<1>1. Gives(t, Tail(ampTodo[t])) /\ Tail(ampTodo[t]) \in Programs
  BY FirstOp DEF FailLoad
<1>2. TodoOK' /\ DOMAIN ampTodo' = Callers
  BY <1>1, GivesTodo
<1> QED
  BY <1>2 DEF FailLoad, AmpTypeOK, AmpSettings

LEMMA AmpAskTypes ==
  ASSUME AmpTypeOK, TodoOK, AmpAsk
  PROVE  AmpTypeOK' /\ TodoOK'
<1>0. /\ ampAsked' \in 0..AmpAsks /\ UNCHANGED <<asks, page, reg, ctrl, data, ampFailed, raced>>
      /\ "Audio" \in Callers /\ "Bluetooth" \in Callers
      /\ eco \in BOOLEAN /\ bass \in Tones /\ treble \in Tones
  BY AmpAssumption DEF AmpAsk, AmpTypeOK, Callers
<1>1. \A p : p \in Programs /\ (Gives("Audio", p) \/ Gives("Bluetooth", p)) => TodoOK' /\ DOMAIN ampTodo' = Callers
  BY <1>0, GivesTodo
<1>2. Pin \in Places
  BY PinElsewhere
<1>p. /\ \A value \in {"on", "off"} : Enable(value) \in Programs
      /\ \A value \in {"muted", "unmuted"} : Mute(value) \in Programs
      /\ Mute("muted") \o Mute("unmuted") \in Programs
      /\ OnProgram \in Programs
      /\ \A on \in BOOLEAN : EnableEcoMode(on) \o EcoTones(on) \in Programs
      /\ \A db \in Tones : SetBass(db) \in Programs /\ SetTreble(db) \in Programs
      /\ \A mode \in {"normal", "bypass"} : SetupWoofer(mode) \in Programs /\ SetupTweeter(mode) \in Programs
  BY <1>0, <1>2, EnableProgram, MuteTurns, JackTurns, OnTurns, SwitchTurns, ToneTurns, SetupWooferTurns, SetupTweeterTurns
<1>j. \A p, q : p \in Programs /\ q \in Programs => p \o q \in Programs
  BY Joined
<1>3. TodoOK' /\ DOMAIN ampTodo' = Callers
  <2>1. CASE PreOnAmps
    BY <1>1, <1>p, <2>1 DEF PreOnAmps, Does
  <2>2. CASE OnAmps
    BY <1>1, <1>p, <2>2 DEF OnAmps, Does, OnProgram
  <2>3. CASE DisableAmps
    BY <1>1, <1>p, <1>j, <2>3 DEF DisableAmps, Does
  <2>4. CASE HandleEcoMode
    BY <1>1, <1>p, <2>4 DEF HandleEcoMode, Does
  <2>5. CASE HandleTone
    BY <1>1, <1>p, <2>5 DEF HandleTone, Does
  <2>6. CASE HandleJack
    BY <1>1, <1>p, <2>6 DEF HandleJack, Does
  <2>7. CASE UsbGone
    BY <1>1, <1>p, <2>7 DEF UsbGone
  <2>8. CASE BypassTest
    BY <1>1, <1>p, <1>j, <2>8 DEF BypassTest
  <2> QED
    BY <2>1, <2>2, <2>3, <2>4, <2>5, <2>6, <2>7, <2>8 DEF AmpAsk
<1>4. /\ ampPower' \in {"off", "preOn", "on"} /\ {bass', treble'} \subseteq Tones /\ eco' \in BOOLEAN
      /\ profile' \in {"normal", "bypass", "tested"} /\ tuned' \subseteq {"bassEq", "trebleEq"}
  BY DEF AmpAsk, AmpTypeOK, PreOnAmps, OnAmps, DisableAmps, HandleEcoMode, HandleTone, HandleJack, UsbGone, BypassTest
<1> QED
  BY <1>0, <1>3, <1>4 DEF AmpTypeOK
\* What the two tasks still have to do, after one operation of task t.
LEMMA TransactInv ==
  ASSUME AmpInv, NEW t \in Callers, Transact(t)
  PROVE  BluetoothInv' /\ AudioInv' /\ MuteInv'
<1>0. AmpTypeOK /\ TodoOK /\ BluetoothInv /\ AudioInv /\ MuteInv
  BY DEF AmpInv
<1> DEFINE op == ampTodo[t][1][1]
<1>1. Gives(t, Rest(ampTodo[t])) /\ ampTodo[t] \in Programs /\ ampTodo[t] # <<>> /\ op \in Ops
  BY <1>0, FirstOp DEF Transact
<1>2. ampTodo'[t] = Rest(ampTodo[t]) /\ \A u \in Callers : u # t => ampTodo'[u] = ampTodo[u]
  BY <1>0, <1>1, GivesTodo
<1>3. op.kind # "enable" /\ UNCHANGED <<ampPower, eco, bass, treble, profile, tuned, ampFailed>>
  BY DEF Transact, AmpSettings
<1>4. \A k : /\ Spares(ampTodo[t], k) <=> ~Touches(op, k) /\ Spares(ampTodo'[t], k)
             /\ \A a, b : Turns(ampTodo[t], k, a, b) =>
                   /\ Touches(op, k) => Turns(ampTodo'[t], k, Writes(op, k), b)
                   /\ ~Touches(op, k) => Turns(ampTodo'[t], k, a, b)
  BY <1>1, <1>2, RestTurns
<1>h. ASSUME ~raced', NEW k \in Places, k # Pin
      PROVE  Holds(k)' = IF Touches(op, k) THEN Writes(op, k) ELSE Holds(k)
  BY <1>0, <1>1, <1>h, TransactHolds
<1> HIDE DEF op
<1>5. t = "Audio" \/ t = "Bluetooth"
  BY DEF Callers
<1>6. "Audio" \in Callers /\ "Bluetooth" \in Callers
  BY DEF Callers
\* A program that ends with the same value whatever it finds goes on to do so.
<1>7. \A k, b : Turns(ampTodo[t], k, b, b) => Turns(ampTodo'[t], k, b, b)
  BY <1>4 DEF Turns
<1>8. \A k : Wanted(k)' = Wanted(k)
  BY <1>3 DEF Wanted
<1>9. Normal' => Normal /\ ~raced'
  BY <1>0, <1>3 DEF Normal, Transact, Interfere
<1>10. \A k \in Followed : k \in Places /\ k \notin MuteBit /\ k # Pin
  BY FollowedCases
<1>11. \A k \in MuteBit : k \in Places /\ k # Pin
  BY DEF MuteBit, Places, Pin
<1>12. BluetoothInv'
  <2>1. CASE t = "Audio"
    BY <1>0, <1>2, <1>3, <1>6, <2>1 DEF BluetoothInv
  <2>2. CASE t = "Bluetooth"
    BY <1>0, <1>3, <1>4, <1>7, <2>2 DEF BluetoothInv
  <2> QED
    BY <1>5, <2>1, <2>2
<1>13. AudioInv'
  <2> SUFFICES ASSUME ampPower' = "on"
               PROVE  /\ Spares(ampTodo'["Audio"], Pin)
                      /\ Normal' => \A k \in Followed : Turns(ampTodo'["Audio"], k, Holds(k)', Wanted(k)')
    BY DEF AudioInv
  <2>1. CASE t = "Audio"
    <3>1. Spares(ampTodo'["Audio"], Pin)
      BY <1>0, <1>3, <1>4, <2>1 DEF AudioInv
    <3>2. ASSUME Normal', NEW k \in Followed PROVE Turns(ampTodo'["Audio"], k, Holds(k)', Wanted(k)')
      <4>1. Turns(ampTodo[t], k, Holds(k), Wanted(k))
        BY <1>0, <1>3, <1>9, <2>1, <3>2 DEF AudioInv
      <4>2. Holds(k)' = IF Touches(op, k) THEN Writes(op, k) ELSE Holds(k)
        BY <1>9, <1>10, <1>h, <3>2
      <4> QED
        BY <1>4, <1>8, <2>1, <4>1, <4>2
    <3> QED
      BY <3>1, <3>2
  <2>2. CASE t = "Bluetooth"
    <3>1. ampTodo'["Audio"] = ampTodo["Audio"]
      BY <1>2, <1>6, <2>2
    <3>2. ASSUME Normal', NEW k \in Followed PROVE Turns(ampTodo'["Audio"], k, Holds(k)', Wanted(k)')
      <4>1. Turns(ampTodo["Audio"], k, Holds(k), Wanted(k))
        BY <1>0, <1>3, <1>9, <3>2 DEF AudioInv
      <4>2. Spares(ampTodo[t], k)
        BY <1>0, <1>9, <1>10, <2>2, <3>2 DEF BluetoothInv, Normal
      <4>3. Holds(k)' = Holds(k)
        BY <1>4, <1>9, <1>10, <1>h, <3>2, <4>2
      <4> QED
        BY <1>8, <3>1, <4>1, <4>3
    <3> QED
      BY <1>0, <1>3, <3>1, <3>2 DEF AudioInv
  <2> QED
    BY <1>5, <2>1, <2>2
<1>14. MuteInv'
  <2> SUFFICES ASSUME ampPower' = "on", Normal', NEW k \in MuteBit
               PROVE  /\ Turns(ampTodo'["Audio"], k, "unmuted", "unmuted")
                      /\ (\A u \in Callers : Spares(ampTodo'[u], k)) => Holds(k)' = "unmuted"
    BY DEF MuteInv
  <2>1. /\ Turns(ampTodo["Audio"], k, "unmuted", "unmuted")
        /\ (\A u \in Callers : Spares(ampTodo[u], k)) => Holds(k) = "unmuted"
    BY <1>0, <1>3, <1>9 DEF MuteInv
  <2>2. Turns(ampTodo[t], k, "unmuted", "unmuted")
    BY <1>0, <1>5, <1>9, <2>1 DEF BluetoothInv, Normal
  <2>3. Turns(ampTodo'["Audio"], k, "unmuted", "unmuted")
    BY <1>2, <1>6, <1>7, <2>1
  <2>4. ASSUME \A u \in Callers : Spares(ampTodo'[u], k) PROVE Holds(k)' = "unmuted"
    <3>1. Holds(k)' = IF Touches(op, k) THEN Writes(op, k) ELSE Holds(k)
      BY <1>9, <1>11, <1>h
    <3>2. CASE Touches(op, k)
      <4>1. Turns(ampTodo'[t], k, Writes(op, k), "unmuted") /\ Spares(ampTodo'[t], k)
        BY <1>4, <2>2, <2>4, <3>2
      <4>2. Writes(op, k) = "unmuted"
        BY <4>1, TurnsOne DEF Turns
      <4> QED
        BY <3>1, <3>2, <4>2
    <3>3. CASE ~Touches(op, k)
      <4>1. \A u \in Callers : Spares(ampTodo[u], k)
        BY <1>2, <1>4, <2>4, <3>3
      <4> QED
        BY <2>1, <3>1, <3>3, <4>1
    <3> QED
      BY <3>2, <3>3
  <2> QED
    BY <2>3, <2>4
<1> QED
  BY <1>12, <1>13, <1>14

\* The pin is written while the amplifiers are off or about to be set up.
LEMMA SetPinInv ==
  ASSUME AmpInv, NEW t \in Callers, SetPin(t)
  PROVE  BluetoothInv' /\ AudioInv' /\ MuteInv'
<1>0. AmpTypeOK /\ TodoOK /\ BluetoothInv /\ AudioInv /\ MuteInv
  BY DEF AmpInv
<1>1. Gives(t, Rest(ampTodo[t])) /\ ampTodo[t] \in Programs /\ ampTodo[t] # <<>>
  BY <1>0, FirstOp DEF SetPin
<1>2. \A u \in Callers : u # t => ampTodo'[u] = ampTodo[u]
  BY <1>0, <1>1, GivesTodo
<1>3. Touches(ampTodo[t][1][1], Pin)
  BY DEF SetPin, Touches
<1>4. ~Spares(ampTodo[t], Pin)
  BY <1>1, <1>3, RestTurns
<1>5. t = "Audio" /\ "Bluetooth" \in Callers /\ ampPower # "on"
  BY <1>0, <1>4 DEF BluetoothInv, AudioInv, Callers
<1>6. UNCHANGED <<ampPower, profile>>
  BY DEF SetPin, AmpSettings
<1> QED
  BY <1>0, <1>2, <1>5, <1>6 DEF BluetoothInv, AudioInv, MuteInv

LEMMA FailLoadInv ==
  ASSUME AmpInv, NEW t \in Callers, FailLoad(t)
  PROVE  BluetoothInv' /\ AudioInv' /\ MuteInv'
<1>0. AmpTypeOK /\ TodoOK /\ BluetoothInv /\ AudioInv /\ MuteInv
  BY DEF AmpInv
<1>1. Gives(t, Tail(ampTodo[t])) /\ ampTodo[t] \in Programs /\ ampTodo[t] # <<>>
  BY <1>0, FirstOp DEF FailLoad
<1>2. ampTodo'[t] = Tail(ampTodo[t]) /\ \A u \in Callers : u # t => ampTodo'[u] = ampTodo[u]
  BY <1>0, <1>1, GivesTodo
<1>3. \A k : /\ Spares(ampTodo[t], k) => Spares(ampTodo'[t], k)
             /\ \A a : Turns(ampTodo[t], k, a, a) => Turns(ampTodo'[t], k, a, a)
  BY <1>1, <1>2, TailTurns
<1>4. ~Normal' /\ UNCHANGED <<ampPower, profile>>
  BY DEF FailLoad, Normal, AmpSettings
<1>5. \A u \in Callers : \A k : Spares(ampTodo[u], k) => Spares(ampTodo'[u], k)
  BY <1>2, <1>3
<1>6. \A u \in Callers : \A k, a : Turns(ampTodo[u], k, a, a) => Turns(ampTodo'[u], k, a, a)
  BY <1>2, <1>3
<1>7. BluetoothInv'
  BY <1>0, <1>4, <1>5, <1>6 DEF BluetoothInv, Callers
<1>8. AudioInv' /\ MuteInv'
  BY <1>0, <1>4, <1>5 DEF AudioInv, MuteInv, Callers
<1> QED
  BY <1>7, <1>8
\* The Audio task has done all that it had to do, and goes on with p.
LEMMA AudioGoesOn ==
  ASSUME AmpInv, ampTodo["Audio"] = <<>>, NEW p \in Programs, Does(p),
         UNCHANGED <<profile, page, reg, ctrl, data, ampFailed, raced>>,
         ampPower' = "on" => \A a : Turns(p, Pin, a, a),
         ampPower' = "on" /\ Normal' => \A k \in Followed : Turns(p, k, Holds(k), Wanted(k)'),
         ampPower' = "on" => ampPower = "on" /\ \A k \in MuteBit : Turns(p, k, "unmuted", "unmuted"),
         ampPower' = "preOn" => ampPower = "preOn"
  PROVE  BluetoothInv' /\ AudioInv' /\ MuteInv'
<1>0. AmpTypeOK /\ TodoOK /\ BluetoothInv /\ AudioInv /\ MuteInv
  BY DEF AmpInv
<1>1. "Audio" \in Callers /\ "Bluetooth" \in Callers /\ \A u \in Callers : u = "Audio" \/ u = "Bluetooth"
  BY DEF Callers
<1>2. ampTodo'["Audio"] = p /\ ampTodo'["Bluetooth"] = ampTodo["Bluetooth"]
  BY <1>0, <1>1, GivesTodo DEF Does
<1>3. (Normal' <=> Normal) /\ \A k : Holds(k)' = Holds(k)
  BY DEF Normal, Holds
<1>4. BluetoothInv'
  BY <1>0, <1>2 DEF BluetoothInv
<1>5. AudioInv'
  <2>1. ampPower' = "on" => Spares(p, Pin)
    BY TurnsNothing
  <2> QED
    BY <1>2, <1>3, <2>1 DEF AudioInv
<1>6. MuteInv'
  <2>1. \A k : Spares(ampTodo["Audio"], k)
    BY EmptyProgram
  <2>2. \A k : (\A u \in Callers : Spares(ampTodo'[u], k)) => \A u \in Callers : Spares(ampTodo[u], k)
    BY <1>1, <1>2, <2>1
  <2> QED
    BY <1>0, <1>2, <1>3, <2>2 DEF MuteInv
<1> QED
  BY <1>4, <1>5, <1>6

\* What an empty program says of the registers.
LEMMA NothingToDo ==
  ASSUME NEW k, NEW a, NEW b, Turns(<<>>, k, a, b)
  PROVE  a = b
<1>1. ~Leaves(<<>>, k, b)
  BY DEF Leaves
<1> QED
  BY <1>1 DEF Turns

LEMMA OnAmpsInv ==
  ASSUME AmpInv, ampTodo["Audio"] = <<>>, OnAmps, UNCHANGED <<page, reg, ctrl, data, ampFailed, raced>>
  PROVE  BluetoothInv' /\ AudioInv' /\ MuteInv'
<1>0. AmpTypeOK /\ TodoOK /\ BluetoothInv
  BY DEF AmpInv
<1>1. eco \in BOOLEAN /\ bass \in Tones /\ treble \in Tones /\ UNCHANGED <<eco, bass, treble>> /\ tuned' = {}
  BY <1>0 DEF AmpTypeOK, OnAmps
<1>2. \A k \in Places : \A a : OnProgram \in Programs /\ Turns(OnProgram, k, a, AfterOn(eco, bass, treble, k, a))
  BY <1>1, OnTurns
<1>3. \A a : /\ \A k \in Followed : AfterOn(eco, bass, treble, k, a) = WantedBy(eco, bass, treble, {}, k)
             /\ \A k \in MuteBit : AfterOn(eco, bass, treble, k, a) = "unmuted"
             /\ AfterOn(eco, bass, treble, Pin, a) = a
  BY <1>1, OnValues
<1>4. /\ \A k \in Followed : k \in Places
      /\ \A k \in MuteBit : k \in Places
      /\ Pin \in Places
  BY FollowedCases DEF MuteBit, Places
<1>5. "Audio" \in Callers /\ "Bluetooth" \in Callers /\ \A u \in Callers : u = "Audio" \/ u = "Bluetooth"
  BY DEF Callers
<1>6. ampTodo'["Audio"] = OnProgram /\ ampTodo'["Bluetooth"] = ampTodo["Bluetooth"]
  BY <1>0, <1>5, GivesTodo DEF OnAmps, Does, OnProgram
<1>7. \A k : Wanted(k)' = WantedBy(eco, bass, treble, {}, k)
  BY <1>1 DEF Wanted
<1>8. \A k : Holds(k)' = Holds(k)
  BY DEF Holds
<1>9. BluetoothInv'
  BY <1>0, <1>6 DEF BluetoothInv, OnAmps
<1>10. AudioInv'
  <2>1. \A a : Turns(OnProgram, Pin, a, a)
    <3> TAKE a
    <3> QED
      BY <1>2, <1>3, <1>4
  <2>2. Spares(OnProgram, Pin)
    BY <2>1, TurnsNothing
  <2>3. ASSUME NEW k \in Followed PROVE Turns(OnProgram, k, Holds(k)', Wanted(k)')
    BY <1>2, <1>3, <1>4, <1>7, <1>8
  <2> QED
    BY <1>6, <2>2, <2>3 DEF AudioInv
<1>11. MuteInv'
  <2> SUFFICES ASSUME NEW k \in MuteBit
               PROVE  Turns(OnProgram, k, "unmuted", "unmuted") /\ ~Spares(OnProgram, k)
    BY <1>5, <1>6 DEF MuteInv
  <2>1. \A a : Turns(OnProgram, k, a, "unmuted")
    <3> TAKE a
    <3> QED
      BY <1>2, <1>3, <1>4
  <2>2. Turns(OnProgram, k, "muted", "unmuted")
    BY <2>1
  <2> QED
    BY <2>1, <2>2, TurnsOne DEF Turns
<1> QED
  BY <1>9, <1>10, <1>11

LEMMA AudioAsksInv ==
  ASSUME AmpInv, ampTodo["Audio"] = <<>>, UNCHANGED <<page, reg, ctrl, data, ampFailed, raced>>,
         PreOnAmps \/ DisableAmps \/ HandleEcoMode \/ HandleTone \/ HandleJack
  PROVE  BluetoothInv' /\ AudioInv' /\ MuteInv'
<1>0. AmpTypeOK /\ TodoOK /\ BluetoothInv /\ AudioInv /\ MuteInv
  BY DEF AmpInv
<1>1. eco \in BOOLEAN /\ bass \in Tones /\ treble \in Tones
  BY <1>0 DEF AmpTypeOK
<1>2. /\ \A k \in Followed : k \in Places /\ k \notin MuteBit /\ k # Pin
      /\ \A k \in MuteBit : k \in Places /\ k # Pin
      /\ Pin \in Places
  BY FollowedCases DEF MuteBit, Places, Pin
\* It has done all: the registers are as asked for.
<1>3. ampPower = "on" /\ Normal => \A k \in Followed : Holds(k) = Wanted(k)
  BY <1>0, NothingToDo DEF AudioInv
<1>4. Normal' => Normal /\ UNCHANGED profile
  BY DEF Normal, PreOnAmps, DisableAmps, HandleEcoMode, HandleTone, HandleJack
<1>5. CASE PreOnAmps
  <2>1. Enable("on") \in Programs /\ Does(Enable("on")) /\ ampPower' = "preOn" /\ ampTodo["Bluetooth"] = <<>>
    BY <1>5, EnableProgram DEF PreOnAmps
  <2>2. ampTodo'["Bluetooth"] = <<>>
    BY <1>0, <2>1, GivesTodo DEF Does, Callers
  <2> QED
    BY <2>1, <2>2, EmptyProgram DEF BluetoothInv, AudioInv, MuteInv
<1>6. CASE DisableAmps
  <2>1. Does(Mute("muted") \o Enable("off")) /\ ampPower' = "off" /\ UNCHANGED profile
    BY <1>6 DEF DisableAmps
  <2>2. ampTodo'["Bluetooth"] = ampTodo["Bluetooth"]
    BY <1>0, <2>1, GivesTodo DEF Does, Callers
  <2> QED
    BY <1>0, <2>1, <2>2 DEF BluetoothInv, AudioInv, MuteInv
<1>7. CASE HandleEcoMode
  <2>1. PICK on \in BOOLEAN : eco' = on /\ Does(EnableEcoMode(on) \o EcoTones(on))
    BY <1>7 DEF HandleEcoMode
  <2>2. tuned' = {} /\ UNCHANGED <<ampPower, bass, treble, profile>>
    BY <1>7 DEF HandleEcoMode
  <2> DEFINE p == EnableEcoMode(on) \o EcoTones(on)
  <2>3. \A k \in Places : \A a : p \in Programs /\ Turns(p, k, a, AfterSwitch(on, bass, treble, k, a))
    BY <1>1, SwitchTurns
  <2>4. Does(p)
    BY <2>1
  <2> HIDE DEF p
  <2>5. p \in Programs
    BY <1>2, <2>3
  <2>6. /\ \A k \in Followed : AfterSwitch(on, bass, treble, k, WantedBy(eco, bass, treble, tuned, k)) = WantedBy(on, bass, treble, {}, k)
        /\ \A k \in MuteBit : \A a : AfterSwitch(on, bass, treble, k, a) = a
        /\ \A a : AfterSwitch(on, bass, treble, Pin, a) = a
    BY <1>1, SwitchValues
  <2>7. \A k \in MuteBit \cup {Pin} : \A a : Turns(p, k, a, a)
    <3> TAKE k \in MuteBit \cup {Pin}
    <3> TAKE a
    <3>1. AfterSwitch(on, bass, treble, k, a) = a /\ k \in Places
      BY <1>2, <2>6
    <3> QED
      BY <2>3, <3>1
  <2>8. ASSUME ampPower' = "on", Normal', NEW k \in Followed PROVE Turns(p, k, Holds(k), Wanted(k)')
    <3>1. Wanted(k)' = WantedBy(on, bass, treble, {}, k)
      BY <2>1, <2>2 DEF Wanted
    <3>2. Holds(k) = WantedBy(eco, bass, treble, tuned, k)
      BY <1>3, <1>4, <2>2, <2>8 DEF Wanted
    <3>3. AfterSwitch(on, bass, treble, k, Holds(k)) = Wanted(k)'
      BY <2>6, <3>1, <3>2
    <3> QED
      BY <1>2, <2>3, <3>3
  <2> QED
    BY <2>2, <2>4, <2>5, <2>7, <2>8, AudioGoesOn
<1>8. CASE HandleTone
  <2>1. PICK db \in Tones : \/ bass' = db /\ Does(SetBass(db)) /\ tuned' = tuned \cup {"bassEq"} /\ UNCHANGED treble
                            \/ treble' = db /\ Does(SetTreble(db)) /\ tuned' = tuned \cup {"trebleEq"} /\ UNCHANGED bass
    BY <1>8 DEF HandleTone
  <2>2. UNCHANGED <<ampPower, eco, profile>>
    BY <1>8 DEF HandleTone
  <2>3. \A k \in Places : \A a :
           /\ SetBass(db) \in Programs /\ Turns(SetBass(db), k, a, AfterOne("bassEq", db, k, a))
           /\ SetTreble(db) \in Programs /\ Turns(SetTreble(db), k, a, AfterOne("trebleEq", db, k, a))
    BY ToneTurns
  <2>4. \A k \in MuteBit \cup {Pin} : \A a : AfterOne("bassEq", db, k, a) = a /\ AfterOne("trebleEq", db, k, a) = a
    BY DEF MuteBit, Pin, AfterOne
  <2>5. \A k \in MuteBit \cup {Pin} : \A a : Turns(SetBass(db), k, a, a) /\ Turns(SetTreble(db), k, a, a)
    <3> TAKE k \in MuteBit \cup {Pin}
    <3> TAKE a
    <3>1. AfterOne("bassEq", db, k, a) = a /\ AfterOne("trebleEq", db, k, a) = a /\ k \in Places
      BY <1>2, <2>4
    <3> QED
      BY <2>3, <3>1
  <2>6. CASE bass' = db /\ Does(SetBass(db)) /\ tuned' = tuned \cup {"bassEq"} /\ UNCHANGED treble
    <3>1. ASSUME ampPower' = "on", Normal', NEW k \in Followed PROVE Turns(SetBass(db), k, Holds(k), Wanted(k)')
      <4>1. Wanted(k)' = WantedBy(eco, db, treble, tuned', k)
        BY <2>2, <2>6 DEF Wanted
      <4>2. Holds(k) = WantedBy(eco, bass, treble, tuned, k)
        BY <1>3, <1>4, <2>2, <3>1 DEF Wanted
      <4>3. AfterOne("bassEq", db, k, Holds(k)) = Wanted(k)'
        BY <1>1, <2>6, <4>1, <4>2, BassValues
      <4> QED
        BY <1>2, <2>3, <4>3
    <3>2. SetBass(db) \in Programs
      BY <1>2, <2>3
    <3> QED
      BY <2>2, <2>5, <2>6, <3>1, <3>2, AudioGoesOn
  <2>7. CASE treble' = db /\ Does(SetTreble(db)) /\ tuned' = tuned \cup {"trebleEq"} /\ UNCHANGED bass
    <3>1. ASSUME ampPower' = "on", Normal', NEW k \in Followed PROVE Turns(SetTreble(db), k, Holds(k), Wanted(k)')
      <4>1. Wanted(k)' = WantedBy(eco, bass, db, tuned', k)
        BY <2>2, <2>7 DEF Wanted
      <4>2. Holds(k) = WantedBy(eco, bass, treble, tuned, k)
        BY <1>3, <1>4, <2>2, <3>1 DEF Wanted
      <4>3. AfterOne("trebleEq", db, k, Holds(k)) = Wanted(k)'
        BY <1>1, <2>7, <4>1, <4>2, TrebleValues
      <4> QED
        BY <1>2, <2>3, <4>3
    <3>2. SetTreble(db) \in Programs
      BY <1>2, <2>3
    <3> QED
      BY <2>2, <2>5, <2>7, <3>1, <3>2, AudioGoesOn
  <2> QED
    BY <2>1, <2>6, <2>7
<1>9. CASE HandleJack
  <2> DEFINE p == Mute("muted") \o Mute("unmuted")
  <2>1. Does(p) /\ UNCHANGED <<ampPower, eco, bass, treble, profile, tuned>>
    BY <1>9 DEF HandleJack
  <2>2. \A k \in Places : \A a : p \in Programs /\ Turns(p, k, a, AfterMute("unmuted", k, a))
    BY JackTurns
  <2> HIDE DEF p
  <2>3. p \in Programs
    BY <1>2, <2>2
  <2>4. \A k \in Places : \A a : k \notin MuteBit => Turns(p, k, a, a)
    BY <2>2 DEF AfterMute
  <2>5. \A k \in MuteBit : Turns(p, k, "unmuted", "unmuted")
    BY <1>2, <2>2 DEF AfterMute
  <2>6. ASSUME ampPower' = "on", Normal', NEW k \in Followed PROVE Turns(p, k, Holds(k), Wanted(k)')
    <3>1. Wanted(k)' = Holds(k)
      BY <1>3, <1>4, <2>1, <2>6 DEF Wanted
    <3> QED
      BY <1>2, <2>4, <3>1
  <2>7. \A a : Turns(p, Pin, a, a)
    BY <1>2, <2>4
  <2> QED
    BY <2>1, <2>3, <2>5, <2>6, <2>7, AudioGoesOn
<1> QED
  BY <1>5, <1>6, <1>7, <1>8, <1>9

LEMMA BluetoothAsksInv ==
  ASSUME AmpInv, UNCHANGED <<page, reg, ctrl, data, ampFailed, raced>>, UsbGone \/ BypassTest
  PROVE  BluetoothInv' /\ AudioInv' /\ MuteInv'
<1>0. AmpTypeOK /\ TodoOK /\ BluetoothInv /\ AudioInv /\ MuteInv
  BY DEF AmpInv
<1>1. "Audio" \in Callers /\ "Bluetooth" \in Callers /\ UNCHANGED <<ampPower, eco, bass, treble, tuned>>
  BY DEF Callers, UsbGone, BypassTest
<1>2. \A p : Gives("Bluetooth", p) => ampTodo'["Bluetooth"] = p /\ ampTodo'["Audio"] = ampTodo["Audio"]
  BY <1>0, <1>1, GivesTodo
<1>3. \A k : Holds(k)' = Holds(k) /\ Wanted(k)' = Wanted(k)
  BY <1>1 DEF Holds, Wanted
<1>4. Pin \in Places /\ Pin \notin MuteBit /\ \A k \in MuteBit : k \in Places
  BY DEF Places, Pin, MuteBit
<1>5. CASE UsbGone
  <2> DEFINE p == Mute("muted") \o Mute("unmuted")
  <2>1. Gives("Bluetooth", p) /\ UNCHANGED profile
    BY <1>5 DEF UsbGone
  <2>2. \A k \in Places : \A a : Turns(p, k, a, AfterMute("unmuted", k, a))
    BY JackTurns
  <2> HIDE DEF p
  <2>3. ampTodo'["Bluetooth"] = p /\ ampTodo'["Audio"] = ampTodo["Audio"] /\ (Normal' <=> Normal)
    BY <1>2, <2>1 DEF Normal
  <2>4. \A k \in Places \ MuteBit : Spares(p, k)
    <3> TAKE k \in Places \ MuteBit
    <3>1. \A a : Turns(p, k, a, a)
      BY <2>2 DEF AfterMute
    <3> QED
      BY <3>1, TurnsNothing
  <2>5. \A k \in MuteBit : Turns(p, k, "unmuted", "unmuted") /\ ~Spares(p, k)
    <3> TAKE k \in MuteBit
    <3>1. \A a : Turns(p, k, a, "unmuted")
      BY <1>4, <2>2 DEF AfterMute
    <3>2. Turns(p, k, "muted", "unmuted")
      BY <3>1
    <3> QED
      BY <3>1, <3>2, TurnsOne DEF Turns
  <2>6. BluetoothInv'
    BY <1>4, <2>3, <2>4, <2>5 DEF BluetoothInv
  <2>7. AudioInv'
    BY <1>0, <1>1, <1>3, <2>3 DEF AudioInv
  <2>8. MuteInv'
    BY <1>0, <1>1, <2>3, <2>5 DEF MuteInv
  <2> QED
    BY <2>6, <2>7, <2>8
<1>6. CASE BypassTest
  <2>1. PICK mode \in {"normal", "bypass"} :
           /\ Gives("Bluetooth", SetupWoofer(mode) \o SetupTweeter(mode))
           /\ profile' = IF mode = "normal" THEN "tested" ELSE "bypass"
    BY <1>6 DEF BypassTest
  <2> DEFINE p == SetupWoofer(mode)
             q == SetupTweeter(mode)
  <2>2. ampTodo'["Bluetooth"] = p \o q /\ ampTodo'["Audio"] = ampTodo["Audio"]
    BY <1>2, <2>1
  <2>3. \A a : /\ p \in Programs /\ Turns(p, Pin, a, AfterWoofer(Pin, a))
               /\ q \in Programs /\ Turns(q, Pin, a, AfterTweeter(Pin, a))
    BY <1>4, SetupWooferTurns, SetupTweeterTurns
  <2>4. \A a : AfterWoofer(Pin, a) = a /\ AfterTweeter(Pin, a) = a
    BY PinElsewhere
  <2> HIDE DEF p, q
  <2>5. Spares(p, Pin) /\ Spares(q, Pin) /\ p \in Programs /\ q \in Programs
    BY <2>3, <2>4, TurnsNothing
  <2>6. Spares(p \o q, Pin)
    BY <2>5, ComposeSpares
  <2>7. ampPower' = "on" /\ profile' # "normal" /\ ~Normal'
    BY <1>6, <2>1 DEF BypassTest, Normal
  <2> QED
    BY <1>0, <1>1, <2>2, <2>6, <2>7 DEF BluetoothInv, AudioInv, MuteInv
<1> QED
  BY <1>5, <1>6
LEMMA AmpInvFollows ==
  ASSUME AmpInv
  PROVE  RegistersFollow
<1> SUFFICES ASSUME AmpsSettled, profile = "normal"
             PROVE  /\ \A r \in Registers \ {"right"} : reg[r] = Expected(r)
                    /\ \A c \in Chips : ctrl[c] = [state |-> "play", mute |-> "unmuted"]
  BY DEF RegistersFollow
<1>1. /\ AudioInv /\ MuteInv /\ ctrl \in [Chips -> ControlRegister]
      /\ ampTodo["Audio"] = <<>> /\ \A t \in Callers : ampTodo[t] = <<>>
      /\ ampPower = "on" /\ Normal
  BY DEF AmpInv, AmpTypeOK, AmpsSettled, AmpIdle, Callers, Normal
<1>2. \A k \in Followed : Holds(k) = Wanted(k)
  BY <1>1, NothingToDo DEF AudioInv
<1>3. \A k \in MuteBit : Holds(k) = "unmuted"
  BY <1>1, EmptyProgram DEF MuteInv
<1>4. ASSUME NEW r \in Registers \ {"right"} PROVE reg[r] = Expected(r)
  <2> DEFINE k == <<"reg", r>>
  <2>1. k \in Followed /\ k \notin StateBits
    BY DEF Followed, StateBits
  <2>2. Holds(k) = reg[r]
    BY DEF Holds
  <2>3. Wanted(k) = Expected(r)
    BY <2>1 DEF Wanted, WantedBy, Expected
  <2> QED
    BY <1>2, <2>1, <2>2, <2>3
<1>5. ASSUME NEW c \in Chips PROVE ctrl[c] = [state |-> "play", mute |-> "unmuted"]
  <2>1. <<c, "state">> \in Followed /\ <<c, "state">> \in StateBits /\ <<c, "mute">> \in MuteBit /\ c # "reg"
    BY DEF Followed, StateBits, MuteBit, Chips
  <2>2. Holds(<<c, "state">>) = ctrl[c].state /\ Holds(<<c, "mute">>) = ctrl[c].mute
    BY <2>1 DEF Holds
  <2>3. Wanted(<<c, "state">>) = "play"
    BY <2>1 DEF Wanted, WantedBy
  <2>4. ctrl[c].state = "play" /\ ctrl[c].mute = "unmuted"
    BY <1>2, <1>3, <2>1, <2>2, <2>3
  <2> QED
    BY <1>1, <2>4 DEF ControlRegister
<1> QED
  BY <1>4, <1>5

LEMMA AmpStep ==
  ASSUME AmpInv, [AmpNext]_ampVars
  PROVE  AmpInv'
<1>0. AmpTypeOK /\ TodoOK
  BY DEF AmpInv
<1>1. CASE AmpAsk
  <2>1. AmpTypeOK' /\ TodoOK'
    BY <1>0, <1>1, AmpAskTypes
  <2>2. BluetoothInv' /\ AudioInv' /\ MuteInv'
    BY <1>1, OnAmpsInv, AudioAsksInv, BluetoothAsksInv DEF AmpAsk
  <2> QED
    BY <2>1, <2>2 DEF AmpInv
<1>2. ASSUME NEW t \in Callers, Transact(t) PROVE AmpInv'
  BY <1>0, <1>2, TransactTypes, TransactInv DEF AmpInv
<1>3. ASSUME NEW t \in Callers, SetPin(t) PROVE AmpInv'
  BY <1>0, <1>3, SetPinTypes, SetPinInv DEF AmpInv
<1>4. ASSUME NEW t \in Callers, FailLoad(t) PROVE AmpInv'
  BY <1>0, <1>4, FailLoadTypes, FailLoadInv DEF AmpInv
<1>5. CASE UNCHANGED ampVars
  BY <1>5 DEF ampVars, AmpInv, AmpTypeOK, TodoOK, BluetoothInv, AudioInv, MuteInv, Normal, Holds, Wanted
<1> QED
  BY <1>1, <1>2, <1>3, <1>4, <1>5 DEF AmpNext

LEMMA AmpInvariance == AmpSpec => []AmpInv
<1> QED
  BY AmpInitial, AmpStep, PTL DEF AmpSpec

(* Whatever has been asked, once both tasks have done it, with no load failed *)
(* and none interfered with, the registers are those of the present settings  *)
(* and the amplifiers play, unmuted: no table leaves out what another has     *)
(* changed (board_link_amps.c). For every set of requests and any number of   *)
(* them.                                                                      *)
THEOREM AmplifiersFollow == AmpSpec => []RegistersFollow
<1>1. AmpInv => RegistersFollow
  BY AmpInvFollows
<1> QED
  BY <1>1, AmpInvariance, PTL
=============================================================================
