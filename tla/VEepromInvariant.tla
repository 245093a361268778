--------------------------- MODULE VEepromInvariant ---------------------------
(***************************************************************************)
(* The inductive invariant of VEeprom for power cuts that hit neither a    *)
(* move of page 1 into page 0 nor the end of a recovery.                   *)
(***************************************************************************)
EXTENDS VEeprom

\* The pages have room for the copies that interrupted recoveries leave
\* behind, and a transfer copies every key.
Recoverable ==
    /\ Cuts \subseteq {"other"}
    /\ Slots > (MaxCuts + 1) * Len(Table)
    /\ \A k \in Key : \E i \in DOMAIN Table : Table[i] = k

Blank(p) == header[p] = "erased" /\ slots[p] = <<>>

Good(p) == header[p] = "valid" /\ Blank(Other(p))

\* The driver is moving the other page into page `to`.
Moving == Receiving(to)

Right(p) ==
    \A k \in Key : Last(slots[p], k) \in {NoValue, Merged(p, k)}

Complete(p) ==
    \A k \in Key : Last(slots[p], k) = Merged(p, k)

Asked == request \in [key : Key, value : Value]

Started ==
    /\ slots[to] # <<>>
    /\ slots[to][1].key = request.key

Requested ==
    IF booting \/ pc = "ready" THEN request = NoRequest ELSE Asked

BootingAt ==
    /\ pc \in {"off", "clean", "format", "formatMark", "formatClean"} => booting
    /\ booting => pc \in {"off", "clean", "format", "formatMark", "formatClean",
                          "copy", "copyKey", "mark"}

AtOff ==
    /\ header[1] = "erased" => slots[1] = <<>>
    /\ Headers("erased", "erased") => slots[0] = <<>>
    /\ header[0] = header[1] => header[0] = "erased"
    /\ ~Receiving(0)
    /\ Receiving(1) => Len(slots[1]) <= cuts * Len(Table) + 1

AtReady == n = 1 /\ \E p \in Page : Good(p)

AtKey ==
    \E p \in Page :
        /\ Good(p) /\ slots[p] # <<>>
        /\ slots[p][Len(slots[p])] = Half(request.value)

AtFirst    == Moving /\ slots[to] = <<>> /\ n = 1
AtFirstKey == Moving /\ slots[to] = <<Half(request.value)>> /\ n = 1

Copying ==
    /\ Moving
    /\ IF booting THEN to = 1 ELSE Started
    /\ \A i \in 1..n - 1 : Last(slots[to], Table[i]) = Merged(to, Table[i])

AtCopy == Copying /\ Len(slots[to]) <= cuts * Len(Table) + n

AtCopyKey ==
    /\ Copying
    /\ n <= Len(Table)
    /\ Len(slots[to]) <= cuts * Len(Table) + n + 1
    /\ slots[to] # <<>>
    /\ slots[to][1].key # Table[n]
    /\ slots[to][Len(slots[to])] = Half(Last(slots[Other(to)], Table[n]))

AtErase ==
    /\ Moving /\ Complete(to)
    /\ Len(slots[to]) <= cuts * Len(Table) + Len(Table) + 1

AtMark ==
    /\ header[to] = "receive"
    /\ \/ Blank(Other(to))
       \/ /\ booting /\ to = 1 /\ Moving /\ Complete(to)
          /\ Len(slots[to]) <= cuts * Len(Table) + Len(Table) + 1

AtClean ==
    \/ Alone(to) /\ (to = 0 => slots[1] = <<>>)
    \/ to = 1 /\ Headers("valid", "valid")

AtFormat      == Blank(0) /\ Blank(1)
AtFormatClean == Good(0) /\ slots[0] = <<>>

Control ==
    /\ pc = "off"         => AtOff
    /\ pc = "ready"       => AtReady
    /\ pc = "key"         => AtKey
    /\ pc = "first"       => AtFirst
    /\ pc = "firstKey"    => AtFirstKey
    /\ pc = "copy"        => AtCopy
    /\ pc = "copyKey"     => AtCopyKey
    /\ pc = "erase"       => AtErase
    /\ pc = "mark"        => AtMark
    /\ pc = "clean"       => AtClean
    /\ pc = "format"      => AtFormat
    /\ pc = "formatMark"  => AtFormat
    /\ pc = "formatClean" => AtFormatClean

\* What the receiving page holds is what it will hold at the end.
Copies == \A p \in Page : Receiving(p) => Right(p)

\* Whatever the driver is at, the pages tell a restart how far it came.
EepromInv ==
    /\ BootingAt
    /\ Requested
    /\ pc = "off" => n = 1
    /\ Control
    /\ Copies
=============================================================================
