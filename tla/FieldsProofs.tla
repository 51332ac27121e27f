---------------------------- MODULE FieldsProofs ----------------------------
(***************************************************************************)
(* For any tables of fields: the selected fields of every selected package *)
(* are fields of its own table, and the groups listed are its groups.  The *)
(* callbacks work on db[selectedPackage]; that this is a package of the    *)
(* present selection whenever a list has something to pick is what the     *)
(* induction has to carry along.                                           *)
(*                                                                         *)
(* And a row of the panels is of one field.  What a poll prints is read    *)
(* from the concatenation of the lists of all packages answered, so the    *)
(* second part first shows what FlattenSeq returns, by the least prefix    *)
(* for which it would not.                                                 *)
(*                                                                         *)
(* The third part is the array the selection is kept in (FieldArray).      *)
(*                                                                         *)
(* The fourth part is about the numbers shown (Values): the buffers hold   *)
(* the bytes of the words sent, a field is read where its words were put,  *)
(* and its conversion loses no more than the digits of a float.            *)
(***************************************************************************)
EXTENDS MCFields, ListProofs, FiniteSetTheorems, TLAPS

(* Names of fields are names, and the marks are none. *)
LEMMA NumericAreNames ==
    ASSUME NEW p \in Packages
    PROVE  /\ NumericNames(p) \subseteq AllNames
           /\ "rtc" \in NumericNames(p)
           /\ "wiped" \notin NumericNames(p)
           /\ Rows(p) \in Seq([name : STRING, numeric : BOOLEAN, unit : STRING, group : STRING])
           /\ Len(Rows(p)) \in Nat /\ DOMAIN Rows(p) = 1 .. Len(Rows(p))
<1>1. NumericNames(p) \subseteq NamesOf(p)
  BY DEF NumericNames, NamesOf
<1>2. NamesOf(p) \subseteq AllNames
  BY DEF AllNames
<1>3. Rows(p) \in Seq([name : STRING, numeric : BOOLEAN, unit : STRING, group : STRING])
  BY FieldsAssumption
<1>4. "rtc" \in NumericNames(p) /\ "wiped" \notin NamesOf(p)
  BY FieldsAssumption
<1>5. Len(Rows(p)) \in Nat /\ DOMAIN Rows(p) = 1 .. Len(Rows(p))
  BY <1>3
<1>. QED BY <1>1, <1>2, <1>3, <1>4, <1>5

LEMMA NumericFinite ==
    ASSUME NEW p \in Packages, NEW S, S \subseteq NumericNames(p)
    PROVE  Cardinality(S) \in Nat
<1>1. IsFiniteSet(1 .. Len(Rows(p)))
  BY NumericAreNames, FS_Interval
<1>. DEFINE D == {k \in DOMAIN Rows(p) : Rows(p)[k].numeric}
<1>2. IsFiniteSet(D)
  BY <1>1, NumericAreNames, FS_Subset
<1>. DEFINE f == [k \in D |-> Rows(p)[k].name]
<1>3. f \in Surjection(D, NumericNames(p))
  BY DEF Surjection, NumericNames
<1>4. IsFiniteSet(NumericNames(p))
  BY <1>2, <1>3, FS_Surjection
<1>. QED BY <1>4, FS_Subset, FS_CardinalityType

-----------------------------------------------------------------------------
(* What the operations of packageConnect make of a sound list of fields.   *)

LEMMA AddedSound ==
    ASSUME NEW p \in Packages, NEW fields \in Seq(Names), Sound(fields, p),
           NEW f \in NumericNames(p)
    PROVE  Added(fields, f) \in Seq(Names) /\ Sound(Added(fields, f), p)
<1>1. f \in Names
  BY NumericAreNames DEF Names
<1>2. CASE f \in Range(fields)
  BY <1>2 DEF Added
<1>3. CASE f \notin Range(fields)
  <2>1. \A k \in DOMAIN fields : fields[k] # f
    BY <1>3 DEF Range
  <2>2. /\ Added(fields, f) = Append(fields, f)
        /\ Append(fields, f) \in Seq(Names)
        /\ DOMAIN Append(fields, f) = 1 .. Len(fields) + 1
        /\ \A k \in 1 .. Len(fields) : Append(fields, f)[k] = fields[k]
        /\ Append(fields, f)[Len(fields) + 1] = f
    BY <1>1, <1>3 DEF Added
  <2>. QED BY <2>1, <2>2 DEF Sound
<1>. QED BY <1>2, <1>3

LEMMA ExtendedSound ==
    ASSUME NEW p \in Packages, NEW fields \in Seq(Names), Sound(fields, p),
           NEW S, S \subseteq NumericNames(p) \ Range(fields),
           NEW s \in InRowOrder(p, S)
    PROVE  fields \o s \in Seq(Names) /\ Sound(fields \o s, p)
<1>. DEFINE n == Cardinality(S)
<1>1. n \in Nat
  BY NumericFinite
<1>2. s \in [1 .. n -> S] /\ \A i, j \in 1 .. n : i # j => s[i] # s[j]
  <2>1. s \in [1 .. n -> S] /\ \A i, j \in 1 .. n : i < j => s[i] # s[j]
    BY DEF InRowOrder
  <2>. QED BY <2>1, <1>1
<1>. HIDE DEF n
<1>3. S \subseteq Names /\ S \subseteq NumericNames(p)
  BY NumericAreNames DEF Names
<1>4. s \in Seq(Names) /\ Len(s) = n
  BY <1>1, <1>2, <1>3
<1>5. \A k \in DOMAIN fields : fields[k] \notin S
  BY DEF Range
<1>6. /\ fields \o s \in Seq(Names)
      /\ DOMAIN (fields \o s) = 1 .. Len(fields) + n
      /\ \A k \in 1 .. Len(fields) : (fields \o s)[k] = fields[k]
      /\ \A k \in Len(fields) + 1 .. Len(fields) + n :
           (fields \o s)[k] = s[k - Len(fields)] /\ k - Len(fields) \in 1 .. n
  BY <1>1, <1>4
<1>. DEFINE new == fields \o s
<1>. HIDE DEF new
<1>7. Len(fields) \in Nat /\ DOMAIN fields = 1 .. Len(fields)
  OBVIOUS
<1>8. ASSUME NEW j \in 1 .. Len(fields) + n
      PROVE  \/ /\ new[j] \in NumericNames(p)
                /\ \A k \in 1 .. Len(fields) + n : new[k] = new[j] => k = j
             \/ new[j] = "wiped" /\ j <= 2
  <2>1. CASE j \in 1 .. Len(fields)
    <3>1. new[j] = fields[j] /\ new[j] \notin S
      BY <2>1, <1>5, <1>6, <1>7 DEF new
    <3>2. \A k \in Len(fields) + 1 .. Len(fields) + n : new[k] \in S
      BY <1>2, <1>6 DEF new
    <3>. QED BY <2>1, <3>1, <3>2, <1>1, <1>6, <1>7 DEF new, Sound
  <2>2. CASE j \notin 1 .. Len(fields)
    <3>1. j \in Len(fields) + 1 .. Len(fields) + n
      BY <2>2, <1>1, <1>7
    <3>2. new[j] = s[j - Len(fields)] /\ new[j] \in S
      BY <3>1, <1>2, <1>6 DEF new
    <3>3. ASSUME NEW k \in 1 .. Len(fields) + n, new[k] = new[j]
          PROVE  k = j
      <4>1. k \notin 1 .. Len(fields)
        BY <3>2, <3>3, <1>5, <1>6, <1>7 DEF new
      <4>2. k \in Len(fields) + 1 .. Len(fields) + n
        BY <4>1, <1>1, <1>7
      <4>3. s[k - Len(fields)] = s[j - Len(fields)]
        BY <3>1, <3>3, <4>2, <1>6 DEF new
      <4>4. k - Len(fields) = j - Len(fields)
        BY <3>1, <4>2, <4>3, <1>2, <1>6
      <4>. QED BY <4>4, <1>1, <1>7
    <3>. QED BY <3>2, <3>3, <1>3
  <2>. QED BY <2>1, <2>2
<1>. QED BY <1>6, <1>8 DEF new, Sound

LEMMA RemovedSound ==
    ASSUME NEW p \in Packages, NEW fields \in Seq(Names), Sound(fields, p),
           NEW k \in 1 .. Len(fields)
    PROVE  Removed(fields, k) \in Seq(Names) /\ Sound(Removed(fields, k), p)
<1>. DEFINE n == Len(fields)
            new == Removed(fields, k)
<1>1. n \in Nat /\ DOMAIN fields = 1 .. n
  OBVIOUS
<1>2. /\ SubSeq(fields, 1, k - 1) \in Seq(Names) /\ Len(SubSeq(fields, 1, k - 1)) = k - 1
      /\ SubSeq(fields, k + 1, n) \in Seq(Names) /\ Len(SubSeq(fields, k + 1, n)) = n - k
      /\ \A i \in 1 .. k - 1 : SubSeq(fields, 1, k - 1)[i] = fields[i]
      /\ \A i \in 1 .. n - k : SubSeq(fields, k + 1, n)[i] = fields[k + i]
  OBVIOUS
<1>. DEFINE a == SubSeq(fields, 1, k - 1)
            b == SubSeq(fields, k + 1, n)
<1>0. new = a \o b
  BY DEF Removed
<1>. HIDE DEF a, b, n, new
<1>10. /\ a \in Seq(Names) /\ Len(a) = k - 1
      /\ b \in Seq(Names) /\ Len(b) = n - k
      /\ \A i \in 1 .. k - 1 : a[i] = fields[i]
      /\ k \in 1 .. n
  BY <1>2 DEF a, b, n
<1>12. \A x \in 1 .. n - k : b[x] = fields[k + x]
  BY <1>2 DEF a, b, n
<1>11. /\ new \in Seq(Names) /\ DOMAIN new = 1 .. n - 1
      /\ \A i \in 1 .. n - 1 : new[i] = IF i <= k - 1 THEN a[i] ELSE b[i - (k - 1)]
  BY <1>0, <1>1, <1>10
<1>3. /\ new \in Seq(Names) /\ DOMAIN new = 1 .. n - 1
      /\ \A i \in 1 .. k - 1 : new[i] = fields[i]
      /\ \A i \in k .. n - 1 : new[i] = fields[i + 1]
  <2>1. ASSUME NEW i \in k .. n - 1 PROVE new[i] = fields[i + 1]
    <3>. DEFINE m == i - (k - 1)
    <3>1. i \in 1 .. n - 1 /\ ~(i <= k - 1) /\ m \in 1 .. n - k /\ k + m = i + 1
      BY <1>1, <1>10
    <3>2. new[i] = b[m]
      BY <3>1, <1>11
    <3>. HIDE DEF m
    <3>4. b[m] = fields[k + m]
      BY <3>1, <1>12, Zenon
    <3>. QED BY <3>1, <3>2, <3>4
  <2>2. ASSUME NEW i \in 1 .. k - 1 PROVE new[i] = fields[i]
    <3>1. i \in 1 .. n - 1 /\ i <= k - 1
      BY <1>1, <1>10
    <3>2. new[i] = a[i]
      BY <3>1, <1>11
    <3>. QED BY <3>2, <1>10
  <2>. QED BY <2>1, <2>2, <1>11
<1>. DEFINE at(i) == IF i < k THEN i ELSE i + 1
<1>4. k \in 1 .. n
  BY DEF n
<1>5. \A i \in 1 .. n - 1 : new[i] = fields[at(i)] /\ at(i) \in 1 .. n /\ i <= at(i)
  BY <1>1, <1>3, <1>4
<1>6. \A i, j \in 1 .. n - 1 : at(i) = at(j) => i = j
  BY <1>1, <1>4
<1>. HIDE DEF at
<1>7. \A i \in 1 .. n - 1 : at(i) <= 2 => i <= 2
  BY <1>1, <1>4 DEF at
<1>8. Sound(fields, p) /\ DOMAIN fields = 1 .. n
  BY <1>1
<1>9. Sound(new, p)
  BY <1>3, <1>5, <1>6, <1>7, <1>8 DEF Sound
<1>. QED BY <1>3, <1>9 DEF new

LEMMA WipedSound ==
    ASSUME NEW p \in Packages, NEW fields \in Seq(Names), Sound(fields, p),
           NEW reach \in 0 .. 2
    PROVE  Wiped(fields, reach) \in Seq(Names) /\ Sound(Wiped(fields, reach), p)
<1>1. /\ Wiped(fields, reach) \in Seq(Names)
      /\ DOMAIN Wiped(fields, reach) = DOMAIN fields
      /\ DOMAIN fields = 1 .. Len(fields) /\ Len(fields) \in Nat
      /\ \A i \in DOMAIN fields :
           Wiped(fields, reach)[i] = IF i <= reach THEN "wiped" ELSE fields[i]
  BY DEF Wiped, Names
<1>. QED BY <1>1, NumericAreNames DEF Sound

(* ... and of any list of names. *)
LEMMA InRowOrderNames ==
    ASSUME NEW p \in Packages, NEW S, S \subseteq NumericNames(p), NEW s \in InRowOrder(p, S)
    PROVE  s \in Seq(Names)
<1>. DEFINE n == Cardinality(S)
<1>1. n \in Nat
  BY NumericFinite
<1>2. s \in [1 .. n -> S]
  BY DEF InRowOrder
<1>3. S \subseteq Names
  BY NumericAreNames DEF Names
<1>. HIDE DEF n
<1>. QED BY <1>1, <1>2, <1>3

LEMMA RemovedNames ==
    ASSUME NEW fields \in Seq(Names), NEW k \in 1 .. Len(fields)
    PROVE  Removed(fields, k) \in Seq(Names)
BY DEF Removed

LEMMA WipedNames ==
    ASSUME NEW fields \in Seq(Names), NEW reach PROVE Wiped(fields, reach) \in Seq(Names)
BY DEF Wiped, Names

-----------------------------------------------------------------------------
(* The invariant.  Typed every step keeps; Own, which the two theorems on  *)
(* the selection are about, lasts until a group is made for a place no     *)
(* package is in (stray).                                                  *)

Counts == pack_count \in 0 .. Cardinality(Packages) /\ selectedPackage \in Slots

Shape ==
    /\ db = [i \in Slots |-> db[i]]
    /\ \A i \in Slots :
         /\ db[i] = [pkg |-> db[i].pkg, fields |-> db[i].fields, groups |-> db[i].groups,
                     available_count |-> db[i].available_count]
         /\ db[i].fields \in Seq(Names)
    /\ groupOf = [p \in Packages |-> groupOf[p]]
    /\ newgrp \in [open : BOOLEAN, items : Nat, create : BOOLEAN]
    /\ filling \in [on : BOOLEAN, i : Nat, avl_count : Nat]

(* The places in use hold different packages; the others list no fields. *)
Distinct ==
    \A i \in Slots :
        IF i < pack_count
        THEN /\ db[i].pkg \in Packages
             /\ db[i].available_count = Len(Rows(db[i].pkg))
             /\ \A j \in Slots : j < pack_count /\ db[j].pkg = db[i].pkg => j = i
        ELSE db[i].available_count = 0

(* Groups are those of a package, also at a place left; and the new-group  *)
(* window has items only when the place selected held a package once.      *)
Known ==
    /\ \A i \in Slots : db[i].groups # <<>> => db[i].pkg \in Packages
    /\ newgrp.items # 0 \/ newgrp.create \/ (filling.on /\ filling.i < filling.avl_count) =>
         Here.pkg \in Packages

Typed == Counts /\ Shape /\ Distinct /\ Known

Vacant == \A i \in Slots : ~(i < pack_count) => db[i].fields = <<>>

SoundSlots == \A i \in Slots : i < pack_count => Sound(db[i].fields, db[i].pkg)

(* Only the lists of an open window have items, and they are those of a    *)
(* package of the present selection.                                       *)
ListsOwn ==
    available_fields # {} \/ available_groups # <<>> =>
        /\ window /\ selectedPackage < pack_count
        /\ available_fields \subseteq NumericNames(Here.pkg)

GroupsKnown ==
    /\ \A i \in Slots : i < pack_count => db[i].groups = Groups(db[i].pkg, groupOf[db[i].pkg])
    /\ available_groups # <<>> => available_groups = Here.groups

Own == Vacant /\ SoundSlots /\ ListsOwn /\ GroupsKnown

LEMMA SlotsNat == Slots \subseteq Nat /\ Cardinality(Packages) \in Nat /\ 0 \in Slots
<1>1. Cardinality(Packages) \in Nat /\ Cardinality(Packages) # 0
  BY FieldsAssumption, FS_CardinalityType, FS_EmptySet
<1>. QED BY <1>1 DEF Slots

(* A package not selected finds a place: there are as many as packages. *)
LEMMA PlaceLeft ==
    ASSUME Counts, Distinct, NEW p \in Packages, \A i \in 0 .. pack_count - 1 : db[i].pkg # p
    PROVE  pack_count \in Slots
<1>1. SUFFICES ASSUME pack_count \notin Slots PROVE FALSE
  OBVIOUS
<1>2. pack_count = Cardinality(Packages) /\ pack_count \in Nat
  BY <1>1, SlotsNat DEF Counts, Slots
<1>. DEFINE S == 0 .. pack_count
            f == [i \in S |-> IF i = pack_count THEN p ELSE db[i].pkg]
<1>3. IsFiniteSet(S) /\ Cardinality(S) = pack_count + 1
  BY <1>2, FS_Interval
<1>4. \A i \in S : i # pack_count => i \in Slots /\ i < pack_count /\ i \in 0 .. pack_count - 1
  BY <1>2, SlotsNat DEF Slots
<1>5. f \in [S -> Packages]
  BY <1>4 DEF Distinct
<1>6. PICK x, y \in S : x # y /\ f[x] = f[y]
  <2>1. Cardinality(Packages) < Cardinality(S)
    BY <1>2, <1>3
  <2>2. IsFiniteSet(Packages)
    BY FieldsAssumption
  <2>. HIDE DEF f, S
  <2>. QED BY <1>3, <1>5, <2>1, <2>2, FS_PigeonHole
<1>7. \A i \in S : i # pack_count => f[i] = db[i].pkg /\ f[i] # p
  BY <1>4
<1>8. f[pack_count] = p /\ pack_count \in S
  BY <1>2
<1>. HIDE DEF f, S
<1>9. CASE x = pack_count \/ y = pack_count
  BY <1>6, <1>7, <1>8, <1>9
<1>10. CASE x # pack_count /\ y # pack_count
  <2>1. db[x].pkg = db[y].pkg /\ x \in Slots /\ y \in Slots /\ x < pack_count /\ y < pack_count
    BY <1>4, <1>6, <1>7, <1>10
  <2>. QED BY <1>6, <2>1 DEF Distinct
<1>. QED BY <1>9, <1>10

LEMMA InitInductive == Init => Typed /\ Own
<1>. SUFFICES ASSUME Init PROVE Typed /\ Own
  OBVIOUS
<1>1. pack_count = 0 /\ selectedPackage = 0 /\ available_fields = {} /\ available_groups = <<>>
  BY DEF Init
<1>2. /\ db = [i \in Slots |-> NoSlot] /\ newgrp = NoWindow /\ filling = NotFilling
      /\ groupOf = [p \in Packages |-> groupOf[p]]
  BY DEF Init
<1>3. Counts
  BY <1>1, SlotsNat DEF Counts
<1>4. Shape
  <2>1. \A i \in Slots : db[i] = NoSlot
    BY <1>2
  <2>2. NoSlot.fields = <<>> /\ <<>> \in Seq(Names)
    BY DEF NoSlot
  <2>3. NoSlot = [pkg |-> NoSlot.pkg, fields |-> NoSlot.fields, groups |-> NoSlot.groups,
                  available_count |-> NoSlot.available_count]
    BY DEF NoSlot
  <2>4. db = [i \in Slots |-> db[i]]
    BY <1>2
  <2>5. newgrp \in [open : BOOLEAN, items : Nat, create : BOOLEAN]
    BY <1>2 DEF NoWindow
  <2>6. filling \in [on : BOOLEAN, i : Nat, avl_count : Nat]
    BY <1>2 DEF NotFilling
  <2>. QED BY <1>2, <2>1, <2>2, <2>3, <2>4, <2>5, <2>6 DEF Shape
<1>5. Distinct /\ SoundSlots /\ Vacant
  BY <1>1, <1>2, SlotsNat DEF Distinct, SoundSlots, Vacant, NoSlot
<1>6. ListsOwn
  BY <1>1 DEF ListsOwn
<1>7. Known
  <2>1. newgrp.open = FALSE /\ newgrp.items = 0 /\ newgrp.create = FALSE /\ filling.on = FALSE
    BY <1>2 DEF NoWindow, NotFilling
  <2>2. \A i \in Slots : db[i].groups = <<>>
    BY <1>2 DEF NoSlot
  <2>. QED BY <2>1, <2>2 DEF Known
<1>8. GroupsKnown
  <2>1. \A i \in Slots : ~(i < pack_count)
    BY <1>1, SlotsNat
  <2>. QED BY <1>1, <2>1 DEF GroupsKnown
<1>. QED BY <1>3, <1>4, <1>5, <1>6, <1>7, <1>8 DEF Typed, Own

-----------------------------------------------------------------------------
(* The steps.                                                              *)

LEMMA HereTyped ==
    ASSUME Typed
    PROVE  /\ selectedPackage \in Slots /\ Here = db[selectedPackage] /\ Here.fields \in Seq(Names)
           /\ Here.available_count \in Nat
           /\ selectedPackage < pack_count \/ Here.available_count # 0 =>
                 selectedPackage < pack_count /\ Here.pkg \in Packages
                 /\ Here.available_count = Len(Rows(Here.pkg))
           /\ Here.groups # <<>> => Here.pkg \in Packages
<1>1. selectedPackage \in Slots /\ Here = db[selectedPackage]
  BY DEF Typed, Counts, Here
<1>. QED BY <1>1, NumericAreNames DEF Typed, Shape, Distinct, Known

(* Steps that leave the selection and the items of the new-group window    *)
(* alone.                                                                  *)
LEMMA SameSelection ==
    ASSUME Typed, UNCHANGED selection, newgrp' = newgrp, filling' = filling
    PROVE  Typed' /\ (Vacant /\ SoundSlots => Vacant' /\ SoundSlots')
<1>1. Here' = Here
  BY DEF selection, Here
<1>. QED BY <1>1 DEF Typed, selection, Counts, Shape, Distinct, Known, Vacant, SoundSlots

LEMMA RtanaRealizedInductive ==
    ASSUME Typed, RtanaRealized PROVE Typed' /\ (Own => Own')
<1>1. /\ db' = [i \in Slots |-> IF i < pack_count THEN Clear(db[i]) ELSE db[i]]
      /\ pack_count' = 0 /\ ~window
      /\ groupOf' = groupOf /\ selectedPackage' = selectedPackage
      /\ newgrp' = newgrp /\ filling' = filling
      /\ available_fields' = available_fields /\ available_groups' = available_groups
  BY DEF RtanaRealized, group
<1>2. ASSUME NEW i \in Slots
      PROVE  /\ db'[i] = [pkg |-> db'[i].pkg, fields |-> db'[i].fields, groups |-> db'[i].groups,
                          available_count |-> db'[i].available_count]
             /\ db'[i].fields \in Seq(Names) /\ db'[i].available_count = 0
             /\ db'[i].pkg = db[i].pkg
             /\ db'[i].groups # <<>> => db[i].pkg \in Packages
             /\ Vacant => db'[i].fields = <<>>
  <2>1. db[i] = [pkg |-> db[i].pkg, fields |-> db[i].fields, groups |-> db[i].groups,
                 available_count |-> db[i].available_count]
        /\ db[i].fields \in Seq(Names)
    BY DEF Typed, Shape
  <2>2. CASE i < pack_count
    <3>1. db'[i] = Clear(db[i])
      BY <1>1, <2>2
    <3>2. Clear(db[i]) = [pkg |-> db[i].pkg, fields |-> <<>>, groups |-> <<>>, available_count |-> 0]
      BY DEF Clear
    <3>3. <<>> \in Seq(Names)
      OBVIOUS
    <3>. QED BY <3>1, <3>2, <3>3
  <2>3. CASE ~(i < pack_count)
    <3>1. db'[i] = db[i] /\ db[i].available_count = 0
      BY <1>1, <2>3 DEF Typed, Distinct
    <3>. QED BY <2>1, <2>3, <3>1 DEF Typed, Known, Vacant
  <2>. QED BY <2>2, <2>3
<1>3. Counts'
  BY <1>1, SlotsNat DEF Typed, Counts
<1>4. Shape'
  <2>1. db' = [i \in Slots |-> db'[i]]
    BY <1>1
  <2>. QED BY <1>1, <1>2, <2>1 DEF Typed, Shape
<1>5. \A i \in Slots : ~(i < pack_count')
  BY <1>1, SlotsNat
<1>6. Distinct'
  BY <1>2, <1>5 DEF Distinct
<1>7. Known'
  BY <1>1, <1>2, HereTyped DEF Typed, Known, Here
<1>8. ASSUME Own PROVE Own'
  <2>1. available_fields' = {} /\ available_groups' = <<>>
    BY <1>1, <1>8 DEF Own, ListsOwn
  <2>. QED BY <1>2, <1>5, <1>8, <2>1 DEF Own, Vacant, SoundSlots, ListsOwn, GroupsKnown
<1>. QED BY <1>3, <1>4, <1>6, <1>7, <1>8 DEF Typed

LEMMA AddPackageInductive ==
    ASSUME Typed, NEW p \in Packages, AddPackage(p) PROVE Typed' /\ (Own => Own')
<1>1. /\ window /\ \A i \in 0 .. pack_count - 1 : db[i].pkg # p
      /\ db' = [db EXCEPT ![pack_count] = Opened(@, p)]
      /\ pack_count' = pack_count + 1
      /\ groupOf' = groupOf /\ selectedPackage' = selectedPackage
      /\ newgrp' = newgrp /\ filling' = filling /\ window' = window
      /\ available_fields' = available_fields /\ available_groups' = available_groups
  BY DEF AddPackage, group, lists
<1>2. pack_count \in Slots /\ pack_count \in Nat /\ pack_count + 1 \in 0 .. Cardinality(Packages)
  <2>1. pack_count \in Slots
    BY <1>1, PlaceLeft DEF Typed
  <2>. QED BY <2>1, SlotsNat DEF Slots
<1>. DEFINE new == Opened(db[pack_count], p)
            fields == Added(db[pack_count].fields, "rtc")
<1>3. /\ db' = [i \in Slots |-> IF i = pack_count THEN new ELSE db[i]]
      /\ db'[pack_count] = new
      /\ \A i \in Slots : i # pack_count => db'[i] = db[i]
  BY <1>1, <1>2 DEF Typed, Shape
<1>4. new = [pkg |-> p, fields |-> fields, groups |-> Groups(p, groupOf[p]),
             available_count |-> Len(Rows(p))]
  BY DEF Opened
<1>5. /\ fields \in Seq(Names)
      /\ db[pack_count].fields = <<>> => fields = <<"rtc">> /\ Sound(fields, p)
  <2>1. "rtc" \in NumericNames(p) /\ "rtc" \in Names
    BY NumericAreNames DEF Names
  <2>2. db[pack_count].fields \in Seq(Names)
    BY <1>2 DEF Typed, Shape
  <2>3. fields \in Seq(Names)
    BY <2>1, <2>2 DEF Added
  <2>4. Added(<<>>, "rtc") = <<"rtc">>
    BY DEF Added, Range
  <2>5. Sound(<<"rtc">>, p)
    BY <2>1 DEF Sound
  <2>. QED BY <2>3, <2>4, <2>5
<1>. HIDE DEF new, fields
<1>6. Counts'
  BY <1>1, <1>2 DEF Typed, Counts
<1>7. Shape'
  <2>1. ASSUME NEW i \in Slots
        PROVE  /\ db'[i] = [pkg |-> db'[i].pkg, fields |-> db'[i].fields, groups |-> db'[i].groups,
                            available_count |-> db'[i].available_count]
               /\ db'[i].fields \in Seq(Names)
    <3>1. CASE i = pack_count
      BY <1>3, <1>4, <1>5, <3>1
    <3>2. CASE i # pack_count
      BY <1>3, <3>2 DEF Typed, Shape
    <3>. QED BY <3>1, <3>2
  <2>2. db' = [i \in Slots |-> db'[i]]
    BY <1>3
  <2>. QED BY <1>1, <2>1, <2>2 DEF Typed, Shape
<1>8. \A i \in Slots : i < pack_count => db[i].pkg # p
  BY <1>1, <1>2, SlotsNat
<1>9. Distinct'
  <2>1. ASSUME NEW i \in Slots, i < pack_count' , NEW j \in Slots, j < pack_count',
               db'[i].pkg = db'[j].pkg
        PROVE  i = j
    <3>1. (i = pack_count \/ i < pack_count) /\ (j = pack_count \/ j < pack_count)
      BY <1>1, <1>2, <2>1, SlotsNat
    <3>2. db'[pack_count].pkg = p
      BY <1>3, <1>4
    <3>3. CASE i = pack_count \/ j = pack_count
      BY <1>2, <1>3, <1>8, <2>1, <3>1, <3>2, <3>3
    <3>4. CASE i # pack_count /\ j # pack_count
      BY <1>3, <2>1, <3>1, <3>4 DEF Typed, Distinct
    <3>. QED BY <3>3, <3>4
  <2>2. ASSUME NEW i \in Slots
        PROVE  IF i < pack_count'
               THEN db'[i].pkg \in Packages /\ db'[i].available_count = Len(Rows(db'[i].pkg))
               ELSE db'[i].available_count = 0
    <3>1. CASE i = pack_count
      BY <1>1, <1>2, <1>3, <1>4, <3>1
    <3>2. CASE i # pack_count
      <4>1. db'[i] = db[i] /\ (i < pack_count' <=> i < pack_count)
        BY <1>1, <1>2, <1>3, <3>2, SlotsNat
      <4>. QED BY <4>1 DEF Typed, Distinct
    <3>. QED BY <3>1, <3>2
  <2>. QED BY <2>1, <2>2 DEF Distinct
<1>10. Known'
  <2>1. ASSUME NEW i \in Slots
        PROVE  /\ db'[i].groups # <<>> => db'[i].pkg \in Packages
               /\ db[i].pkg \in Packages => db'[i].pkg \in Packages
    <3>1. CASE i = pack_count
      BY <1>3, <1>4, <3>1
    <3>2. CASE i # pack_count
      BY <1>3, <3>2 DEF Typed, Known
    <3>. QED BY <3>1, <3>2
  <2>. QED BY <1>1, <2>1, HereTyped DEF Typed, Known, Here
<1>11. ASSUME Own PROVE Own'
  <2>1. ASSUME NEW i \in Slots
        PROVE  /\ i < pack_count' => Sound(db'[i].fields, db'[i].pkg)
               /\ ~(i < pack_count') => db'[i].fields = <<>>
               /\ i < pack_count' => db'[i].groups = Groups(db'[i].pkg, groupOf[db'[i].pkg])
    <3>1. CASE i = pack_count
      <4>1. db[pack_count].fields = <<>>
        BY <1>2, <1>11 DEF Own, Vacant
      <4>. QED BY <1>1, <1>2, <1>3, <1>4, <1>5, <3>1, <4>1
    <3>2. CASE i # pack_count
      <4>1. db'[i] = db[i] /\ (i < pack_count' <=> i < pack_count)
        BY <1>1, <1>2, <1>3, <3>2, SlotsNat
      <4>. QED BY <1>11, <4>1 DEF Own, Vacant, SoundSlots, GroupsKnown
    <3>. QED BY <3>1, <3>2
  <2>2. selectedPackage < pack_count => Here' = Here /\ selectedPackage < pack_count'
    BY <1>1, <1>2, <1>3, SlotsNat DEF Here, Typed, Counts
  <2>3. ListsOwn'
    BY <1>1, <1>11, <2>2 DEF Own, ListsOwn
  <2>4. GroupsKnown'
    BY <1>1, <1>11, <2>1, <2>2 DEF Own, GroupsKnown, ListsOwn
  <2>. QED BY <2>1, <2>3, <2>4 DEF Own, Vacant, SoundSlots
<1>. QED BY <1>6, <1>7, <1>9, <1>10, <1>11 DEF Typed

(* The operations of the selection window on the fields of the package     *)
(* selected last.                                                          *)
LEMMA NewFields ==
    ASSUME Typed, NEW fields \in Seq(Names),
           db' = [db EXCEPT ![selectedPackage].fields = fields],
           groupOf' = groupOf, pack_count' = pack_count, selectedPackage' = selectedPackage,
           window' = window, available_fields' = available_fields,
           available_groups' = available_groups, newgrp' = newgrp, filling' = filling
    PROVE  /\ Typed'
           /\ Own /\ selectedPackage < pack_count /\ Sound(fields, Here.pkg) => Own'
<1>1. selectedPackage \in Slots
  BY DEF Typed, Counts
<1>2. \A i \in Slots : db'[i] = IF i = selectedPackage THEN [db[i] EXCEPT !.fields = fields] ELSE db[i]
  BY <1>1 DEF Typed, Shape
<1>3. db' = [i \in Slots |-> db'[i]]
  BY DEF Typed, Shape
<1>4. ASSUME NEW i \in Slots
      PROVE  /\ db'[i].pkg = db[i].pkg /\ db'[i].groups = db[i].groups
             /\ db'[i].available_count = db[i].available_count
             /\ db'[i].fields = IF i = selectedPackage THEN fields ELSE db[i].fields
             /\ db'[i] = [pkg |-> db'[i].pkg, fields |-> db'[i].fields, groups |-> db'[i].groups,
                          available_count |-> db'[i].available_count]
  <2>1. db[i] = [pkg |-> db[i].pkg, fields |-> db[i].fields, groups |-> db[i].groups,
                 available_count |-> db[i].available_count]
    BY DEF Typed, Shape
  <2>2. CASE i = selectedPackage
    <3>1. db'[i] = [db[i] EXCEPT !.fields = fields]
      BY <1>2, <2>2
    <3>2. [db[i] EXCEPT !.fields = fields]
            = [pkg |-> db[i].pkg, fields |-> fields, groups |-> db[i].groups,
               available_count |-> db[i].available_count]
      BY <2>1
    <3>. QED BY <2>2, <3>1, <3>2
  <2>3. CASE i # selectedPackage
    BY <1>2, <2>1, <2>3
  <2>. QED BY <2>2, <2>3
<1>5. Counts'
  BY DEF Typed, Counts
<1>6. Shape'
  <2>1. \A i \in Slots : db'[i].fields \in Seq(Names)
    BY <1>4 DEF Typed, Shape
  <2>2. groupOf' = [p \in Packages |-> groupOf'[p]]
    BY DEF Typed, Shape
  <2>3. /\ newgrp' \in [open : BOOLEAN, items : Nat, create : BOOLEAN]
        /\ filling' \in [on : BOOLEAN, i : Nat, avl_count : Nat]
    BY DEF Typed, Shape
  <2>. QED BY <1>3, <1>4, <2>1, <2>2, <2>3 DEF Shape
<1>7. Distinct'
  BY <1>4 DEF Typed, Distinct
<1>8. Known'
  BY <1>1, <1>4 DEF Typed, Known, Here
<1>9. ASSUME Own, selectedPackage < pack_count, Sound(fields, Here.pkg) PROVE Own'
  <2>1. SoundSlots' /\ Vacant'
    BY <1>4, <1>9 DEF Own, SoundSlots, Vacant, Here
  <2>2. ListsOwn'
    BY <1>1, <1>4, <1>9 DEF Own, ListsOwn, Here
  <2>3. GroupsKnown'
    BY <1>1, <1>4, <1>9 DEF Own, GroupsKnown, Here
  <2>. QED BY <2>1, <2>2, <2>3 DEF Own
<1>. QED BY <1>5, <1>6, <1>7, <1>8, <1>9 DEF Typed

LEMMA HereSound ==
    ASSUME Typed, Own
    PROVE  /\ selectedPackage < pack_count => Here.pkg \in Packages /\ Sound(Here.fields, Here.pkg)
           /\ ~(selectedPackage < pack_count) => Here.fields = <<>>
BY HereTyped DEF Own, Vacant, SoundSlots

LEMMA AddFieldInductive ==
    ASSUME Typed, NEW f \in AllNames, AddField(f) PROVE Typed' /\ (Own => Own')
<1>. DEFINE fields == Added(Here.fields, f)
<1>1. fields \in Seq(Names)
  <2>1. Here.fields \in Seq(Names) /\ f \in Names
    BY HereTyped DEF Names
  <2>. QED BY <2>1 DEF Added
<1>2. Typed' /\ (Own /\ selectedPackage < pack_count /\ Sound(fields, Here.pkg) => Own')
  BY <1>1, NewFields DEF AddField, SelectFields, group
<1>3. ASSUME Own PROVE selectedPackage < pack_count /\ Sound(fields, Here.pkg)
  <2>1. selectedPackage < pack_count /\ f \in NumericNames(Here.pkg)
    BY <1>3 DEF AddField, Own, ListsOwn
  <2>. QED BY <1>3, <2>1, HereTyped, HereSound, AddedSound
<1>. QED BY <1>2, <1>3

LEMMA AddGroupInductive ==
    ASSUME Typed, NEW k \in 1 .. Len(available_groups), AddGroup(k)
    PROVE  Typed' /\ (Own => Own')
<1>1. Here.pkg \in Packages /\ Missing(Here, Here.groups[k]) \subseteq NumericNames(Here.pkg) \ Range(Here.fields)
  <2>1. k \in Int /\ 1 <= k /\ k <= Len(Here.groups)
    BY DEF AddGroup
  <2>2. Here.groups # <<>>
    BY <2>1
  <2>. QED BY <2>2, HereTyped DEF Missing
<1>2. PICK s \in InRowOrder(Here.pkg, Missing(Here, Here.groups[k])) : SelectFields(Here.fields \o s)
  BY DEF AddGroup
<1>3. s \in Seq(Names)
  BY <1>1, <1>2, InRowOrderNames
<1>4. Here.fields \o s \in Seq(Names)
  BY <1>3, HereTyped
<1>5. Typed' /\ (Own /\ selectedPackage < pack_count /\ Sound(Here.fields \o s, Here.pkg) => Own')
  BY <1>2, <1>4, NewFields DEF AddGroup, SelectFields, group
<1>6. ASSUME Own PROVE selectedPackage < pack_count /\ Sound(Here.fields \o s, Here.pkg)
  <2>1. selectedPackage < pack_count
    BY <1>6 DEF AddGroup, Own, ListsOwn
  <2>. QED BY <1>1, <1>6, <2>1, HereTyped, HereSound, ExtendedSound
<1>. QED BY <1>5, <1>6

LEMMA RemoveFieldInductive ==
    ASSUME Typed, NEW k \in 1 .. FieldLimit, RemoveField(k) PROVE Typed' /\ (Own => Own')
<1>. DEFINE fields == Removed(Here.fields, k)
<1>1. k \in 1 .. Len(Here.fields)
  <2>1. FieldLimit \in Nat
    BY FieldsAssumption
  <2>2. Len(Here.fields) \in Nat
    BY HereTyped
  <2>3. k <= Len(Here.fields)
    BY DEF RemoveField
  <2>. QED BY <2>1, <2>2, <2>3
<1>2. fields \in Seq(Names)
  BY <1>1, HereTyped, RemovedNames
<1>3. db' = [db EXCEPT ![selectedPackage].fields = fields]
  <2>1. selectedPackage \in DOMAIN db
    BY HereTyped DEF Typed, Shape
  <2>. QED BY <2>1 DEF RemoveField, Here
<1>4. Typed' /\ (Own /\ selectedPackage < pack_count /\ Sound(fields, Here.pkg) => Own')
  BY <1>2, <1>3, NewFields DEF RemoveField, group
<1>5. ASSUME Own PROVE selectedPackage < pack_count /\ Sound(fields, Here.pkg)
  <2>1. selectedPackage < pack_count
    BY <1>1, <1>5, HereSound
  <2>. QED BY <1>1, <1>5, <2>1, HereTyped, HereSound, RemovedSound
<1>. QED BY <1>4, <1>5

LEMMA DisplayFieldsInductive ==
    ASSUME Typed, NEW i \in Slots, DisplayFields(i) PROVE Typed' /\ (Own => Own')
<1>1. /\ window /\ i < pack_count /\ selectedPackage' = i
      /\ available_groups' = db[i].groups
      /\ groupOf' = groupOf /\ db' = db /\ pack_count' = pack_count /\ window' = window
      /\ newgrp' = newgrp /\ filling' = filling
  BY DEF DisplayFields, group
<1>2. Counts' /\ Shape' /\ Distinct'
  BY <1>1 DEF Typed, Counts, Shape, Distinct
<1>3. Here' = db[i] /\ db[i].pkg \in Packages /\ db[i].available_count = Len(Rows(db[i].pkg))
  BY <1>1 DEF Typed, Distinct, Here
<1>4. Known'
  BY <1>1, <1>3 DEF Typed, Known
<1>5. ASSUME NEW f \in available_fields'
      PROVE  f \in NumericNames(db[i].pkg)
  <2>1. PICK k \in 1 .. Here.available_count :
           k <= db[i].available_count /\ f = RowText(db[i].pkg, k) /\ f # "NULL"
    BY <1>5 DEF DisplayFields
  <2>2. k \in DOMAIN Rows(db[i].pkg)
    BY <2>1, <1>3, HereTyped, NumericAreNames
  <2>. QED BY <2>1, <2>2 DEF RowText, NumericNames
<1>6. ListsOwn'
  BY <1>1, <1>3, <1>5 DEF ListsOwn
<1>7. Own => Own'
  BY <1>1, <1>3, <1>6 DEF Own, Vacant, SoundSlots, GroupsKnown
<1>. QED BY <1>2, <1>4, <1>7 DEF Typed

(* The callbacks of the new-group window, up to Create. *)
LEMMA GroupWindowInductive ==
    ASSUME Typed,
           NewgrpRealised \/ FillItem \/ CloseGroup
             \/ \E k \in 1 .. newgrp.items : AddFields(k) \/ RemoveFields(k)
    PROVE  Typed' /\ (Own => Own')
<1>1. /\ newgrp \in [open : BOOLEAN, items : Nat, create : BOOLEAN]
      /\ filling \in [on : BOOLEAN, i : Nat, avl_count : Nat]
  BY DEF Typed, Shape
<1>. DEFINE Items == newgrp.items # 0 \/ newgrp.create
                       \/ (filling.on /\ filling.i < filling.avl_count)
            Done == /\ UNCHANGED selection /\ UNCHANGED lists
                    /\ newgrp' \in [open : BOOLEAN, items : Nat, create : BOOLEAN]
                    /\ filling' \in [on : BOOLEAN, i : Nat, avl_count : Nat]
                    /\ Items' => Items \/ Here.available_count # 0
<1>2. ASSUME NewgrpRealised PROVE Done
  <2>1. /\ newgrp' = [open |-> TRUE, items |-> 0, create |-> FALSE]
        /\ filling' = [on |-> TRUE, i |-> 1, avl_count |-> Here.available_count]
        /\ UNCHANGED selection /\ UNCHANGED lists
    BY <1>2 DEF NewgrpRealised, NoWindow
  <2>2. Here.available_count \in Nat
    BY HereTyped
  <2>. QED BY <2>1, <2>2
<1>3. ASSUME FillItem PROVE Done
  <2>1. UNCHANGED selection /\ UNCHANGED lists /\ filling.on
    BY <1>3 DEF FillItem
  <2>2. CASE filling.i < filling.avl_count
    <3>1. /\ filling' = [on |-> filling.on, i |-> filling.i + 1, avl_count |-> filling.avl_count]
          /\ newgrp' = newgrp
              \/ newgrp' = [open |-> newgrp.open, items |-> newgrp.items + 1, create |-> newgrp.create]
      BY <1>1, <1>3, <2>2 DEF FillItem
    <3>. QED BY <1>1, <2>1, <2>2, <3>1
  <2>3. CASE ~(filling.i < filling.avl_count)
    <3>1. newgrp' = newgrp /\ filling' = [on |-> FALSE, i |-> 1, avl_count |-> 0]
      BY <1>3, <2>3 DEF FillItem, NotFilling
    <3>. QED BY <1>1, <2>1, <3>1
  <2>. QED BY <2>2, <2>3
<1>4. ASSUME CloseGroup PROVE Done
  <2>1. /\ newgrp' = [open |-> FALSE, items |-> 0, create |-> FALSE] /\ filling' = filling
        /\ UNCHANGED selection /\ UNCHANGED lists
    BY <1>4 DEF CloseGroup, NoWindow
  <2>. QED BY <1>1, <2>1
<1>5. ASSUME NEW k \in 1 .. newgrp.items, AddFields(k) \/ RemoveFields(k) PROVE Done
  <2>1. /\ UNCHANGED selection /\ UNCHANGED lists /\ filling' = filling
        /\ newgrp' = newgrp \/ newgrp' = [newgrp EXCEPT !.create = TRUE]
    BY <1>5 DEF AddFields, RemoveFields
  <2>2. newgrp.items # 0
    BY <1>1
  <2>3. newgrp' \in [open : BOOLEAN, items : Nat, create : BOOLEAN]
    <3>1. CASE newgrp' = newgrp
      BY <1>1, <3>1
    <3>2. CASE newgrp' = [newgrp EXCEPT !.create = TRUE]
      BY <1>1, <3>2
    <3>. QED BY <2>1, <3>1, <3>2
  <2>. QED BY <1>1, <2>1, <2>2, <2>3
<1>6. Done
  BY <1>2, <1>3, <1>4, <1>5
<1>7. Items => Here.pkg \in Packages
  BY DEF Typed, Known
<1>8. Here.available_count # 0 => Here.pkg \in Packages
  BY HereTyped
<1>9. Here' = Here /\ db' = db
  BY <1>6 DEF selection, Here
<1>10. Known'
  BY <1>6, <1>7, <1>8, <1>9 DEF Typed, Known
<1>11. Counts' /\ Shape' /\ Distinct'
  BY <1>6 DEF Typed, selection, Counts, Shape, Distinct
<1>12. Own => Own'
  BY <1>6, <1>9 DEF Own, Vacant, SoundSlots, ListsOwn, GroupsKnown, selection, lists
<1>. QED BY <1>10, <1>11, <1>12 DEF Typed

(* Creating a group changes the groups of one package, read again at once. *)
LEMMA CreateGroupInductive ==
    ASSUME Typed, NEW g, NEW reach \in 0 .. 2, CreateGroup(g, reach)
    PROVE  Typed' /\ (Own /\ selectedPackage < pack_count => Own')
<1>. DEFINE sp == selectedPackage
            q  == Here.pkg
            newGroups == Groups(q, groupOf'[q])
<1>. DEFINE fields == Wiped(db[sp].fields, reach)
            slot   == [pkg |-> q, fields |-> fields, groups |-> newGroups,
                       available_count |-> db[sp].available_count]
<1>1. /\ newgrp.open /\ newgrp.create
      /\ groupOf' = Regrouped(g)
      /\ db' = [db EXCEPT ![sp] = slot]
      /\ available_groups' = IF window THEN newGroups ELSE available_groups
      /\ newgrp' = [open |-> FALSE, items |-> 0, create |-> FALSE]
      /\ pack_count' = pack_count /\ selectedPackage' = selectedPackage /\ window' = window
      /\ available_fields' = available_fields /\ filling' = filling
  BY DEF CreateGroup, NoWindow, Here
<1>2. sp \in Slots /\ q \in Packages
  BY <1>1, HereTyped DEF Typed, Known
<1>3. /\ groupOf' = [p \in Packages |-> groupOf'[p]]
      /\ \A p \in Packages : p # q => groupOf'[p] = groupOf[p]
  BY <1>1, <1>2 DEF Regrouped, Typed, Shape
<1>4. fields \in Seq(Names) /\ (Sound(db[sp].fields, q) => Sound(fields, q))
  <2>1. db[sp].fields \in Seq(Names)
    BY <1>2 DEF Typed, Shape
  <2>. QED BY <1>2, <2>1, WipedSound, WipedNames
<1>. HIDE DEF newGroups, fields
<1>5. \A i \in Slots : db[i] = [pkg |-> db[i].pkg, fields |-> db[i].fields,
                  groups |-> db[i].groups, available_count |-> db[i].available_count]
  BY DEF Typed, Shape
<1>6. db = [i \in Slots |-> db[i]]
  BY DEF Typed, Shape
<1>7. q = db[sp].pkg
  BY DEF Here
<1>. HIDE DEF q
<1>8. /\ db'[sp] = slot
      /\ db' = [i \in Slots |-> db'[i]]
      /\ \A i \in Slots : i # sp => db'[i] = db[i]
  BY <1>1, <1>2, <1>6
<1>10. Counts'
  BY <1>1 DEF Typed, Counts
<1>11. Shape'
  <2>1. ASSUME NEW i \in Slots
        PROVE  /\ db'[i] = [pkg |-> db'[i].pkg, fields |-> db'[i].fields, groups |-> db'[i].groups,
                            available_count |-> db'[i].available_count]
               /\ db'[i].fields \in Seq(Names)
    <3>1. CASE i = sp
      BY <1>4, <1>8, <3>1
    <3>2. CASE i # sp
      <4>1. db'[i] = db[i]
        BY <1>8, <3>2
      <4>. QED BY <1>5, <4>1 DEF Typed, Shape
    <3>. QED BY <3>1, <3>2
  <2>2. /\ newgrp' \in [open : BOOLEAN, items : Nat, create : BOOLEAN]
        /\ filling' \in [on : BOOLEAN, i : Nat, avl_count : Nat]
    BY <1>1 DEF Typed, Shape
  <2>. QED BY <1>3, <1>8, <2>1, <2>2 DEF Shape
<1>12. \A i \in Slots : /\ db'[i].pkg = db[i].pkg
                        /\ db'[i].available_count = db[i].available_count
                        /\ i # sp => db'[i] = db[i]
  BY <1>7, <1>8
<1>13. Distinct'
  BY <1>1, <1>12 DEF Typed, Distinct
<1>14. Known'
  <2>1. Here' = db'[sp]
    BY <1>1 DEF Here
  <2>. QED BY <1>2, <1>7, <1>12, <2>1 DEF Typed, Known
<1>15. ASSUME Own, sp < pack_count PROVE Own'
  <2>1. ASSUME NEW i \in Slots, i < pack_count
        PROVE  /\ Sound(db'[i].fields, db'[i].pkg)
               /\ db'[i].groups = Groups(db'[i].pkg, groupOf'[db'[i].pkg])
    <3>1. CASE i = sp
      <4>1. Sound(db[sp].fields, q)
        BY <1>2, <1>7, <1>15 DEF Own, SoundSlots
      <4>. QED BY <1>4, <1>8, <3>1, <4>1 DEF newGroups
    <3>2. CASE i # sp
      <4>1. db[i].pkg # q /\ db[i].pkg \in Packages
        BY <1>2, <1>7, <1>15, <2>1, <3>2 DEF Typed, Distinct
      <4>2. db'[i] = db[i] /\ groupOf'[db[i].pkg] = groupOf[db[i].pkg]
        BY <1>3, <1>12, <3>2, <4>1
      <4>3. Sound(db[i].fields, db[i].pkg) /\ db[i].groups = Groups(db[i].pkg, groupOf[db[i].pkg])
        BY <1>15, <2>1 DEF Own, SoundSlots, GroupsKnown
      <4>. QED BY <4>2, <4>3
    <3>. QED BY <3>1, <3>2
  <2>2. Vacant'
    BY <1>1, <1>12, <1>15 DEF Own, Vacant
  <2>3. Here'.groups = newGroups /\ Here'.pkg = Here.pkg
    BY <1>1, <1>2, <1>8, <1>12 DEF Here
  <2>4. available_groups' # <<>> => window /\ available_groups' = newGroups
    BY <1>1, <1>15 DEF Own, ListsOwn
  <2>5. ListsOwn'
    BY <1>1, <1>15, <2>3, <2>4 DEF Own, ListsOwn
  <2>6. GroupsKnown'
    BY <1>1, <2>1, <2>3, <2>4 DEF GroupsKnown
  <2>. QED BY <1>1, <2>1, <2>2, <2>5, <2>6 DEF Own, SoundSlots
<1>. QED BY <1>10, <1>11, <1>13, <1>14, <1>15 DEF Typed

LEMMA NextInductive == Typed /\ (stray \/ Own) /\ [Next]_vars => Typed' /\ (stray' \/ Own')
<1>. SUFFICES ASSUME Typed, stray \/ Own, [Next]_vars PROVE Typed' /\ (stray' \/ Own')
  OBVIOUS
<1>1. CASE \E g \in GroupNames, reach \in 0 .. 2 : CreateGroup(g, reach)
  <2>1. PICK g \in GroupNames, reach \in 0 .. 2 : CreateGroup(g, reach)
    BY <1>1
  <2>2. stray' = (stray \/ selectedPackage >= pack_count)
    BY <2>1 DEF CreateGroup
  <2>3. selectedPackage < pack_count \/ selectedPackage >= pack_count
    BY SlotsNat DEF Typed, Counts
  <2>. QED BY <2>1, <2>2, <2>3, CreateGroupInductive
<1>2. CASE RtanaRealized
  BY <1>2, RtanaRealizedInductive DEF RtanaRealized, group, history
<1>3. CASE UNCHANGED <<selection, group, available_fields, available_groups, window>>
           \/ RtanaCancel
  <2>1. /\ UNCHANGED selection /\ newgrp' = newgrp /\ filling' = filling /\ stray' = stray
        /\ \/ available_fields' = {} /\ available_groups' = <<>>
           \/ available_fields' = available_fields /\ available_groups' = available_groups
              /\ window' = window
    BY <1>3 DEF RtanaCancel, group, history
  <2>2. Own => ListsOwn' /\ GroupsKnown'
    BY <2>1 DEF Own, ListsOwn, GroupsKnown, selection, Here
  <2>. QED BY <2>1, <2>2, SameSelection DEF Own
<1>4. CASE \E p \in Packages : AddPackage(p)
  <2>1. PICK p \in Packages : AddPackage(p)
    BY <1>4
  <2>2. stray' = stray
    BY <2>1 DEF AddPackage, group, history
  <2>. QED BY <2>1, <2>2, AddPackageInductive
<1>5. CASE \E i \in Slots : DisplayFields(i)
  <2>1. PICK i \in Slots : DisplayFields(i)
    BY <1>5
  <2>2. stray' = stray
    BY <2>1 DEF DisplayFields, group, history
  <2>. QED BY <2>1, <2>2, DisplayFieldsInductive
<1>6. CASE \E f \in AllNames : AddField(f)
  <2>1. PICK f \in AllNames : AddField(f)
    BY <1>6
  <2>2. stray' = stray
    BY <2>1 DEF AddField, SelectFields, group, history
  <2>. QED BY <2>1, <2>2, AddFieldInductive
<1>7. CASE \E k \in 1 .. Len(available_groups) : AddGroup(k)
  <2>1. PICK k \in 1 .. Len(available_groups) : AddGroup(k)
    BY <1>7
  <2>2. stray' = stray
    BY <2>1 DEF AddGroup, SelectFields, group, history
  <2>. QED BY <2>1, <2>2, AddGroupInductive
<1>8. CASE \E k \in 1 .. FieldLimit : RemoveField(k)
  <2>1. PICK k \in 1 .. FieldLimit : RemoveField(k)
    BY <1>8
  <2>2. stray' = stray
    BY <2>1 DEF RemoveField, group, history
  <2>. QED BY <2>1, <2>2, RemoveFieldInductive
<1>9. CASE NewgrpRealised \/ FillItem \/ CloseGroup
             \/ \E k \in 1 .. newgrp.items : AddFields(k) \/ RemoveFields(k)
  <2>1. stray' = stray
    BY <1>9 DEF NewgrpRealised, FillItem, CloseGroup, AddFields, RemoveFields, history
  <2>. QED BY <1>9, <2>1, GroupWindowInductive
<1>10. CASE Okay \/ PackanClose \/ (\E a \in SUBSET (0 .. pack_count - 1) : Poll(a)) \/ UNCHANGED vars
  BY <1>3, <1>10 DEF Okay, PackanClose, Poll, vars, lists
<1>. QED BY <1>1, <1>2, <1>3, <1>4, <1>5, <1>6, <1>7, <1>8, <1>9, <1>10 DEF Next

LEMMA Invariance == Spec => [](Typed /\ (stray \/ Own))
BY InitInductive, NextInductive, PTL DEF Spec

LEMMA SlotsInUse ==
    ASSUME Counts PROVE \A i \in 0 .. pack_count - 1 : i \in Slots /\ i < pack_count
BY SlotsNat DEF Counts, Slots

(* The selected fields of every selected package are numeric fields of its *)
(* own table, none of them twice, but for the first two when a group was   *)
(* made with an overlong statement: packageConnect::add_field, add_group,  *)
(* remove_field and Init as the callbacks of rtana_callbacks.cpp use them, *)
(* until a group is made for a place no package is in.                     *)
THEOREM SelectionIsSound == Spec => []SelectionSound
<1>1. Typed /\ (stray \/ Own) => SelectionSound
  BY SlotsInUse DEF Typed, Own, SoundSlots, SelectionSound
<1>. QED BY <1>1, Invariance, PTL

(* The groups the user is shown are those of the package selected, and each*)
(* package knows the groups of its table, whatever groups are created in   *)
(* create_group_callback for packages selected and whenever packages are   *)
(* selected again.                                                         *)
THEOREM GroupsAreShown == Spec => []GroupsShown
<1>1. Typed /\ (stray \/ Own) => GroupsShown
  BY SlotsInUse DEF Typed, Own, GroupsKnown, GroupsShown
<1>. QED BY <1>1, Invariance, PTL

-----------------------------------------------------------------------------
(* The panels.  What a row of them shows was read at a row of a table.     *)

(* A bounded set of numbers has a greatest one.                            *)
LEMMA Greatest ==
    ASSUME NEW n \in Nat, NEW T, T \subseteq 0 .. n, T # {} PROVE \E m \in T : \A k \in T : k <= m
<1>. DEFINE B == {j \in 0 .. n : n - j \in T}
<1>1. PICK t \in T : TRUE
  OBVIOUS
<1>2. t \in 0 .. n /\ n - t \in 0 .. n /\ n - (n - t) = t
  OBVIOUS
<1>3. B \subseteq Nat /\ B # {}
  BY <1>2
<1>4. PICK b \in B : \A c \in B : b <= c
  <2>. HIDE DEF B
  <2>. QED BY <1>3, LeastOf
<1>5. n - b \in T /\ b \in 0 .. n
  OBVIOUS
<1>6. ASSUME NEW k \in T PROVE k <= n - b
  <2>1. k \in 0 .. n /\ n - k \in 0 .. n /\ n - (n - k) = k
    OBVIOUS
  <2>2. b <= n - k
    BY <1>4, <2>1
  <2>. QED BY <1>5, <2>1, <2>2
<1>. QED BY <1>5, <1>6

(* What a row of the panels can show of row i of table p. *)
RowShown(p, i) ==
    [name |-> Rows(p)[i].name, value |-> Rows(p)[i].name, unit |-> Rows(p)[i].unit]
OfSomeRow(t) == t = Junk \/ \E p \in Packages : \E i \in DOMAIN Rows(p) : t = RowShown(p, i)

LEMMA ReadIsARow ==
    ASSUME NEW p \in Packages, NEW f \in NamesOf(p) PROVE OfSomeRow(Read(p, f))
<1>1. RowOf(p, f) \in DOMAIN Rows(p) /\ Rows(p)[RowOf(p, f)].name = f
  BY DEF NamesOf, RowOf
<1>2. Read(p, f) = RowShown(p, RowOf(p, f))
  BY <1>1 DEF Read, RowShown
<1>. QED BY <1>1, <1>2 DEF OfSomeRow

(* A field no table has leaves what was read before. *)
LEMMA ReadAtIsARow ==
    ASSUME NEW fs \in Seq([pack : Packages, name : Names]), OfSomeRow(loop),
           NEW r \in Nat, r <= Len(fs)
    PROVE  OfSomeRow(ReadAt(fs, r))
<1>. DEFINE known == {k \in 1 .. r : fs[k].name \in NamesOf(fs[k].pack)}
<1>1. CASE known = {}
  BY <1>1 DEF ReadAt
<1>2. CASE known # {}
  <2>. DEFINE k == CHOOSE k \in known : \A m \in known : m <= k
  <2>1. \E j \in known : \A m \in known : m <= j
    <3>1. known \subseteq 0 .. r
      OBVIOUS
    <3>. HIDE DEF known
    <3>. QED BY <1>2, <3>1, Greatest
  <2>2. k \in known
    BY <2>1
  <2>3. ReadAt(fs, r) = Read(fs[k].pack, fs[k].name)
    BY <1>2 DEF ReadAt
  <2>. HIDE DEF k
  <2>4. k \in 1 .. Len(fs) /\ fs[k].name \in NamesOf(fs[k].pack)
    BY <2>2
  <2>. DEFINE E == [pack : Packages, name : Names]
  <2>5. fs \in Seq(E)
    OBVIOUS
  <2>6. fs[k].pack \in Packages
    <3>. HIDE DEF known, E
    <3>1. fs[k] \in E
      BY <2>4, <2>5
    <3>. QED BY <3>1 DEF E
  <2>. QED BY <2>3, <2>4, <2>6, ReadIsARow
<1>. QED BY <1>1, <1>2

LEMMA AllReadTyped ==
    ASSUME Typed, NEW answered
    PROVE  AllRead(answered) \in Seq([pack : Packages, name : Names])
<1>. DEFINE E == [pack : Packages, name : Names]
            ss == [n \in 1 .. pack_count |-> IF n - 1 \in answered THEN FieldsOf(n - 1) ELSE <<>>]
<1>1. pack_count \in Nat
  BY SlotsNat DEF Typed, Counts
<1>2. ASSUME NEW n \in 1 .. pack_count PROVE FieldsOf(n - 1) \in Seq(E)
  <2>1. n - 1 \in Slots /\ n - 1 < pack_count
    BY <1>1, SlotsNat DEF Typed, Counts, Slots
  <2>2. db[n - 1].pkg \in Packages /\ db[n - 1].fields \in Seq(Names)
    BY <2>1 DEF Typed, Distinct, Shape
  <2>. DEFINE F == db[n - 1].fields
             p == db[n - 1].pkg
  <2>3. F \in Seq(Names) /\ p \in Packages
    BY <2>2
  <2>4. FieldsOf(n - 1) = [j \in DOMAIN F |-> [pack |-> p, name |-> F[j]]]
    BY DEF FieldsOf
  <2>. HIDE DEF F, p
  <2>5. Len(F) \in Nat /\ DOMAIN F = 1 .. Len(F) /\ \A j \in 1 .. Len(F) : F[j] \in Names
    BY <2>3
  <2>6. \A j \in 1 .. Len(F) : [pack |-> p, name |-> F[j]] \in E
    BY <2>3, <2>5
  <2>7. FieldsOf(n - 1) \in [1 .. Len(F) -> E]
    BY <2>4, <2>5, <2>6
  <2>. HIDE DEF E
  <2>. QED BY <2>5, <2>7
<1>3. \A n \in 1 .. pack_count : ss[n] \in Seq(E)
  <2>. HIDE DEF E
  <2>1. <<>> \in Seq(E)
    OBVIOUS
  <2>. QED BY <1>2, <2>1
<1>4. ss \in [1 .. pack_count -> Seq(E)]
  BY <1>3
<1>. HIDE DEF E
<1>5. ss \in Seq(Seq(E))
  BY <1>1, <1>4
<1>6. AllRead(answered) = FlattenSeq(ss)
  BY DEF AllRead
<1>. HIDE DEF ss
<1>7. AllRead(answered) \in Seq(E)
  BY <1>5, <1>6, FlattenElements
<1>. QED BY <1>7 DEF E

(* A whole row is printed, or nothing. *)
LEMMA PrintedWhole ==
    ASSUME NEW t, OfSomeRow(t)
    PROVE  LET row == [name |-> Printed("", t.name), value |-> Printed("", t.value),
                       unit |-> Printed("", t.unit)]
           IN  OfSomeRow(row)
<1>1. t = [name |-> t.name, value |-> t.value, unit |-> t.unit]
  BY DEF OfSomeRow, RowShown, Junk
<1>. QED BY <1>1 DEF Printed

LEMMA RowsOfPanels ==
    ASSUME NEW t, t = BlankRow \/ OfSomeRow(t), t.name \notin {"", "wiped"}
    PROVE  \E p \in Packages : \E i \in DOMAIN Rows(p) :
              t.name = Rows(p)[i].name /\ t.value = t.name /\ t.unit = Rows(p)[i].unit
<1>1. BlankRow.name = "" /\ Junk.name = "wiped"
  BY DEF BlankRow, Junk
<1>2. t # BlankRow /\ t # Junk
  BY <1>1
<1>3. PICK p \in Packages : \E i \in DOMAIN Rows(p) : t = RowShown(p, i)
  BY <1>2 DEF OfSomeRow
<1>5. PICK i \in DOMAIN Rows(p) : t = RowShown(p, i)
  BY <1>3
<1>4. t.name = Rows(p)[i].name /\ t.value = t.name /\ t.unit = Rows(p)[i].unit
  BY <1>5 DEF RowShown
<1>. QED BY <1>4

LEMMA ScreenOfRows ==
    ASSUME \A r \in 1 .. MAX_ROWS : screen'[r] = BlankRow \/ OfSomeRow(screen'[r])
    PROVE  PanelsAgree'
BY RowsOfPanels DEF PanelsAgree

LEMMA PollReads ==
    ASSUME Typed, OfSomeRow(loop), NEW answered, Poll(answered)
    PROVE  OfSomeRow(loop)' /\ PanelsAgree'
<1>. DEFINE fs == AllRead(answered)
            last == CHOOSE i \in answered : \A m \in answered : m <= i
            first == Len(fs) - Len(db[last].fields) + 1
<1>1. screen' = Panels(Blank, fs, first) /\ loop' = IF fs = <<>> THEN loop ELSE ReadAt(fs, Len(fs))
  BY DEF Poll
<1>2. fs \in Seq([pack : Packages, name : Names])
  BY AllReadTyped
<1>. HIDE DEF fs, first
<1>3. Len(fs) \in Nat
  BY <1>2
<1>4. OfSomeRow(loop')
  <2>1. \A r \in Nat : r <= Len(fs) => OfSomeRow(ReadAt(fs, r))
    BY <1>2, ReadAtIsARow
  <2>2. Len(fs) <= Len(fs)
    BY <1>3
  <2>3. OfSomeRow(ReadAt(fs, Len(fs)))
    BY <1>3, <2>1, <2>2
  <2>. QED BY <1>1, <2>3
<1>5. ASSUME NEW r \in 1 .. MAX_ROWS PROVE screen'[r] = BlankRow \/ OfSomeRow(screen'[r])
  <2>1. CASE r \in first .. Len(fs)
    <3>. DEFINE t == ReadAt(fs, r)
    <3>1. r \in Nat /\ r <= Len(fs)
      BY <1>3, <2>1
    <3>2. OfSomeRow(t)
      BY <1>2, <3>1, ReadAtIsARow
    <3>3. screen'[r] = [name |-> Printed("", t.name), value |-> Printed("", t.value),
                        unit |-> Printed("", t.unit)]
      BY <1>1, <2>1 DEF Panels, Blank, BlankRow
    <3>. HIDE DEF t
    <3>. QED BY <3>2, <3>3, PrintedWhole
  <2>2. CASE r \notin first .. Len(fs)
    BY <1>1, <2>2 DEF Panels, Blank
  <2>. QED BY <2>1, <2>2
<1>6. PanelsAgree'
  BY <1>5, ScreenOfRows
<1>. QED BY <1>4, <1>6 DEF OfSomeRow

(* A row of the panels is of one field, its value and unit those of the    *)
(* name beside them: get_realtime_value fills the three together, and a    *)
(* poll prints on cleared panels, whatever fields are added and removed    *)
(* between two polls.  packana_post_realise_callback, outputbuf.           *)
THEOREM PanelsAreOfFields == Spec => []PanelsAgree
<1>1. Init => OfSomeRow(loop) /\ PanelsAgree
  <2>. SUFFICES ASSUME Init PROVE OfSomeRow(loop) /\ PanelsAgree
    OBVIOUS
  <2>1. loop = Junk /\ \A r \in 1 .. MAX_ROWS : screen[r] = BlankRow
    BY DEF Init, Blank
  <2>. QED BY <2>1, RowsOfPanels DEF OfSomeRow, PanelsAgree
<1>2. Typed /\ OfSomeRow(loop) /\ PanelsAgree /\ [Next]_vars
         => OfSomeRow(loop)' /\ PanelsAgree'
  <2>. SUFFICES ASSUME Typed, OfSomeRow(loop), PanelsAgree, [Next]_vars
                PROVE  OfSomeRow(loop)' /\ PanelsAgree'
    OBVIOUS
  <2>1. CASE \E a \in SUBSET (0 .. pack_count - 1) : Poll(a)
    BY <2>1, PollReads
  <2>2. CASE PackanClose
    <3>1. loop' = Junk /\ \A r \in 1 .. MAX_ROWS : screen'[r] = BlankRow
      BY <2>2 DEF PackanClose, Blank
    <3>. QED BY <3>1, ScreenOfRows DEF OfSomeRow
  <2>3. CASE UNCHANGED <<loop, screen>>
    BY <2>3 DEF OfSomeRow, PanelsAgree
  <2>4. ASSUME ~(\E a \in SUBSET (0 .. pack_count - 1) : Poll(a)), ~PackanClose
        PROVE  UNCHANGED <<loop, screen>>
    BY <2>4 DEF Next, RtanaRealized, RtanaCancel, AddPackage, DisplayFields, AddField, AddGroup,
            SelectFields, RemoveField, NewgrpRealised, FillItem, CloseGroup, AddFields,
            RemoveFields, CreateGroup, Okay, vars, analysis
  <2>. QED BY <2>1, <2>2, <2>3, <2>4
<1>. QED BY <1>1, <1>2, Invariance, PTL DEF Spec

-----------------------------------------------------------------------------
(* The array of the selected fields (FieldArray).                          *)
Places(n) == 0 .. n - 1
Below == IF selected_count < 0 THEN -1 ELSE 0
ArrayTyped ==
    /\ arrayFields = [i \in Array!Position |-> arrayFields[i]]
    /\ selected_count \in Int /\ -1 <= selected_count /\ selected_count <= FieldLimit
    /\ pc = "row" => selected_count < FieldLimit
    /\ IsFiniteSet(held) /\ missed \in Int
NoneTwice ==
    \A i, j \in Places(selected_count) : arrayFields[i] = arrayFields[j] => i = j
(* Below zero one removal has been counted that cost nothing yet.          *)
FewMissed ==
    /\ Array!Selected \subseteq held
    /\ Cardinality(held \ Array!Selected) <= missed + Below
ArrayInv == ArrayTyped /\ NoneTwice /\ FewMissed

LEMMA LimitIsNatural == FieldLimit \in Nat
BY FieldsAssumption

LEMMA OneLess ==
    ASSUME ArrayInv, selected_count >= 0
    PROVE  /\ selected_count \in Nat /\ FieldLimit \in Nat
           /\ \A j \in Places(selected_count) : j \in Array!Position /\ j \in Nat
           /\ \A j \in Places(selected_count - 1) : j \in Places(selected_count)
                                                    /\ j + 1 \in Places(selected_count)
           /\ \A j \in Places(selected_count) :
                  j \in Places(selected_count - 1) \/ j = selected_count - 1
BY LimitIsNatural DEF ArrayInv, ArrayTyped, Places, Array!Position

LEMMA FewerMissing ==
    ASSUME NEW S, NEW T, IsFiniteSet(S), T \subseteq S
    PROVE  IsFiniteSet(T) /\ Cardinality(T) <= Cardinality(S)
           /\ Cardinality(T) \in Nat /\ Cardinality(S) \in Nat
<1>1. T \in SUBSET S
  OBVIOUS
<1>. QED BY <1>1, FS_Subset, FS_CardinalityType

LEMMA OneMoreMissing ==
    ASSUME NEW S, NEW T, NEW x, IsFiniteSet(S), T \subseteq S \cup {x}
    PROVE  IsFiniteSet(T) /\ Cardinality(T) <= Cardinality(S) + 1
           /\ Cardinality(T) \in Nat /\ Cardinality(S) \in Nat
<1>1. IsFiniteSet(S \cup {x}) /\ Cardinality(S \cup {x}) <= Cardinality(S) + 1
      /\ Cardinality(S) \in Nat /\ Cardinality(S \cup {x}) \in Nat
  <2>1. IsFiniteSet(S \cup {x}) /\ Cardinality(S \cup {x}) =
            (IF x \in S THEN Cardinality(S) ELSE Cardinality(S) + 1)
    BY FS_AddElement
  <2>2. Cardinality(S) \in Nat
    BY FS_CardinalityType
  <2>. QED BY <2>1, <2>2
<1>2. IsFiniteSet(T) /\ Cardinality(T) <= Cardinality(S \cup {x}) /\ Cardinality(T) \in Nat
  BY <1>1, FewerMissing
<1>. QED BY <1>1, <1>2

(* A name that is there is taken out, and the ones behind it move up.      *)
LEMMA HitKeeps ==
    ASSUME ArrayInv, selected_count >= 0, NEW k \in Places(selected_count),
           arrayFields' = Array!MovedUp(k), selected_count' = selected_count - 1,
           held' = held \ {arrayFields[k]}, missed' = missed, pc' = pc
    PROVE  ArrayInv'
<1>. DEFINE f == arrayFields
            n == selected_count
            g == Array!MovedUp(k)
<1>1. /\ n \in Nat /\ n # 0 /\ FieldLimit \in Nat /\ k \in Nat /\ k <= n - 1
      /\ \A j \in Places(n) : j \in Array!Position /\ j \in Nat
      /\ \A j \in Places(n - 1) : j \in Places(n) /\ j + 1 \in Places(n)
  BY OneLess DEF Places
<1>2. ASSUME NEW j \in Places(n - 1)
      PROVE  g[j] = (IF j >= k THEN f[j + 1] ELSE f[j]) /\ j \in Nat /\ j < n
  <2>1. j \in Array!Position /\ j \in Nat /\ j < n
    BY <1>1 DEF Places
  <2>. QED BY <2>1 DEF Array!MovedUp
<1>3. \A i, j \in Places(n) : f[i] = f[j] => i = j
  BY DEF ArrayInv, NoneTwice
<1>4. g = [j \in Array!Position |-> g[j]]
  BY DEF Array!MovedUp
<1>11. arrayFields' = g /\ selected_count' = n - 1
  OBVIOUS
<1>. HIDE DEF g
<1>5. NoneTwice'
  <2>1. ASSUME NEW i \in Places(n - 1), NEW j \in Places(n - 1), g[i] = g[j] PROVE i = j
    <3>. DEFINE p(m) == IF m >= k THEN m + 1 ELSE m
    <3>1. /\ p(i) \in Places(n) /\ p(j) \in Places(n)
          /\ g[i] = f[p(i)] /\ g[j] = f[p(j)]
      BY <1>1, <1>2
    <3>2. p(i) = p(j)
      BY <1>3, <2>1, <3>1
    <3>3. i \in Nat /\ j \in Nat
      BY <1>2
    <3>. QED BY <1>1, <3>2, <3>3
  <2>. QED BY <1>11, <2>1 DEF NoneTwice
<1>6. Array!Selected' = Array!Selected \ {f[k]}
  <2>1. ASSUME NEW j \in Places(n - 1) PROVE g[j] \in Array!Selected \ {f[k]}
    <3>1. CASE j >= k
      <4>1. g[j] = f[j + 1] /\ j + 1 \in Places(n) /\ j + 1 # k
        BY <1>1, <1>2, <3>1
      <4>. QED BY <1>3, <4>1 DEF Array!Selected, Places
    <3>2. CASE ~(j >= k)
      <4>1. g[j] = f[j] /\ j \in Places(n) /\ j # k
        BY <1>1, <1>2, <3>2
      <4>. QED BY <1>3, <4>1 DEF Array!Selected, Places
    <3>. QED BY <3>1, <3>2
  <2>2. ASSUME NEW i \in Places(n), f[i] # f[k] PROVE \E j \in Places(n - 1) : g[j] = f[i]
    <3>1. CASE i < k
      <4>1. i \in Places(n - 1) /\ ~(i >= k)
        BY <1>1, <3>1 DEF Places
      <4>. QED BY <1>2, <4>1
    <3>2. CASE i > k
      <4>1. i - 1 \in Places(n - 1) /\ i - 1 >= k /\ (i - 1) + 1 = i
        BY <1>1, <3>2 DEF Places
      <4>2. g[i - 1] = f[(i - 1) + 1]
        BY <1>2, <4>1
      <4>. QED BY <4>1, <4>2
    <3>3. i # k /\ i \in Nat
      BY <1>1, <2>2
    <3>. QED BY <1>1, <3>1, <3>2, <3>3
  <2>3. Array!Selected' = {g[j] : j \in Places(n - 1)} /\ Array!Selected = {f[j] : j \in Places(n)}
    BY <1>11 DEF Array!Selected, Places
  <2>. QED BY <2>1, <2>2, <2>3
<1>7. f[k] \in Array!Selected
  BY DEF Array!Selected, Places
<1>8. held' \ Array!Selected' = held \ Array!Selected
  BY <1>6, <1>7
<1>9. ArrayTyped'
  <2>1. IsFiniteSet(held')
    BY FewerMissing DEF ArrayInv, ArrayTyped
  <2>2. selected_count' \in Int /\ -1 <= selected_count' /\ selected_count' <= FieldLimit
        /\ (pc' = "row" => selected_count' < FieldLimit)
    BY <1>1 DEF ArrayInv, ArrayTyped
  <2>3. Array!Position' = Array!Position
    BY DEF Array!Position
  <2>4. arrayFields' = [i \in Array!Position |-> arrayFields'[i]]
    BY <1>4, <1>11
  <2>. QED BY <2>1, <2>2, <2>3, <2>4 DEF ArrayInv, ArrayTyped
<1>10. FewMissed'
  <2>1. Below' = 0 /\ Below = 0
    BY <1>1 DEF Below
  <2>. QED BY <1>6, <1>8, <2>1 DEF ArrayInv, FewMissed
<1>. QED BY <1>5, <1>9, <1>10 DEF ArrayInv

(* A name that is not there is "removed": the last one goes.               *)
LEMMA MissKeeps ==
    ASSUME ArrayInv, selected_count >= 0, NEW gone, gone \cap Array!Selected = {},
           arrayFields' = arrayFields, selected_count' = selected_count - 1,
           held' = held \ gone, missed' = missed + 1, pc' = pc
    PROVE  ArrayInv'
<1>. DEFINE f == arrayFields
            n == selected_count
            lost == held \ Array!Selected
<1>1. /\ n \in Nat /\ FieldLimit \in Nat
      /\ \A j \in Places(n - 1) : j \in Places(n)
      /\ \A j \in Places(n) : j \in Places(n - 1) \/ j = n - 1
  BY OneLess
<1>2. IsFiniteSet(held) /\ IsFiniteSet(lost) /\ Cardinality(lost) <= missed + Below
      /\ Cardinality(lost) \in Nat /\ missed \in Int
  BY FewerMissing DEF ArrayInv, ArrayTyped, FewMissed
<1>3. Array!Selected' = {f[j] : j \in Places(n - 1)} /\ Array!Selected = {f[j] : j \in Places(n)}
  BY DEF Array!Selected, Places
<1>4. ArrayTyped'
  <2>1. IsFiniteSet(held')
    BY <1>2, FewerMissing
  <2>2. selected_count' \in Int /\ -1 <= selected_count' /\ selected_count' <= FieldLimit
        /\ (pc' = "row" => selected_count' < FieldLimit) /\ missed' \in Int
    BY <1>1, <1>2 DEF ArrayInv, ArrayTyped
  <2>3. Array!Position' = Array!Position
    BY DEF Array!Position
  <2>4. arrayFields' = [i \in Array!Position |-> arrayFields'[i]]
    BY DEF ArrayInv, ArrayTyped
  <2>. QED BY <2>1, <2>2, <2>3, <2>4 DEF ArrayTyped
<1>5. NoneTwice'
  BY <1>1 DEF ArrayInv, NoneTwice
<1>6. Array!Selected' \subseteq held'
  BY <1>1, <1>3 DEF ArrayInv, FewMissed
<1>7. CASE n = 0
  <2>1. Places(n) = {} /\ Places(n - 1) = {} /\ Below' = -1 /\ Below = 0
    BY <1>7 DEF Places, Below
  <2>2. held' \ Array!Selected' \subseteq lost
    BY <1>3, <2>1
  <2>3. Cardinality(held' \ Array!Selected') <= Cardinality(lost)
        /\ Cardinality(held' \ Array!Selected') \in Nat
    BY <1>2, <2>2, FewerMissing
  <2>4. Cardinality(held' \ Array!Selected') <= missed' + Below'
    BY <1>2, <2>1, <2>3
  <2>. QED BY <1>4, <1>5, <1>6, <2>4 DEF ArrayInv, FewMissed
<1>8. CASE n # 0
  <2>1. Below' = 0 /\ Below = 0
    BY <1>1, <1>8 DEF Below
  <2>2. held' \ Array!Selected' \subseteq lost \cup {f[n - 1]}
    BY <1>1, <1>3
  <2>3. Cardinality(held' \ Array!Selected') <= Cardinality(lost) + 1
        /\ Cardinality(held' \ Array!Selected') \in Nat
    BY <1>2, <2>2, OneMoreMissing
  <2>4. Cardinality(held' \ Array!Selected') <= missed' + Below'
    BY <1>2, <2>1, <2>3
  <2>. QED BY <1>4, <1>5, <1>6, <2>4 DEF ArrayInv, FewMissed
<1>. QED BY <1>7, <1>8

LEMMA AddKeeps ==
    ASSUME ArrayInv, NEW name, selected_count < FieldLimit, Array!Add(name), missed' = missed,
           pc' # "row"
    PROVE  ArrayInv'
<1>. DEFINE f == arrayFields
            n == selected_count
<1>1. n \in Int /\ -1 <= n /\ n < FieldLimit /\ FieldLimit \in Nat /\ missed \in Int
      /\ f = [i \in Array!Position |-> f[i]] /\ IsFiniteSet(held)
  BY LimitIsNatural DEF ArrayInv, ArrayTyped
<1>2. CASE name = "" \/ name \in Array!Selected
  <2>1. arrayFields' = arrayFields /\ selected_count' = selected_count /\ held' = held
    BY <1>2 DEF Array!Add, Array!array
  <2>2. Array!Selected' = Array!Selected /\ Below' = Below
    BY <2>1 DEF Array!Selected, Below
  <2>3. ArrayTyped' /\ NoneTwice'
    BY <2>1 DEF ArrayInv, ArrayTyped, NoneTwice
  <2>. QED BY <2>1, <2>2, <2>3 DEF ArrayInv, FewMissed
<1>3. CASE ~(name = "" \/ name \in Array!Selected)
  <2>1. /\ arrayFields' = [f EXCEPT ![n] = name] /\ selected_count' = n + 1
        /\ held' = held \cup {name}
    BY <1>3 DEF Array!Add
  <2>2. n \in Array!Position /\ (\A j \in Places(n) : j \in Array!Position /\ j # n)
        /\ \A j \in Places(n + 1) : j \in Places(n) \/ j = n
    BY <1>1 DEF Places, Array!Position
  <2>3. arrayFields'[n] = name /\ \A j \in Places(n) : arrayFields'[j] = f[j]
    BY <1>1, <2>1, <2>2
  <2>4. arrayFields' = [i \in Array!Position |-> arrayFields'[i]]
    BY <1>1, <2>1
  <2>5. IsFiniteSet(held')
    BY <1>1, <2>1, FS_AddElement
  <2>6. ArrayTyped'
    BY <1>1, <2>1, <2>4, <2>5 DEF ArrayTyped, Array!Position
  <2>7. Array!Selected = {f[j] : j \in Places(n)}
        /\ Array!Selected' = {arrayFields'[j] : j \in Places(n + 1)}
    BY <2>1 DEF Array!Selected, Places
  <2>8. NoneTwice'
    <3>1. ASSUME NEW i \in Places(n + 1), NEW j \in Places(n + 1),
                 arrayFields'[i] = arrayFields'[j]
          PROVE  i = j
      <4>1. CASE i \in Places(n) /\ j \in Places(n)
        BY <2>3, <3>1, <4>1 DEF ArrayInv, NoneTwice
      <4>2. CASE ~(i \in Places(n) /\ j \in Places(n))
        BY <1>3, <2>2, <2>3, <2>7, <3>1, <4>2
      <4>. QED BY <4>1, <4>2
    <3>. QED BY <2>1, <3>1 DEF NoneTwice
  <2>9. CASE n >= 0
    <3>1. n \in Places(n + 1) /\ \A j \in Places(n) : j \in Places(n + 1)
      BY <1>1, <2>9 DEF Places
    <3>2. Array!Selected' = Array!Selected \cup {name}
      BY <2>2, <2>3, <2>7, <3>1
    <3>3. held' \ Array!Selected' \subseteq held \ Array!Selected
      BY <2>1, <3>2
    <3>4. Cardinality(held' \ Array!Selected') <= Cardinality(held \ Array!Selected)
          /\ Cardinality(held' \ Array!Selected') \in Nat
          /\ Cardinality(held \ Array!Selected) \in Nat
      <4>1. IsFiniteSet(held \ Array!Selected)
        BY <1>1, FewerMissing
      <4>. QED BY <3>3, <4>1, FewerMissing
    <3>5. Below' = 0 /\ Below = 0
      BY <1>1, <2>1, <2>9 DEF Below
    <3>6. FewMissed'
      BY <1>1, <2>1, <3>2, <3>4, <3>5 DEF ArrayInv, FewMissed
    <3>. QED BY <2>6, <2>8, <3>6 DEF ArrayInv
  <2>10. CASE n = -1
    <3>1. Places(n) = {} /\ Places(n + 1) = {} /\ Below' = 0 /\ Below = -1
      BY <2>1, <2>10 DEF Places, Below
    <3>2. Array!Selected = {} /\ Array!Selected' = {}
      BY <2>7, <3>1
    <3>3. Cardinality(held') <= Cardinality(held) + 1 /\ Cardinality(held') \in Nat
          /\ Cardinality(held) \in Nat
      BY <1>1, <2>1, OneMoreMissing
    <3>4. Cardinality(held) <= missed - 1
      <4>1. held \ {} = held
        OBVIOUS
      <4>. QED BY <1>1, <3>1, <3>2, <4>1 DEF ArrayInv, FewMissed
    <3>5. Cardinality(held' \ {}) <= missed
      <4>1. held' \ {} = held'
        OBVIOUS
      <4>. QED BY <1>1, <3>3, <3>4, <4>1
    <3>6. FewMissed'
      BY <1>1, <3>1, <3>2, <3>5 DEF FewMissed
    <3>. QED BY <2>6, <2>8, <3>6 DEF ArrayInv
  <2>. QED BY <1>1, <2>9, <2>10
<1>. QED BY <1>2, <1>3

LEMMA ArraySteps == ASSUME ArrayInv, Array!Next PROVE ArrayInv'
<1>1. ASSUME NEW name, Array!add_field(name) PROVE ArrayInv'
  BY <1>1, AddKeeps DEF Array!add_field, Array!Idle
<1>2. ASSUME Array!FieldFetched PROVE ArrayInv'
  <2>1. selected_count < FieldLimit /\ Array!Add(field) /\ missed' = missed /\ pc' # "row"
    BY <1>2 DEF Array!FieldFetched, ArrayInv, ArrayTyped
  <2>. QED BY <2>1, AddKeeps
<1>3. ASSUME NEW name, selected_count >= 0, Array!remove_field(name) PROVE ArrayInv'
  <2>1. /\ arrayFields' = IF Array!Found(name) = {} THEN arrayFields
                          ELSE Array!MovedUp(Array!First(Array!Found(name)))
        /\ selected_count' = selected_count - 1 /\ held' = held \ {name}
        /\ missed' = (IF name \in Array!Selected THEN missed ELSE missed + 1) /\ pc' = pc
    BY <1>3 DEF Array!remove_field
  <2>2. CASE name \in Array!Selected
    <3>1. PICK k \in Places(selected_count) : arrayFields[k] = name
      BY <2>2 DEF Array!Selected, Places
    <3>2. Array!Found(name) = {k}
      BY <3>1 DEF Array!Found, Places, ArrayInv, NoneTwice
    <3>3. Array!First({k}) = k
      <4>1. k <= k
        BY DEF Places
      <4>. QED BY <4>1 DEF Array!First
    <3>4. arrayFields' = Array!MovedUp(k) /\ held' = held \ {arrayFields[k]} /\ missed' = missed
      BY <2>1, <2>2, <3>1, <3>2, <3>3
    <3>. QED BY <1>3, <2>1, <3>4, HitKeeps
  <2>3. CASE name \notin Array!Selected
    <3>1. Array!Found(name) = {}
      BY <2>3 DEF Array!Found, Array!Selected
    <3>2. {name} \cap Array!Selected = {}
      BY <2>3
    <3>. QED BY <1>3, <2>1, <2>3, <3>1, <3>2, MissKeeps
  <2>. QED BY <2>2, <2>3
<1>4. ASSUME selected_count >= 0, NEW pos \in 0 .. FieldLimit - 1, Array!remove_field_at(pos)
      PROVE  ArrayInv'
  <2>1. /\ arrayFields' = Array!MovedUp(pos) /\ selected_count' = selected_count - 1
        /\ held' = IF pos < selected_count THEN held \ {arrayFields[pos]} ELSE held
        /\ missed' = (IF pos < selected_count THEN missed ELSE missed + 1) /\ pc' = pc
    BY <1>4 DEF Array!remove_field_at
  <2>2. selected_count \in Nat /\ pos \in Nat
    BY <1>4, OneLess
  <2>3. CASE pos < selected_count
    <3>1. pos \in Places(selected_count)
      BY <2>2, <2>3 DEF Places
    <3>. QED BY <1>4, <2>1, <2>3, <3>1, HitKeeps
  <2>4. CASE ~(pos < selected_count)
    <3>1. Array!MovedUp(pos) = [j \in Array!Position |-> arrayFields[j]]
      <4>1. \A j \in Array!Position : ~(j >= pos /\ j < selected_count)
        BY <2>2, <2>4, LimitIsNatural DEF Array!Position
      <4>. QED BY <4>1 DEF Array!MovedUp
    <3>2. arrayFields' = arrayFields
      BY <2>1, <3>1 DEF ArrayInv, ArrayTyped
    <3>3. held' = held \ {} /\ {} \cap Array!Selected = {} /\ missed' = missed + 1
      BY <2>1, <2>4
    <3>. QED BY <1>4, <2>1, <3>2, <3>3, MissKeeps
  <2>. QED BY <2>3, <2>4
<1>5. ASSUME Array!clear PROVE ArrayInv'
  <2>1. selected_count' = 0 /\ held' = {} /\ missed' = 0 /\ arrayFields' = arrayFields /\ pc' # "row"
    BY <1>5 DEF Array!clear, Array!Idle
  <2>2. Places(0) = {} /\ Array!Selected' = {}
    BY <2>1 DEF Places, Array!Selected
  <2>3. IsFiniteSet({}) /\ Cardinality({}) = 0 /\ {} \ {} = {}
    BY FS_EmptySet
  <2>4. ArrayTyped'
    BY <2>1, <2>3, LimitIsNatural DEF ArrayInv, ArrayTyped
  <2>5. NoneTwice' /\ Below' = 0
    BY <2>1, <2>2 DEF NoneTwice, Below
  <2>. QED BY <2>1, <2>2, <2>3, <2>4, <2>5 DEF ArrayInv, FewMissed
<1>6. ASSUME UNCHANGED <<arrayFields, selected_count, held, missed>>,
             pc' = "row" => selected_count < FieldLimit
      PROVE  ArrayInv'
  <2>1. Array!Selected' = Array!Selected /\ Below' = Below
    BY <1>6 DEF Array!Selected, Below
  <2>2. ArrayTyped' /\ NoneTwice'
    BY <1>6 DEF ArrayInv, ArrayTyped, NoneTwice
  <2>. QED BY <1>6, <2>1, <2>2 DEF ArrayInv, FewMissed
<1>7. ASSUME NEW index, Array!add_field_row(index) PROVE ArrayInv'
  BY <1>6, <1>7 DEF Array!add_field_row, Array!array
<1>8. ASSUME Array!FetchField \/ Array!get_avaiable_field \/ Array!CopyRow \/ Array!RowsCopied
             \/ Array!CopyUnit \/ Array!UnitCopied
      PROVE  ArrayInv'
  BY <1>6, <1>8 DEF Array!FetchField, Array!get_avaiable_field, Array!CopyRow, Array!RowsCopied,
                    Array!CopyUnit, Array!UnitCopied, Array!array, ArrayInv, ArrayTyped
<1>9. ASSUME NEW pos, Array!get_realtime_value(pos) PROVE ArrayInv'
  BY <1>6, <1>9 DEF Array!get_realtime_value, Array!array
<1>. QED BY <1>1, <1>2, <1>3, <1>4, <1>5, <1>7, <1>8, <1>9 DEF Array!Next

(* For any table, size of the array and calls: no field twice, none that   *)
(* was removed, and none lost but to the removal of an absent one.         *)
(* add_field, remove_field, clear.                                         *)
THEOREM ArrayKeepsFields == FieldsSpec => []FieldsKept
<1>1. FieldsInit => ArrayInv
  <2>. SUFFICES ASSUME Array!Init PROVE ArrayInv
    BY DEF FieldsInit
  <2>1. /\ arrayFields = [i \in Array!Position |-> ""] /\ selected_count = 0 /\ pc = "idle"
        /\ held = {} /\ missed = 0
    BY DEF Array!Init
  <2>2. Places(0) = {} /\ Array!Selected = {}
    <3>1. Places(0) = {}
      BY DEF Places
    <3>2. Array!Selected = {arrayFields[i] : i \in Places(0)}
      BY <2>1 DEF Places, Array!Selected
    <3>. QED BY <3>1, <3>2
  <2>3. IsFiniteSet({}) /\ Cardinality({}) = 0 /\ {} \ {} = {}
    BY FS_EmptySet
  <2>4. arrayFields = [i \in Array!Position |-> arrayFields[i]]
    BY <2>1
  <2>5. selected_count = 0 /\ pc = "idle" /\ held = {} /\ missed = 0
    BY <2>1
  <2>6. ArrayTyped
    BY <2>3, <2>4, <2>5, LimitIsNatural DEF ArrayTyped
  <2>7. NoneTwice
    BY <2>2, <2>5 DEF NoneTwice
  <2>8. FewMissed
    <3>1. Below = 0
      BY <2>5 DEF Below
    <3>. QED BY <2>2, <2>3, <2>5, <3>1 DEF FewMissed
  <2>. QED BY <2>6, <2>7, <2>8 DEF ArrayInv
<1>2. ArrayInv /\ [FieldsNext]_fieldsVars => ArrayInv'
  <2>. SUFFICES ASSUME ArrayInv, [FieldsNext]_fieldsVars PROVE ArrayInv'
    OBVIOUS
  <2>1. CASE UNCHANGED arrayVars
    <3>1. Array!Selected' = Array!Selected /\ Below' = Below
      BY <2>1 DEF arrayVars, Array!Selected, Below
    <3>2. ArrayTyped' /\ NoneTwice'
      BY <2>1 DEF arrayVars, ArrayInv, ArrayTyped, NoneTwice
    <3>. QED BY <2>1, <3>1, <3>2 DEF arrayVars, ArrayInv, FewMissed
  <2>2. Array!Next \/ UNCHANGED arrayVars
    BY DEF FieldsNext, fieldsVars
  <2>. QED BY <2>1, <2>2, ArraySteps
<1>3. ArrayInv => FieldsKept
  <2>. SUFFICES ASSUME ArrayInv PROVE FieldsKept
    OBVIOUS
  <2>1. ASSUME selected_count >= 0 PROVE Cardinality(Array!Selected) = selected_count
    <3>. DEFINE n == selected_count
                P == Places(n)
                b == [j \in P |-> arrayFields[j]]
    <3>1. n \in Nat
      BY <2>1, OneLess
    <3>2. IsFiniteSet(P) /\ Cardinality(P) = n
      <4>1. 0 \in Int /\ n - 1 \in Int
        BY <3>1
      <4>2. IsFiniteSet(0 .. n - 1)
            /\ Cardinality(0 .. n - 1) = (IF 0 > n - 1 THEN 0 ELSE n - 1 - 0 + 1)
        BY <4>1, FS_Interval
      <4>. QED BY <3>1, <4>2 DEF Places
    <3>3. b \in Bijection(P, Array!Selected)
      <4>1. Array!Selected = {arrayFields[j] : j \in P}
        BY DEF Array!Selected, Places
      <4>2. b \in [P -> Array!Selected]
        BY <4>1
      <4>3. \A i, j \in P : b[i] = b[j] => i = j
        BY DEF ArrayInv, NoneTwice
      <4>4. \A x \in Array!Selected : \E j \in P : b[j] = x
        BY <4>1
      <4>. HIDE DEF b, P
      <4>5. \A i, j \in DOMAIN b : b[i] = b[j] => i = j
        BY <4>2, <4>3
      <4>. QED BY <4>2, <4>4, <4>5 DEF Bijection, Injection, IsInjective, Surjection
    <3>4. Cardinality(Array!Selected) = Cardinality(P)
      <4>1. ExistsBijection(P, Array!Selected)
        BY <3>3 DEF ExistsBijection
      <4>. QED BY <3>2, <4>1, FS_Bijection
    <3>. QED BY <3>2, <3>4
  <2>2. \A S : Array!Cardinality(S) = Cardinality(S)
    BY DEF Cardinality, Array!Cardinality, IsFiniteSet, Array!IsFiniteSet
  <2>3. Array!Selected \subseteq held /\ Cardinality(held \ Array!Selected) <= missed
    <3>1. Cardinality(held \ Array!Selected) \in Nat
      BY FewerMissing DEF ArrayInv, ArrayTyped
    <3>. QED BY <3>1 DEF ArrayInv, ArrayTyped, FewMissed, Below
  <2>. QED BY <2>1, <2>2, <2>3 DEF FieldsKept, Array!FieldsKept
<1>. QED BY <1>1, <1>2, <1>3, PTL DEF FieldsSpec

-----------------------------------------------------------------------------
(* The bytes of the words.                                                 *)

Word == 0 .. Bus!WORD - 1

LEMMA SumIs == \A s : Bus!Sum(s) = SumOf(s)
BY Zenon DEF Bus!Sum, SumOf, FoldLeft, Bus!FoldLeft, MapThenFoldSet, Bus!MapThenFoldSet, Max, Bus!Max

LEMMA PowerOfTwo == ASSUME NEW b \in Nat PROVE Bus!pow(b, 2) = b * b
<1>. DEFINE S(p) == p = [n \in 0 .. 2 |-> IF n = 0 THEN 1
                                         ELSE (IF n % 2 = 1 THEN b ELSE 1) * (p[n \div 2] * p[n \div 2])]
            w == [n \in 0 .. 2 |-> IF n = 0 THEN 1 ELSE IF n = 1 THEN b ELSE b * b]
<1>1. /\ 0 \in 0 .. 2 /\ 1 \in 0 .. 2 /\ 2 \in 0 .. 2
      /\ \A n \in 0 .. 2 : n = 0 \/ n = 1 \/ n = 2
      /\ 1 \div 2 = 0 /\ 2 \div 2 = 1 /\ 1 % 2 = 1 /\ 2 % 2 = 0
  OBVIOUS
<1>2. 1 * (1 * 1) = 1 /\ b * (1 * 1) = b /\ 1 * (b * b) = b * b
  OBVIOUS
<1>3. S(w)
  <2>1. w[0] = 1 /\ w[1] = b /\ w[2] = b * b /\ w = [n \in 0 .. 2 |-> w[n]]
    OBVIOUS
  <2>2. \A n \in 0 .. 2 : w[n] = IF n = 0 THEN 1
                                 ELSE (IF n % 2 = 1 THEN b ELSE 1) * (w[n \div 2] * w[n \div 2])
    <3>. HIDE DEF w
    <3>. QED BY <1>1, <1>2, <2>1
  <2>. HIDE DEF w
  <2>. QED BY <2>1, <2>2
<1>4. PICK p : S(p) /\ Bus!pow(b, 2) = p[2]
  <2>. HIDE DEF w
  <2>. QED BY <1>3 DEF Bus!pow
<1>5. p[0] = 1 /\ p[1] = b * (p[0] * p[0]) /\ p[2] = 1 * (p[1] * p[1])
  BY <1>1, <1>4
<1>. QED BY <1>2, <1>4, <1>5

LEMMA FrameIs ==
    /\ BYTE \in Nat /\ BYTE >= 2 /\ Bus!WORD = BYTE * BYTE /\ Bus!WORD \in Nat /\ BYTE < Bus!WORD
    /\ Len(word_count) \in Nat \ {0} /\ \A m \in 1 .. Len(word_count) : word_count[m] \in Nat
    /\ Bus!FirstWord(0) = 0 /\ Bus!FirstWord(Len(word_count)) = Bus!Sum(word_count)
    /\ \A m \in 0 .. Len(word_count) :
         Bus!FirstWord(m) \in Nat /\ Bus!FirstWord(m) <= Bus!Sum(word_count)
    /\ \A m \in 0 .. Len(word_count) - 1 :
         Bus!FirstWord(m + 1) = Bus!FirstWord(m) + word_count[m + 1]
    /\ Bus!Sum(word_count) \in Nat /\ Bus!Lead \in Nat /\ Bus!minor_buffsize \in Nat
    /\ Bus!Lead + 2 * Bus!Sum(word_count) <= Bus!minor_buffsize
    /\ frame_enclose => /\ Bus!Lead >= 1
                        /\ Bus!Lead + 2 * Bus!Sum(word_count) < Bus!minor_buffsize
    /\ total_minor_cycles \in Nat \ {0} /\ total_minor_cycles < BYTE
<1>1. /\ BYTE \in Nat /\ BYTE >= 2 /\ total_minor_cycles \in Nat \ {0} /\ total_minor_cycles < BYTE
  BY BusAssumption
<1>2. Bus!WORD = BYTE * BYTE /\ Bus!WORD \in Nat /\ BYTE < Bus!WORD
  <2>1. Bus!WORD = BYTE * BYTE
    BY <1>1, PowerOfTwo DEF Bus!WORD
  <2>2. BYTE * BYTE \in Nat /\ BYTE < BYTE * BYTE
    BY <1>1
  <2>. QED BY <2>1, <2>2
<1>3. word_count \in Seq(Nat) /\ Len(word_count) \in Nat \ {0}
      /\ \A m \in 1 .. Len(word_count) : word_count[m] \in Nat
  BY BusAssumption
<1>4. PICK F \in [0 .. Len(word_count) -> Nat] :
          /\ Sums(F, word_count) /\ SumOf(word_count) = F[Len(word_count)]
          /\ \A m \in 0 .. Len(word_count) : SumOf(SubSeq(word_count, 1, m)) = F[m]
  BY <1>3, PrefixSums
<1>5. \A m \in 0 .. Len(word_count) : Bus!FirstWord(m) = F[m]
  BY <1>4, SumIs DEF Bus!FirstWord
<1>6. Bus!Sum(word_count) = F[Len(word_count)]
  BY <1>4, SumIs
<1>7. 0 \in 0 .. Len(word_count) /\ Len(word_count) \in 0 .. Len(word_count)
      /\ \A m \in 0 .. Len(word_count) - 1 : m \in 0 .. Len(word_count) /\ m + 1 \in 0 .. Len(word_count)
  BY <1>3
<1>8. \A m \in 0 .. Len(word_count) : F[m] \in Nat /\ F[m] <= F[Len(word_count)]
  <2>1. ASSUME NEW m \in 0 .. Len(word_count) PROVE F[m] <= F[Len(word_count)]
    <3>1. Len(word_count) \in m .. Len(word_count)
      BY <1>3
    <3>. QED BY <1>3, <1>4, <3>1, SumsGrow
  <2>. QED BY <2>1
<1>9. Bus!Sum(word_count) \in Nat
  BY <1>6, <1>7, <1>8
<1>10. /\ Bus!Lead \in Nat /\ Bus!minor_buffsize \in Nat
       /\ Bus!Lead + 2 * Bus!Sum(word_count) <= Bus!minor_buffsize
       /\ frame_enclose => /\ Bus!Lead >= 1
                           /\ Bus!Lead + 2 * Bus!Sum(word_count) < Bus!minor_buffsize
  <2>1. frame_enclose \in BOOLEAN /\ num_dummy_chars \in Nat
    BY BusAssumption
  <2>. QED BY <1>9, <2>1 DEF Bus!Lead, Bus!minor_buffsize
<1>11. /\ Bus!FirstWord(0) = 0 /\ Bus!FirstWord(Len(word_count)) = Bus!Sum(word_count)
       /\ \A m \in 0 .. Len(word_count) :
            Bus!FirstWord(m) \in Nat /\ Bus!FirstWord(m) <= Bus!Sum(word_count)
       /\ \A m \in 0 .. Len(word_count) - 1 :
            Bus!FirstWord(m + 1) = Bus!FirstWord(m) + word_count[m + 1]
  BY <1>4, <1>5, <1>6, <1>7, <1>8 DEF Sums
<1>. QED BY <1>1, <1>2, <1>3, <1>9, <1>10, <1>11

LEMMA BytesAre ==
    ASSUME NEW n \in Nat, NEW x \in [1 .. n -> Word]
    PROVE  /\ DOMAIN Bus!Bytes(x) = 1 .. 2 * n
           /\ \A i \in 1 .. 2 * n :
                /\ (i + 1) \div 2 \in 1 .. n
                /\ Bus!Bytes(x)[i] = IF i % 2 = 1 THEN x[(i + 1) \div 2] % BYTE
                                     ELSE x[(i + 1) \div 2] \div BYTE
<1>1. x \in Seq(Word) /\ Len(x) = n
  OBVIOUS
<1>2. Bus!Bytes(x) = [i \in 1 .. 2 * n |-> IF i % 2 = 1 THEN x[(i + 1) \div 2] % BYTE
                                           ELSE x[(i + 1) \div 2] \div BYTE]
  BY <1>1 DEF Bus!Bytes
<1>3. \A i \in 1 .. 2 * n : (i + 1) \div 2 \in 1 .. n
  OBVIOUS
<1>. QED BY <1>2, <1>3

LEMMA BytesOverlay ==
    ASSUME NEW n \in Nat, NEW c \in Nat, NEW p \in Nat, p + c <= n,
           NEW x \in [1 .. n -> Word], NEW y \in [1 .. c -> Word]
    PROVE  /\ Bus!Overlay(x, p, y) \in [1 .. n -> Word]
           /\ \A k \in 1 .. n : Bus!Overlay(x, p, y)[k] = IF k - p \in 1 .. c THEN y[k - p] ELSE x[k]
           /\ \A i \in 1 .. 2 * n :
                Bus!Bytes(Bus!Overlay(x, p, y))[i] =
                  IF i - 2 * p \in 1 .. 2 * c THEN Bus!Bytes(y)[i - 2 * p] ELSE Bus!Bytes(x)[i]
<1>. DEFINE z == Bus!Overlay(x, p, y)
<1>1. z = [k \in 1 .. n |-> IF k - p \in 1 .. c THEN y[k - p] ELSE x[k]]
  BY DEF Bus!Overlay
<1>2. z \in [1 .. n -> Word]
  BY <1>1
<1>. HIDE DEF z
<1>3. \A i \in 1 .. 2 * n :
         Bus!Bytes(z)[i] = IF i % 2 = 1 THEN z[(i + 1) \div 2] % BYTE ELSE z[(i + 1) \div 2] \div BYTE
  BY <1>2, BytesAre
<1>4. \A i \in 1 .. 2 * n :
         Bus!Bytes(x)[i] = IF i % 2 = 1 THEN x[(i + 1) \div 2] % BYTE ELSE x[(i + 1) \div 2] \div BYTE
  BY BytesAre
<1>5. \A i \in 1 .. 2 * c :
         Bus!Bytes(y)[i] = IF i % 2 = 1 THEN y[(i + 1) \div 2] % BYTE ELSE y[(i + 1) \div 2] \div BYTE
  BY BytesAre
<1>6. ASSUME NEW i \in 1 .. 2 * n
      PROVE  Bus!Bytes(z)[i] =
                  IF i - 2 * p \in 1 .. 2 * c THEN Bus!Bytes(y)[i - 2 * p] ELSE Bus!Bytes(x)[i]
  <2>. DEFINE h == (i + 1) \div 2
              j == i - 2 * p
              g == (j + 1) \div 2
  <2>1. h \in 1 .. n /\ (j \in 1 .. 2 * c <=> h - p \in 1 .. c)
        /\ (j \in 1 .. 2 * c => g = h - p /\ j % 2 = i % 2)
    OBVIOUS
  <2>2. Bus!Bytes(z)[i] = IF i % 2 = 1 THEN z[h] % BYTE ELSE z[h] \div BYTE
    BY <1>3
  <2>3. Bus!Bytes(x)[i] = IF i % 2 = 1 THEN x[h] % BYTE ELSE x[h] \div BYTE
    BY <1>4
  <2>4. j \in 1 .. 2 * c => Bus!Bytes(y)[j] = IF j % 2 = 1 THEN y[g] % BYTE ELSE y[g] \div BYTE
    <3>. HIDE DEF j
    <3>. QED BY <1>5
  <2>. HIDE DEF h, j, g
  <2>5. z[h] = IF h - p \in 1 .. c THEN y[h - p] ELSE x[h]
    BY <1>1, <2>1
  <2>6. Bus!Bytes(z)[i] = IF j \in 1 .. 2 * c THEN Bus!Bytes(y)[j] ELSE Bus!Bytes(x)[i]
    BY <2>1, <2>2, <2>3, <2>4, <2>5
  <2>. QED BY <2>6 DEF j
<1>. QED BY <1>1, <1>2, <1>6 DEF z

-----------------------------------------------------------------------------
(* The buffers hold the bytes of the words sent.                           *)

Amount == Bus!Sum(word_count)
Sendings == [1 .. Amount -> Word]
Holds(buffer, words) ==
    \A s \in Bus!Minors, i \in 1 .. 2 * Amount :
        buffer[Bus!minor_buffsize * (s - 1) + (Bus!Lead + i)] = Bus!Bytes(words[s])[i]

BusTyped ==
    /\ prev_msg_index \in -1 .. Len(word_count) - 1 /\ number \in Bus!Minors
    /\ minor_count \in 0 .. total_minor_cycles - 1
    /\ sent \in Sendings /\ sent_major \in [Bus!Minors -> Sendings]
    /\ posted \in [Bus!Minors -> Sendings]
    /\ DOMAIN minor_buf = 1 .. Bus!minor_buffsize
    /\ DOMAIN major_buf = 1 .. Bus!major_buffsize
    /\ DOMAIN global_buf = 1 .. Bus!major_buffsize
FrameSent ==
    /\ \A i \in 1 .. 2 * Amount : minor_buf[Bus!Lead + i] = Bus!Bytes(sent)[i]
    /\ prev_msg_index = -1 => sent = Bus!Silence
NumberIn ==
    \A w \in 0 .. Amount - 1 :
        /\ minid_pos = Bus!Lead + 2 * w + 1 /\ prev_msg_index # -1
        /\ w < Bus!FirstWord(prev_msg_index + 1)
        => sent[w + 1] = number
BuffersHold == Holds(major_buf, sent_major) /\ Holds(global_buf, posted)
BusInv == BusTyped /\ FrameSent /\ NumberIn /\ BuffersHold

(* The minor frames of a buffer lie one behind the other. *)
LEMMA SlotsApart ==
    ASSUME NEW d \in Nat, NEW n \in Nat, NEW s \in 1 .. n, NEW t \in 1 .. n, NEW q \in 1 .. d
    PROVE  /\ d * (s - 1) + q \in 1 .. d * n
           /\ (d * (s - 1) + q) - d * (t - 1) \in 1 .. d <=> s = t
           /\ s = t => (d * (s - 1) + q) - d * (t - 1) = q
<1>1. \A i, j \in Nat : i < j => d * i + d <= d * j
  OBVIOUS
<1>. DEFINE a == d * (s - 1)
            b == d * (t - 1)
            e == d * n
<1>2. a \in Nat /\ b \in Nat /\ e \in Nat
  OBVIOUS
<1>3. a + d <= e /\ (s < t => a + d <= b) /\ (t < s => b + d <= a) /\ (s = t => a = b)
  <2>1. s - 1 \in Nat /\ t - 1 \in Nat /\ s - 1 < n
    OBVIOUS
  <2>. QED BY <1>1, <2>1
<1>. HIDE DEF a, b, e
<1>4. a + q \in 1 .. e /\ ((a + q) - b \in 1 .. d <=> s = t) /\ (s = t => (a + q) - b = q)
  BY <1>2, <1>3
<1>. QED BY <1>4 DEF a, b, e

LEMMA SilenceIs ==
    /\ Bus!Silence \in Sendings
    /\ \A i \in 1 .. 2 * Amount : Bus!Bytes(Bus!Silence)[i] = 0
    /\ [n \in Bus!Minors |-> Bus!Silence] \in [Bus!Minors -> Sendings]
<1>1. Amount \in Nat /\ BYTE \in Nat \ {0} /\ 0 \in Word
  <2>1. BYTE \in Nat /\ BYTE >= 2 /\ Bus!WORD \in Nat /\ BYTE < Bus!WORD
    BY FrameIs
  <2>2. 0 \in Word
    BY <2>1 DEF Word
  <2>. QED BY <2>1, <2>2, FrameIs DEF Amount
<1>2. Bus!Silence = [k \in 1 .. Amount |-> 0]
  BY DEF Bus!Silence, Bus!Zeros, Amount
<1>3. Bus!Silence \in [1 .. Amount -> Word]
  BY <1>1, <1>2
<1>4. \A i \in 1 .. 2 * Amount :
        /\ (i + 1) \div 2 \in 1 .. Amount
        /\ Bus!Bytes(Bus!Silence)[i] = IF i % 2 = 1 THEN Bus!Silence[(i + 1) \div 2] % BYTE
                                       ELSE Bus!Silence[(i + 1) \div 2] \div BYTE
  BY <1>1, <1>3, BytesAre
<1>5. 0 % BYTE = 0 /\ 0 \div BYTE = 0
  BY <1>1
<1>6. \A i \in 1 .. 2 * Amount : Bus!Bytes(Bus!Silence)[i] = 0
  BY <1>2, <1>4, <1>5
<1>. QED BY <1>3, <1>6 DEF Sendings

LEMMA NothingHeld ==
    /\ DOMAIN Bus!Zeros(Bus!major_buffsize) = 1 .. Bus!major_buffsize
    /\ Holds(Bus!Zeros(Bus!major_buffsize), [n \in Bus!Minors |-> Bus!Silence])
<1>1. ASSUME NEW s \in Bus!Minors, NEW i \in 1 .. 2 * Amount
      PROVE  Bus!minor_buffsize * (s - 1) + (Bus!Lead + i) \in 1 .. Bus!major_buffsize
  <2>. DEFINE q == Bus!Lead + i
  <2>1. q \in 1 .. Bus!minor_buffsize /\ Bus!minor_buffsize \in Nat /\ total_minor_cycles \in Nat
        /\ s \in 1 .. total_minor_cycles
    BY FrameIs DEF Amount, Bus!Minors
  <2>. HIDE DEF q
  <2>2. Bus!minor_buffsize * (s - 1) + q \in 1 .. Bus!minor_buffsize * total_minor_cycles
    BY <2>1, SlotsApart
  <2>. QED BY <2>2 DEF q, Bus!major_buffsize
<1>2. Bus!Zeros(Bus!major_buffsize) = [k \in 1 .. Bus!major_buffsize |-> 0]
  BY DEF Bus!Zeros
<1>3. Holds(Bus!Zeros(Bus!major_buffsize), [n \in Bus!Minors |-> Bus!Silence])
  <2>1. ASSUME NEW s \in Bus!Minors, NEW i \in 1 .. 2 * Amount
        PROVE  Bus!Zeros(Bus!major_buffsize)[Bus!minor_buffsize * (s - 1) + (Bus!Lead + i)] =
               Bus!Bytes([n \in Bus!Minors |-> Bus!Silence][s])[i]
    <3>1. [n \in Bus!Minors |-> Bus!Silence][s] = Bus!Silence
      OBVIOUS
    <3>2. Bus!Bytes([n \in Bus!Minors |-> Bus!Silence][s])[i] = 0
      BY <3>1, SilenceIs
    <3>. QED BY <1>1, <1>2, <3>2
  <2>. QED BY <2>1 DEF Holds
<1>. QED BY <1>2, <1>3

LEMMA BusBegins == ASSUME Bus!Init PROVE BusInv /\ ShownIsSent
<1>1. /\ minor_buf = Bus!Zeros(Bus!minor_buffsize) /\ prev_msg_index = -1 /\ minor_count = 0
      /\ major_buf = Bus!Zeros(Bus!major_buffsize) /\ global_buf = Bus!Zeros(Bus!major_buffsize)
      /\ number \in Bus!Minors /\ sent = Bus!Silence /\ polled = <<>>
      /\ sent_major = [n \in Bus!Minors |-> Bus!Silence] /\ posted = [n \in Bus!Minors |-> Bus!Silence]
  BY DEF Bus!Init, Bus!Nothing
<1>2. BusTyped
  <2>1. DOMAIN minor_buf = 1 .. Bus!minor_buffsize
    BY <1>1 DEF Bus!Zeros
  <2>2. prev_msg_index \in -1 .. Len(word_count) - 1 /\ minor_count \in 0 .. total_minor_cycles - 1
    BY <1>1, FrameIs
  <2>. QED BY <1>1, <2>1, <2>2, SilenceIs, NothingHeld DEF BusTyped
<1>3. FrameSent
  <2>1. ASSUME NEW i \in 1 .. 2 * Amount PROVE minor_buf[Bus!Lead + i] = 0
    <3>1. Bus!Lead + i \in 1 .. Bus!minor_buffsize
      BY FrameIs DEF Amount
    <3>. QED BY <1>1, <3>1 DEF Bus!Zeros
  <2>. QED BY <1>1, <2>1, SilenceIs DEF FrameSent
<1>4. NumberIn
  BY <1>1 DEF NumberIn
<1>5. BuffersHold
  BY <1>1, NothingHeld DEF BuffersHold
<1>6. ShownIsSent
  BY <1>1 DEF ShownIsSent, Bus!ShownIsSent
<1>. QED BY <1>2, <1>3, <1>4, <1>5, <1>6 DEF BusInv

(* A frame put into its slot is the frame sent, under its number.          *)
LEMMA PostHolds ==
    ASSUME BusInv, prev_msg_index = Len(word_count) - 1,
           Bus!Put_Major_Data(Bus!Framing(minor_buf))
    PROVE  /\ minor_count' \in 0 .. total_minor_cycles - 1
           /\ sent_major' \in [Bus!Minors -> Sendings] /\ posted' \in [Bus!Minors -> Sendings]
           /\ DOMAIN major_buf' = 1 .. Bus!major_buffsize
           /\ DOMAIN global_buf' = 1 .. Bus!major_buffsize
           /\ BuffersHold'
<1>. DEFINE f == Bus!Framing(minor_buf)
            N == Amount
            size == Bus!minor_buffsize
            Minors == Bus!Minors
            slot == IF total_minor_cycles > 1 /\ f[minid_pos] \in Minors THEN f[minid_pos]
                    ELSE minor_count + 1
            filled == Bus!Overlay(major_buf, size * (slot - 1), f)
            all == [sent_major EXCEPT ![number] = sent]
<1>1. /\ N \in Nat /\ size \in Nat /\ Bus!Lead \in Nat /\ Bus!Lead + 2 * N <= size
      /\ frame_enclose => Bus!Lead >= 1 /\ Bus!Lead + 2 * N < size
      /\ total_minor_cycles \in Nat \ {0} /\ Minors = 1 .. total_minor_cycles
  BY FrameIs DEF Amount, Bus!Minors
<1>2. /\ number \in Minors /\ sent \in Sendings /\ minor_count \in 0 .. total_minor_cycles - 1
      /\ sent_major \in [Minors -> Sendings] /\ posted \in [Minors -> Sendings]
      /\ DOMAIN minor_buf = 1 .. size /\ DOMAIN major_buf = 1 .. Bus!major_buffsize
      /\ DOMAIN global_buf = 1 .. Bus!major_buffsize
  BY DEF BusInv, BusTyped
<1>3. DOMAIN f = 1 .. size
  BY <1>2 DEF Bus!Framing
<1>4. ASSUME NEW i \in 1 .. 2 * N PROVE f[Bus!Lead + i] = Bus!Bytes(sent)[i]
  <2>1. Bus!Lead + i \in 1 .. size
        /\ (frame_enclose => Bus!Lead + i # 1 /\ Bus!Lead + i # size)
    BY <1>1
  <2>2. f[Bus!Lead + i] = minor_buf[Bus!Lead + i]
    BY <1>2, <2>1 DEF Bus!Framing
  <2>. QED BY <2>2 DEF BusInv, FrameSent
<1>. HIDE DEF f
<1>5. slot = number
  <2>1. CASE total_minor_cycles > 1
    <3>1. PICK w \in 0 .. N - 1 : minid_pos = Bus!Lead + 2 * w + 1
      BY <2>1, BusAssumption DEF Amount
    <3>2. w \in Nat /\ w + 1 \in 1 .. N /\ 2 * w + 1 \in 1 .. 2 * N
          /\ minid_pos = Bus!Lead + (2 * w + 1)
          /\ ((2 * w + 1) + 1) \div 2 = w + 1 /\ (2 * w + 1) % 2 = 1
      BY <1>1, <3>1
    <3>3. sent[w + 1] = number
      <4>1. prev_msg_index # -1 /\ prev_msg_index + 1 = Len(word_count)
        BY FrameIs
      <4>2. w < Bus!FirstWord(Len(word_count))
        BY <1>1, <3>1, FrameIs DEF Amount
      <4>. QED BY <3>1, <4>1, <4>2 DEF BusInv, NumberIn
    <3>4. f[minid_pos] = Bus!Bytes(sent)[2 * w + 1]
      BY <1>4, <3>2
    <3>5. Bus!Bytes(sent)[2 * w + 1] = sent[w + 1] % BYTE
      <4>1. sent \in [1 .. N -> Word]
        BY <1>2 DEF Sendings
      <4>2. \A i \in 1 .. 2 * N :
              Bus!Bytes(sent)[i] = IF i % 2 = 1 THEN sent[(i + 1) \div 2] % BYTE
                                   ELSE sent[(i + 1) \div 2] \div BYTE
        BY <1>1, <4>1, BytesAre
      <4>. QED BY <3>2, <4>2
    <3>6. number % BYTE = number
      <4>1. number \in Nat /\ number < BYTE /\ BYTE \in Nat
        BY <1>1, <1>2, FrameIs
      <4>. QED BY <4>1
    <3>. QED BY <1>2, <2>1, <3>3, <3>4, <3>5, <3>6
  <2>2. CASE ~(total_minor_cycles > 1)
    BY <1>1, <1>2, <2>2
  <2>. QED BY <2>1, <2>2
<1>6. all \in [Minors -> Sendings]
  BY <1>2
<1>7. filled = [k \in 1 .. Bus!major_buffsize |->
                  IF k - size * (slot - 1) \in 1 .. size THEN f[k - size * (slot - 1)]
                  ELSE major_buf[k]]
  BY <1>2, <1>3 DEF Bus!Overlay
<1>8. Holds(filled, all)
  <2>. SUFFICES ASSUME NEW s \in Minors, NEW i \in 1 .. 2 * N
                PROVE  filled[size * (s - 1) + (Bus!Lead + i)] = Bus!Bytes(all[s])[i]
    BY DEF Holds
  <2>. DEFINE q == Bus!Lead + i
              k == size * (s - 1) + q
  <2>1. q \in 1 .. size
    BY <1>1
  <2>2. /\ k \in 1 .. Bus!major_buffsize
        /\ (k - size * (slot - 1) \in 1 .. size <=> s = slot)
        /\ (s = slot => k - size * (slot - 1) = q)
    <3>1. s \in 1 .. total_minor_cycles /\ slot \in 1 .. total_minor_cycles /\ total_minor_cycles \in Nat
          /\ size \in Nat
      BY <1>1, <1>2, <1>5
    <3>. HIDE DEF q, slot, size
    <3>2. /\ size * (s - 1) + q \in 1 .. size * total_minor_cycles
          /\ (size * (s - 1) + q) - size * (slot - 1) \in 1 .. size <=> s = slot
          /\ s = slot => (size * (s - 1) + q) - size * (slot - 1) = q
      BY <2>1, <3>1, SlotsApart
    <3>. QED BY <3>2 DEF Bus!major_buffsize, size
  <2>3. CASE s = slot
    <3>1. filled[k] = f[q]
      <4>. HIDE DEF filled, k, q, slot
      <4>. QED BY <1>7, <2>2, <2>3
    <3>2. f[q] = Bus!Bytes(sent)[i] /\ all[s] = sent
      BY <1>2, <1>4, <1>5, <2>3
    <3>. QED BY <3>1, <3>2
  <2>4. CASE s # slot
    <3>1. filled[k] = major_buf[k]
      <4>. HIDE DEF filled, k, q, slot
      <4>. QED BY <1>7, <2>2, <2>4
    <3>2. major_buf[k] = Bus!Bytes(sent_major[s])[i]
      BY DEF BusInv, BuffersHold, Holds
    <3>3. all[s] = sent_major[s]
      BY <1>2, <1>5, <2>4
    <3>. QED BY <3>1, <3>2, <3>3
  <2>. QED BY <2>3, <2>4
<1>9. DOMAIN filled = 1 .. Bus!major_buffsize
  BY <1>7
<1>10. IF slot = total_minor_cycles
       THEN /\ global_buf' = filled /\ posted' = all
            /\ major_buf' = Bus!Zeros(Bus!major_buffsize)
            /\ sent_major' = [n \in Minors |-> Bus!Silence]
            /\ minor_count' = 0
       ELSE /\ major_buf' = filled /\ sent_major' = all /\ minor_count' = slot
            /\ global_buf' = global_buf /\ posted' = posted
  BY DEF Bus!Put_Major_Data, f
<1>. HIDE DEF filled, all, slot
<1>11. CASE slot = total_minor_cycles
  <2>1. 0 \in 0 .. total_minor_cycles - 1
    BY <1>1
  <2>2. Holds(major_buf', sent_major') /\ Holds(global_buf', posted')
    BY <1>8, <1>10, <1>11, NothingHeld
  <2>3. BuffersHold'
    BY <2>2 DEF BuffersHold, Holds, Amount
  <2>. QED BY <1>6, <1>9, <1>10, <1>11, <2>1, <2>3, NothingHeld, SilenceIs
<1>12. CASE slot # total_minor_cycles
  <2>1. slot \in 0 .. total_minor_cycles - 1
    <3>1. slot \in 1 .. total_minor_cycles
      BY <1>1, <1>2, <1>5
    <3>. QED BY <1>1, <1>12, <3>1
  <2>2. Holds(global_buf, posted)
    BY DEF BusInv, BuffersHold
  <2>3. BuffersHold'
    BY <1>8, <1>10, <1>12, <2>2 DEF BuffersHold, Holds, Amount
  <2>. QED BY <1>2, <1>6, <1>9, <1>10, <1>12, <2>1, <2>3
<1>. QED BY <1>11, <1>12

(* The messages of a frame follow one another. *)
LEMMA NextIs ==
    ASSUME prev_msg_index \in -1 .. Len(word_count) - 1
    PROVE  /\ Bus!NextMsg \in 0 .. Len(word_count) - 1
           /\ Bus!NextMsg = 0 => prev_msg_index = -1 \/ prev_msg_index = Len(word_count) - 1
           /\ Bus!NextMsg # 0 => Bus!NextMsg = prev_msg_index + 1
<1>. DEFINE n == Len(word_count)
            k == prev_msg_index + 1
<1>1. n \in Nat \ {0} /\ k \in 0 .. n
  BY FrameIs
<1>. HIDE DEF n
<1>2. k = n => k % n = 0
  BY <1>1
<1>3. k < n => k % n = k
  BY <1>1
<1>4. Bus!NextMsg = k % n
  BY DEF Bus!NextMsg, n
<1>. HIDE DEF k
<1>5. /\ Bus!NextMsg \in 0 .. n - 1 /\ (Bus!NextMsg = 0 => k = 0 \/ k = n)
      /\ (Bus!NextMsg # 0 => Bus!NextMsg = k)
  BY <1>1, <1>2, <1>3, <1>4
<1>. QED BY <1>5 DEF n, k

(* A message goes to the words of its own.                                 *)
LEMMA MessageKeeps ==
    ASSUME BusInv, NEW words \in [1 .. word_count[Bus!NextMsg + 1] -> Words \cup Bus!Minors],
           Bus!Message(words)
    PROVE  BusInv'
<1>. DEFINE N == Amount
            size == Bus!minor_buffsize
            m == Bus!NextMsg
            c == word_count[m + 1]
            p == Bus!FirstWord(m)
            n == IF m = 0 /\ begun > 0 THEN (number % total_minor_cycles) + 1 ELSE number
            boundary == prev_msg_index # -1 /\ m <= prev_msg_index
            old == IF boundary THEN Bus!Zeros(size) ELSE minor_buf
            before == IF m = 0 THEN Bus!Silence ELSE sent
            stored == Bus!Overlay(old, Bus!Offset(m), Bus!Bytes(words))
<1>1. /\ N \in Nat /\ size \in Nat /\ Bus!Lead \in Nat /\ Bus!Lead + 2 * N <= size
      /\ total_minor_cycles \in Nat \ {0} /\ total_minor_cycles < BYTE /\ BYTE < Bus!WORD
      /\ Bus!WORD \in Nat /\ BYTE \in Nat /\ Len(word_count) \in Nat \ {0}
  BY FrameIs DEF Amount
<1>2. /\ prev_msg_index \in -1 .. Len(word_count) - 1 /\ number \in Bus!Minors
      /\ minor_count \in 0 .. total_minor_cycles - 1
      /\ sent \in Sendings /\ sent_major \in [Bus!Minors -> Sendings]
      /\ posted \in [Bus!Minors -> Sendings] /\ DOMAIN minor_buf = 1 .. size
  BY DEF BusInv, BusTyped
<1>3. /\ m \in 0 .. Len(word_count) - 1
      /\ m = 0 => prev_msg_index = -1 \/ prev_msg_index = Len(word_count) - 1
      /\ m # 0 => m = prev_msg_index + 1
  BY <1>2, NextIs
<1>4. c \in Nat /\ p \in Nat /\ p + c <= N /\ Bus!FirstWord(m + 1) = p + c
      /\ (m = 0 => p = 0)
  <2>1. m + 1 \in 1 .. Len(word_count) /\ m \in 0 .. Len(word_count) /\ m + 1 \in 0 .. Len(word_count)
    BY <1>1, <1>3
  <2>2. c \in Nat /\ p \in Nat /\ Bus!FirstWord(m + 1) <= N /\ Bus!FirstWord(m + 1) = p + c
        /\ Bus!FirstWord(0) = 0
    BY <1>3, <2>1, FrameIs DEF Amount
  <2>. QED BY <2>2
<1>5. boundary => m = 0 /\ prev_msg_index = Len(word_count) - 1
  BY <1>1, <1>2, <1>3
<1>6. n \in Bus!Minors
  <2>1. \A x \in 1 .. total_minor_cycles : (x % total_minor_cycles) + 1 \in 1 .. total_minor_cycles
    BY <1>1
  <2>. QED BY <1>2, <2>1 DEF Bus!Minors
<1>7. words \in [1 .. c -> Word]
  <2>1. Words \subseteq Word
    BY BusAssumption DEF Word
  <2>2. Bus!Minors \subseteq Word
    BY <1>1 DEF Bus!Minors, Word
  <2>. QED BY <2>1, <2>2
<1>. HIDE DEF m, c, p, n, old, before, stored, boundary
<1>8. /\ \A k \in DOMAIN words :
            IF p + k - 1 = Bus!IdWord THEN words[k] = n ELSE words[k] \in Words
      /\ number' = n
      /\ sent' = Bus!Overlay(before, p, words)
      /\ Bus!Put_Minor_Data(m, words)
      /\ UNCHANGED <<shown, polled>>
  BY DEF Bus!Message, Bus!client, m, n, p, before
<1>9. /\ IF boundary THEN Bus!Put_Major_Data(Bus!Framing(minor_buf)) ELSE UNCHANGED Bus!major
      /\ minor_buf' = IF num_dummy_chars = 0 THEN stored
                      ELSE [stored EXCEPT ![msgsts_word_pos] = (IF boundary THEN 0 ELSE msg_sts) + 2 ^ m]
      /\ prev_msg_index' = m
  BY <1>8 DEF Bus!Put_Minor_Data, stored, old, boundary
<1>10. before \in [1 .. N -> Word]
  BY <1>2, SilenceIs DEF before, Sendings
<1>11. /\ sent' \in Sendings
       /\ \A k \in 1 .. N : sent'[k] = IF k - p \in 1 .. c THEN words[k - p] ELSE before[k]
       /\ \A i \in 1 .. 2 * N :
            Bus!Bytes(sent')[i] =
              IF i - 2 * p \in 1 .. 2 * c THEN Bus!Bytes(words)[i - 2 * p] ELSE Bus!Bytes(before)[i]
  <2>1. /\ Bus!Overlay(before, p, words) \in [1 .. N -> Word]
        /\ \A k \in 1 .. N : Bus!Overlay(before, p, words)[k] =
              IF k - p \in 1 .. c THEN words[k - p] ELSE before[k]
        /\ \A i \in 1 .. 2 * N :
            Bus!Bytes(Bus!Overlay(before, p, words))[i] =
              IF i - 2 * p \in 1 .. 2 * c THEN Bus!Bytes(words)[i - 2 * p] ELSE Bus!Bytes(before)[i]
    <3>1. N \in Nat /\ c \in Nat /\ p \in Nat /\ p + c <= N
      BY <1>1, <1>4
    <3>. HIDE DEF N
    <3>2. \A x \in [1 .. N -> Word], y \in [1 .. c -> Word] :
            /\ Bus!Overlay(x, p, y) \in [1 .. N -> Word]
            /\ \A k \in 1 .. N : Bus!Overlay(x, p, y)[k] = IF k - p \in 1 .. c THEN y[k - p] ELSE x[k]
            /\ \A i \in 1 .. 2 * N :
                Bus!Bytes(Bus!Overlay(x, p, y))[i] =
                  IF i - 2 * p \in 1 .. 2 * c THEN Bus!Bytes(y)[i - 2 * p] ELSE Bus!Bytes(x)[i]
      BY <3>1, BytesOverlay
    <3>. QED BY <1>7, <1>10, <3>2, Zenon
  <2>. QED BY <1>8, <2>1 DEF Sendings
<1>12. DOMAIN old = 1 .. size /\ \A i \in 1 .. 2 * N : old[Bus!Lead + i] = Bus!Bytes(before)[i]
  <2>1. DOMAIN old = 1 .. size
    BY <1>2 DEF old, Bus!Zeros
  <2>2. ASSUME NEW i \in 1 .. 2 * N PROVE old[Bus!Lead + i] = Bus!Bytes(before)[i]
    <3>1. CASE boundary
      <4>1. Bus!Lead + i \in 1 .. size
        BY <1>1
      <4>2. old[Bus!Lead + i] = 0
        BY <3>1, <4>1 DEF old, Bus!Zeros
      <4>3. before = Bus!Silence
        BY <1>5, <3>1 DEF before
      <4>. QED BY <4>2, <4>3, SilenceIs
    <3>2. CASE ~boundary
      <4>1. m = 0 => prev_msg_index = -1
        BY <1>1, <1>2, <1>3, <3>2 DEF boundary
      <4>2. before = sent
        BY <4>1 DEF before, BusInv, FrameSent
      <4>. QED BY <3>2, <4>2 DEF old, BusInv, FrameSent
    <3>. QED BY <3>1, <3>2
  <2>. QED BY <2>1, <2>2
<1>13. /\ DOMAIN stored = 1 .. size
       /\ \A i \in 1 .. 2 * N : stored[Bus!Lead + i] = Bus!Bytes(sent')[i]
  <2>1. DOMAIN Bus!Bytes(words) = 1 .. 2 * c
    BY <1>4, <1>7, BytesAre
  <2>2. Bus!Offset(m) = Bus!Lead + 2 * p
    BY DEF Bus!Offset, Bus!FirstWord, p
  <2>3. stored = [k \in 1 .. size |-> IF k - (Bus!Lead + 2 * p) \in 1 .. 2 * c
                                      THEN Bus!Bytes(words)[k - (Bus!Lead + 2 * p)] ELSE old[k]]
    BY <1>12, <2>1, <2>2 DEF stored, Bus!Overlay
  <2>4. ASSUME NEW i \in 1 .. 2 * N PROVE stored[Bus!Lead + i] = Bus!Bytes(sent')[i]
    <3>1. Bus!Lead + i \in 1 .. size /\ (Bus!Lead + i) - (Bus!Lead + 2 * p) = i - 2 * p
      BY <1>1, <1>4
    <3>2. stored[Bus!Lead + i] = IF i - 2 * p \in 1 .. 2 * c THEN Bus!Bytes(words)[i - 2 * p]
                                 ELSE old[Bus!Lead + i]
      BY <2>3, <3>1
    <3>. QED BY <1>11, <1>12, <3>2
  <2>. QED BY <2>3, <2>4
<1>14. /\ DOMAIN minor_buf' = 1 .. size
       /\ \A i \in 1 .. 2 * N : minor_buf'[Bus!Lead + i] = Bus!Bytes(sent')[i]
  <2>1. CASE num_dummy_chars = 0
    BY <1>9, <1>13, <2>1
  <2>2. CASE num_dummy_chars # 0
    <3>1. msgsts_word_pos \in 1 .. Bus!Lead
      BY <2>2, BusAssumption
    <3>2. \A i \in 1 .. 2 * N : Bus!Lead + i # msgsts_word_pos /\ Bus!Lead + i \in 1 .. size
      BY <1>1, <3>1
    <3>. QED BY <1>9, <1>13, <2>2, <3>2
  <2>. QED BY <2>1, <2>2
<1>15. FrameSent'
  <2>1. prev_msg_index' # -1
    BY <1>3, <1>9
  <2>2. \A i \in 1 .. 2 * Amount : minor_buf'[Bus!Lead + i] = Bus!Bytes(sent')[i]
    BY <1>14
  <2>. QED BY <2>1, <2>2 DEF FrameSent, Amount, Bus!Bytes
<1>16. NumberIn'
  <2>. SUFFICES ASSUME NEW w \in 0 .. N - 1, minid_pos = Bus!Lead + 2 * w + 1,
                       w < Bus!FirstWord(prev_msg_index' + 1)
                PROVE  sent'[w + 1] = number'
    BY DEF NumberIn, Amount, Bus!FirstWord
  <2>1. w \in Nat /\ w + 1 \in 1 .. N /\ w < p + c /\ Bus!IdWord = w
    <3>1. w \in Nat /\ w + 1 \in 1 .. N
      BY <1>1
    <3>2. w < p + c
      BY <1>4, <1>9
    <3>3. (minid_pos - 1 - Bus!Lead) \div 2 = w
      BY <1>1, <3>1
    <3>. QED BY <3>1, <3>2, <3>3 DEF Bus!IdWord
  <2>2. CASE w >= p
    <3>1. (w + 1) - p \in 1 .. c /\ p + ((w + 1) - p) - 1 = w
      BY <1>4, <2>1, <2>2
    <3>2. sent'[w + 1] = words[(w + 1) - p]
      BY <1>11, <2>1, <3>1
    <3>3. DOMAIN words = 1 .. c
      BY <1>7
    <3>4. words[(w + 1) - p] = n
      BY <1>8, <2>1, <3>1, <3>3
    <3>. QED BY <1>8, <3>2, <3>4
  <2>3. CASE ~(w >= p)
    <3>1. m # 0 /\ w < p /\ (w + 1) - p \notin 1 .. c
      BY <1>4, <2>1, <2>3
    <3>2. sent'[w + 1] = sent[w + 1]
      BY <1>11, <2>1, <3>1 DEF before
    <3>3. prev_msg_index + 1 = m /\ prev_msg_index # -1
      BY <1>2, <1>3, <3>1
    <3>4. sent[w + 1] = number
      BY <3>1, <3>3 DEF BusInv, NumberIn, p
    <3>5. number' = number
      BY <1>8, <3>1 DEF n
    <3>. QED BY <3>2, <3>4, <3>5
  <2>. QED BY <2>2, <2>3
<1>17. /\ minor_count' \in 0 .. total_minor_cycles - 1
       /\ sent_major' \in [Bus!Minors -> Sendings] /\ posted' \in [Bus!Minors -> Sendings]
       /\ DOMAIN major_buf' = 1 .. Bus!major_buffsize
       /\ DOMAIN global_buf' = 1 .. Bus!major_buffsize
       /\ BuffersHold'
  <2>1. CASE boundary
    BY <1>5, <1>9, <2>1, PostHolds
  <2>2. CASE ~boundary
    <3>1. UNCHANGED <<major_buf, minor_count, global_buf, sent_major, posted>>
      BY <1>9, <2>2 DEF Bus!major
    <3>. QED BY <3>1 DEF BusInv, BusTyped, BuffersHold, Holds, Amount
  <2>. QED BY <2>1, <2>2
<1>18. BusTyped'
  <2>1. prev_msg_index' \in -1 .. Len(word_count) - 1
    BY <1>1, <1>3, <1>9
  <2>. QED BY <1>6, <1>8, <1>11, <1>14, <1>17, <2>1 DEF BusTyped
<1>. QED BY <1>15, <1>16, <1>17, <1>18 DEF BusInv

-----------------------------------------------------------------------------
(* The conversions.                                                        *)

LEMMA Division ==
    ASSUME NEW a \in Nat, NEW d \in Nat \ {0}
    PROVE  /\ a \div d \in Nat /\ a % d \in Nat /\ a % d < d
           /\ a = d * (a \div d) + (a % d)
           /\ d * (a \div d) <= a /\ a < d * (a \div d) + d
<1>1. (a % d) + d * (a \div d) = a /\ a % d \in Nat /\ a % d < d /\ a \div d \in Nat
  OBVIOUS
<1>. DEFINE q == a \div d
            r == a % d
            e == d * q
<1>2. q \in Nat /\ r \in Nat /\ r < d /\ e \in Nat /\ r + e = a
  <2>1. \A x \in Nat : d * x \in Nat
    OBVIOUS
  <2>. QED BY <1>1, <2>1
<1>. HIDE DEF q, r, e
<1>3. a = e + r /\ e <= a /\ a < e + d
  BY <1>2
<1>. QED BY <1>2, <1>3 DEF q, r, e

(* The bytes read are added up in the order of the loop.                   *)
LEMMA LongOf ==
    ASSUME NEW nb \in 1 .. 4, NEW b, b = [k \in 1 .. nb |-> b[k]], \A k \in 1 .. nb : b[k] \in Nat
    PROVE  /\ nb = 1 => Bus!get_long(b) = Bus!Signed(b[1])
           /\ nb = 2 => Bus!get_long(b) = Bus!Signed(BYTE * b[2] + b[1])
           /\ nb = 3 => Bus!get_long(b) = Bus!Signed(BYTE * (BYTE * b[3] + b[2]) + b[1])
           /\ nb = 4 => Bus!get_long(b) = Bus!Signed(BYTE * (BYTE * (BYTE * b[4] + b[3]) + b[2]) + b[1])
<1>. DEFINE S(num) == num = [i \in 1 .. nb + 1 |-> IF i > nb THEN 0 ELSE BYTE * num[i + 1] + b[i]]
            t4 == IF 4 > nb THEN 0 ELSE BYTE * 0 + b[4]
            t3 == IF 3 > nb THEN 0 ELSE BYTE * t4 + b[3]
            t2 == IF 2 > nb THEN 0 ELSE BYTE * t3 + b[2]
            t1 == BYTE * t2 + b[1]
            g == [i \in 1 .. nb + 1 |-> IF i = 1 THEN t1 ELSE IF i = 2 THEN t2 ELSE IF i = 3 THEN t3
                                        ELSE IF i = 4 THEN t4 ELSE 0]
<1>1. BYTE \in Nat /\ BYTE * 0 = 0 /\ \A x \in Nat : 0 + x = x
  BY FrameIs
<1>2. Len(b) = nb
  OBVIOUS
<1>3. S(g)
  <2>1. \A i \in 1 .. nb + 1 : i = 1 \/ i = 2 \/ i = 3 \/ i = 4 \/ i = 5
    OBVIOUS
  <2>2. /\ 1 \in 1 .. nb + 1 => g[1] = t1
        /\ 2 \in 1 .. nb + 1 => g[2] = t2
        /\ 3 \in 1 .. nb + 1 => g[3] = t3
        /\ 4 \in 1 .. nb + 1 => g[4] = t4
        /\ 5 \in 1 .. nb + 1 => g[5] = 0
        /\ g = [i \in 1 .. nb + 1 |-> g[i]]
    <3>. HIDE DEF t1, t2, t3, t4
    <3>. QED OBVIOUS
  <2>. HIDE DEF g
  <2>3. \A i \in 1 .. nb + 1 : g[i] = IF i > nb THEN 0 ELSE BYTE * g[i + 1] + b[i]
    <3>1. CASE nb = 1
      <4>1. t2 = 0 /\ t1 = BYTE * t2 + b[1]
        BY <3>1
      <4>. HIDE DEF t1, t2, t3, t4
      <4>. QED BY <2>1, <2>2, <3>1, <4>1
    <3>2. CASE nb = 2
      <4>1. t3 = 0 /\ t2 = BYTE * t3 + b[2] /\ t1 = BYTE * t2 + b[1]
        BY <3>2
      <4>. HIDE DEF t1, t2, t3, t4
      <4>. QED BY <2>1, <2>2, <3>2, <4>1
    <3>3. CASE nb = 3
      <4>1. t4 = 0 /\ t3 = BYTE * t4 + b[3] /\ t2 = BYTE * t3 + b[2] /\ t1 = BYTE * t2 + b[1]
        BY <3>3
      <4>. HIDE DEF t1, t2, t3, t4
      <4>. QED BY <2>1, <2>2, <3>3, <4>1
    <3>4. CASE nb = 4
      <4>1. t4 = BYTE * 0 + b[4] /\ t3 = BYTE * t4 + b[3] /\ t2 = BYTE * t3 + b[2]
            /\ t1 = BYTE * t2 + b[1]
        BY <3>4
      <4>. HIDE DEF t1, t2, t3, t4
      <4>. QED BY <2>1, <2>2, <3>4, <4>1
    <3>5. nb = 1 \/ nb = 2 \/ nb = 3 \/ nb = 4
      OBVIOUS
    <3>. QED BY <3>1, <3>2, <3>3, <3>4, <3>5, Zenon
  <2>. QED BY <2>2, <2>3
<1>4. PICK num : S(num) /\ Bus!get_long(b) = Bus!Signed(num[1])
  <2>. HIDE DEF g
  <2>. QED BY <1>2, <1>3 DEF Bus!get_long
<1>5. \A i \in 1 .. nb + 1 : num[i] = IF i > nb THEN 0 ELSE BYTE * num[i + 1] + b[i]
  BY <1>4
<1>6. ASSUME nb = 1 PROVE num[1] = b[1]
  <2>1. num[2] = 0 /\ num[1] = BYTE * num[2] + b[1] /\ b[1] \in Nat
    BY <1>5, <1>6
  <2>. QED BY <1>1, <2>1
<1>7. ASSUME nb = 2 PROVE num[1] = BYTE * b[2] + b[1]
  <2>1. num[3] = 0 /\ num[2] = BYTE * num[3] + b[2] /\ num[1] = BYTE * num[2] + b[1] /\ b[2] \in Nat
    BY <1>5, <1>7
  <2>2. num[2] = b[2]
    BY <1>1, <2>1
  <2>. QED BY <2>1, <2>2
<1>8. ASSUME nb = 3 PROVE num[1] = BYTE * (BYTE * b[3] + b[2]) + b[1]
  <2>1. num[4] = 0 /\ num[3] = BYTE * num[4] + b[3] /\ num[2] = BYTE * num[3] + b[2]
        /\ num[1] = BYTE * num[2] + b[1] /\ b[3] \in Nat
    BY <1>5, <1>8
  <2>2. num[3] = b[3]
    BY <1>1, <2>1
  <2>. QED BY <2>1, <2>2
<1>9. ASSUME nb = 4 PROVE num[1] = BYTE * (BYTE * (BYTE * b[4] + b[3]) + b[2]) + b[1]
  <2>1. num[5] = 0 /\ num[4] = BYTE * num[5] + b[4] /\ num[3] = BYTE * num[4] + b[3]
        /\ num[2] = BYTE * num[3] + b[2] /\ num[1] = BYTE * num[2] + b[1] /\ b[4] \in Nat
    BY <1>5, <1>9
  <2>2. num[4] = b[4]
    BY <1>1, <2>1
  <2>. QED BY <2>1, <2>2
<1>. QED BY <1>4, <1>6, <1>7, <1>8, <1>9

LEMMA SignedIs ==
    ASSUME NEW n \in 0 .. Bus!WORD * Bus!WORD - 1
    PROVE  Bus!Signed(n) \in Int /\ Bus!Abs(Bus!Signed(n)) < Bus!WORD * Bus!WORD
<1>. DEFINE w == Bus!WORD * Bus!WORD
<1>1. w \in Nat /\ w >= 2
  <2>1. Bus!WORD \in Nat /\ Bus!WORD >= 2
    <3>1. Bus!WORD \in Nat /\ BYTE \in Nat /\ BYTE >= 2 /\ BYTE < Bus!WORD
      BY FrameIs
    <3>. QED BY <3>1
  <2>2. \A x \in Nat : x >= 2 => x * x \in Nat /\ x * x >= 2
    OBVIOUS
  <2>. QED BY <2>1, <2>2
<1>. HIDE DEF w
<1>2. n \in 0 .. w - 1 /\ Bus!Signed(n) = IF n >= w \div 2 THEN n - w ELSE n
  BY DEF w, Bus!Signed
<1>3. Bus!Signed(n) \in Int /\ Bus!Signed(n) < w /\ -Bus!Signed(n) < w
  BY <1>1, <1>2
<1>. QED BY <1>3 DEF Bus!Abs, w

(* Rounding to a float loses less than its digits say. *)
LEMMA UnitOf ==
    ASSUME NEW a \in Nat, NEW mantissa \in Nat, a < mantissa * 65536
    PROVE  \E u \in Bus!Units : a < mantissa * u /\ (u = 1 \/ a >= mantissa * (u \div 2))
<1>1. /\ 2 \div 2 = 1 /\ 4 \div 2 = 2 /\ 8 \div 2 = 4 /\ 16 \div 2 = 8 /\ 32 \div 2 = 16
      /\ 64 \div 2 = 32 /\ 128 \div 2 = 64 /\ 256 \div 2 = 128 /\ 512 \div 2 = 256
      /\ 1024 \div 2 = 512 /\ 2048 \div 2 = 1024 /\ 4096 \div 2 = 2048 /\ 8192 \div 2 = 4096
      /\ 16384 \div 2 = 8192 /\ 32768 \div 2 = 16384 /\ 65536 \div 2 = 32768
  OBVIOUS
<1>2. mantissa * 1 \in Nat /\ mantissa * 2 \in Nat
  OBVIOUS
<1>. DEFINE Fits(u) == a < mantissa * u
<1>3. Fits(65536) /\ \A u \in Nat : ~Fits(u) => a >= mantissa * u
  <2>1. \A u \in Nat : mantissa * u \in Nat
    OBVIOUS
  <2>. QED BY <2>1
<1>4. /\ Fits(1) \/ (~Fits(1) /\ Fits(2)) \/ (~Fits(2) /\ Fits(4)) \/ (~Fits(4) /\ Fits(8))
         \/ (~Fits(8) /\ Fits(16)) \/ (~Fits(16) /\ Fits(32)) \/ (~Fits(32) /\ Fits(64))
         \/ (~Fits(64) /\ Fits(128)) \/ (~Fits(128) /\ Fits(256)) \/ (~Fits(256) /\ Fits(512))
         \/ (~Fits(512) /\ Fits(1024)) \/ (~Fits(1024) /\ Fits(2048)) \/ (~Fits(2048) /\ Fits(4096))
         \/ (~Fits(4096) /\ Fits(8192)) \/ (~Fits(8192) /\ Fits(16384))
         \/ (~Fits(16384) /\ Fits(32768)) \/ (~Fits(32768) /\ Fits(65536))
  <2>. HIDE DEF Fits
  <2>. QED BY <1>3
<1>5. \E u \in Bus!Units : Fits(u) /\ (u = 1 \/ a >= mantissa * (u \div 2))
  <2>1. \A u \in Nat : ~Fits(u) => a >= mantissa * u
    BY <1>3
  <2>. HIDE DEF Fits
  <2>. QED BY <1>1, <1>4, <2>1 DEF Bus!Units
<1>. QED BY <1>5

LEMMA RoundedIs ==
    ASSUME NEW n \in Int, Bus!Abs(n) < BYTE * Bus!WORD * 65536
    PROVE  /\ Bus!Rounded(n) \in Int
           /\ Bus!Abs(Bus!Rounded(n) - n) * (BYTE * Bus!WORD) <= Bus!Abs(n)
<1>. DEFINE mantissa == BYTE * Bus!WORD
            a == Bus!Abs(n)
            fits(u) == a < mantissa * u /\ (u = 1 \/ a >= mantissa * (u \div 2))
            unit == CHOOSE u \in Bus!Units : fits(u)
            h == unit \div 2
            half == IF n < 0 THEN -h ELSE h
            x == IF n < 0 THEN h - n ELSE n + h
            q == x \div unit
            R == Bus!Rounded(n)
<1>1. mantissa \in Nat /\ a \in Nat /\ (n < 0 => a = -n) /\ (n >= 0 => a = n)
  <2>1. BYTE \in Nat /\ Bus!WORD \in Nat
    BY FrameIs
  <2>2. \A y, z \in Nat : y * z \in Nat
    OBVIOUS
  <2>3. a \in Nat /\ (n < 0 => a = -n) /\ (n >= 0 => a = n)
    BY DEF Bus!Abs
  <2>. QED BY <2>1, <2>2, <2>3
<1>. HIDE DEF mantissa, a
<1>2. unit \in Bus!Units /\ fits(unit)
  <2>1. \E u \in Bus!Units : fits(u)
    <3>1. a < mantissa * 65536
      BY DEF a, mantissa
    <3>. QED BY <1>1, <3>1, UnitOf
  <2>. QED BY <2>1
<1>3. R = unit * Bus!Quotient(n + half, unit)
  BY DEF Bus!Rounded, mantissa, a
<1>4. unit \in Nat \ {0} /\ h \in Nat /\ (unit = 1 => h = 0) /\ (unit # 1 => unit = 2 * h)
  <2>. HIDE DEF unit
  <2>1. unit \in Bus!Units
    BY <1>2
  <2>. QED BY <2>1 DEF Bus!Units
<1>. HIDE DEF unit, h, R
<1>5. x \in Nat
  BY <1>4
<1>. HIDE DEF x
<1>6. q \in Nat /\ unit * q \in Nat /\ unit * q <= x /\ x < unit * q + unit
  <2>1. \A y, z \in Nat : y * z \in Nat
    OBVIOUS
  <2>. QED BY <1>4, <1>5, <2>1, Division
<1>7. R = IF n < 0 THEN -(unit * q) ELSE unit * q
  <2>1. CASE n < 0
    <3>1. n + half < 0 /\ -(n + half) = x
      BY <1>4, <2>1 DEF x
    <3>2. Bus!Quotient(n + half, unit) = -q
      BY <3>1 DEF Bus!Quotient
    <3>3. unit * (-q) = -(unit * q)
      BY <1>4, <1>6
    <3>. QED BY <1>3, <2>1, <3>2, <3>3
  <2>2. CASE ~(n < 0)
    <3>1. ~(n + half < 0) /\ n + half = x
      BY <1>4, <2>2 DEF x
    <3>2. Bus!Quotient(n + half, unit) = q
      BY <3>1 DEF Bus!Quotient
    <3>. QED BY <1>3, <2>2, <3>2
  <2>. QED BY <2>1, <2>2
<1>. DEFINE e == unit * q
            d == Bus!Abs(R - n)
<1>8. e \in Nat /\ e <= x /\ x < e + unit /\ R = IF n < 0 THEN -e ELSE e
  BY <1>6, <1>7
<1>. HIDE DEF e
<1>9. R \in Int /\ d \in Nat /\ d <= h
  <2>1. R \in Int /\ R - n <= h /\ n - R <= h
    <3>1. CASE n < 0
      BY <1>4, <1>8, <3>1 DEF x
    <3>2. CASE ~(n < 0)
      BY <1>4, <1>8, <3>2 DEF x
    <3>. QED BY <3>1, <3>2
  <2>. QED BY <2>1, <1>4 DEF Bus!Abs
<1>. HIDE DEF d
<1>10. mantissa * h <= a
  <2>1. CASE unit = 1
    BY <1>1, <1>4, <2>1
  <2>2. CASE unit # 1
    BY <1>2, <2>2 DEF h
  <2>. QED BY <2>1, <2>2
<1>11. d * mantissa <= mantissa * h
  <2>1. \A y, z, k \in Nat : y <= z => y * k <= k * z
    OBVIOUS
  <2>. QED BY <1>1, <1>4, <1>9, <2>1
<1>12. d * mantissa \in Nat /\ mantissa * h \in Nat
  <2>1. \A y, z \in Nat : y * z \in Nat
    OBVIOUS
  <2>. QED BY <1>1, <1>4, <1>9, <2>1
<1>13. d * mantissa <= a
  BY <1>1, <1>10, <1>11, <1>12
<1>. QED BY <1>9, <1>13 DEF d, a, mantissa, R

(* The bytes memcpy takes of a field. *)
BytesOf(f, buffer, heap) ==
    [k \in 1 .. f.NB |-> IF Bus!readpos(f) + k \in DOMAIN buffer
                         THEN buffer[Bus!readpos(f) + k] ELSE heap]

(* A field of which the data base agrees is read where its words were put. *)
LEMMA FieldRead ==
    ASSUME NEW f \in BusFields, Bus!Agrees(f), NEW buffer, NEW heap,
           NEW words \in [Bus!Minors -> Sendings],
           DOMAIN buffer = 1 .. Bus!major_buffsize, Holds(buffer, words)
    PROVE  LET n == Bus!NumberSent(f, words)
               bytes == BytesOf(f, buffer, heap)
           IN  /\ Bus!get_long(bytes) = Bus!Signed(n)
               /\ n \in 0 .. Bus!WORD * Bus!WORD - 1
<1>. DEFINE id == Bus!FrameOf(f)
            here == words[id]
            w == Bus!WordOf(f)
            nb == f.NB
            low == here[w + 1]
            high == here[w + 2]
            b == BytesOf(f, buffer, heap)
            size == Bus!minor_buffsize
            n == Bus!NumberSent(f, words)
<1>1. /\ id \in Bus!Minors /\ w \in Nat /\ f.POSITION = Bus!Lead + 2 * w + 1
      /\ nb \in 1 .. 4 /\ w + (IF nb > 2 THEN 2 ELSE 1) <= Amount
      /\ f.MI_BYTES \in Nat /\ (id = 1 \/ f.MI_BYTES = size)
  <2>1. /\ f.POSITION \in Nat /\ f.MI_BYTES \in Nat /\ nb \in 1 .. 4 /\ Bus!Lead \in Nat
    BY BusAssumption, FrameIs DEF BusField
  <2>2. /\ id \in Bus!Minors /\ w >= 0 /\ f.POSITION = Bus!Lead + 2 * w + 1
        /\ w + (IF nb > 2 THEN 2 ELSE 1) <= Amount /\ (id = 1 \/ f.MI_BYTES = size)
    BY DEF Bus!Agrees, Amount
  <2>3. w \in Int
    BY <2>1 DEF Bus!WordOf
  <2>. HIDE DEF id, w, nb, size
  <2>. QED BY <2>1, <2>2, <2>3
<1>2. /\ Amount \in Nat /\ Bus!Lead \in Nat /\ size \in Nat /\ BYTE \in Nat \ {0}
      /\ Bus!WORD \in Nat /\ Bus!WORD = BYTE * BYTE
  BY FrameIs DEF Amount
<1>3. here \in [1 .. Amount -> Word] /\ id \in Nat
  BY <1>1 DEF Sendings, Bus!Minors
<1>4. n = CASE nb = 1 -> low % BYTE
            [] nb = 2 -> low
            [] nb = 3 -> low + Bus!WORD * (high % BYTE)
            [] nb = 4 -> low + Bus!WORD * high
  BY DEF Bus!NumberSent
<1>5. Bus!readpos(f) = size * (id - 1) + (Bus!Lead + 2 * w)
  <2>1. Bus!readpos(f) = f.MI_BYTES * (id - 1) + f.POSITION - 1
    BY DEF Bus!readpos
  <2>. DEFINE e == size * (id - 1)
  <2>2. e \in Int
    BY <1>2, <1>3
  <2>3. f.MI_BYTES * (id - 1) = e
    <3>1. \A x, y \in Nat : x * (1 - 1) = y * (1 - 1)
      OBVIOUS
    <3>. HIDE DEF id, size
    <3>2. CASE id = 1
      BY <1>1, <1>2, <3>1, <3>2
    <3>. QED BY <1>1, <3>2
  <2>4. Bus!readpos(f) = e + f.POSITION - 1
    BY <2>1, <2>3
  <2>. HIDE DEF e, id, w
  <2>5. Bus!readpos(f) = e + (Bus!Lead + 2 * w)
    BY <1>1, <1>2, <2>2, <2>4
  <2>. QED BY <2>5 DEF e
<1>. HIDE DEF n, here, id, w, nb, size
<1>6. ASSUME NEW k \in 1 .. nb
      PROVE  b[k] = IF (2 * w + k) % 2 = 1 THEN here[((2 * w + k) + 1) \div 2] % BYTE
                    ELSE here[((2 * w + k) + 1) \div 2] \div BYTE
  <2>. DEFINE i == 2 * w + k
  <2>1. i \in 1 .. 2 * Amount
    BY <1>1, <1>2
  <2>2. Bus!readpos(f) + k = size * (id - 1) + (Bus!Lead + i)
    <3>. DEFINE e == size * (id - 1)
    <3>1. e \in Int
      BY <1>2, <1>3
    <3>2. Bus!readpos(f) = e + (Bus!Lead + 2 * w)
      BY <1>5
    <3>. HIDE DEF e
    <3>3. Bus!readpos(f) + k = e + (Bus!Lead + i)
      BY <1>1, <1>2, <3>1, <3>2
    <3>. QED BY <3>3 DEF e
  <2>3. b[k] = buffer[size * (id - 1) + (Bus!Lead + i)]
    <3>1. size * (id - 1) + (Bus!Lead + i) \in 1 .. Bus!major_buffsize
      <4>1. id \in 1 .. total_minor_cycles /\ total_minor_cycles \in Nat
        BY <1>1, FrameIs DEF Bus!Minors
      <4>2. Bus!Lead + 2 * Amount <= size
        BY FrameIs DEF Amount, size
      <4>3. Bus!Lead + i \in 1 .. size
        <5>. HIDE DEF i
        <5>. QED BY <1>2, <2>1, <4>2
      <4>4. Bus!major_buffsize = size * total_minor_cycles
        BY DEF Bus!major_buffsize, size
      <4>. HIDE DEF i
      <4>. QED BY <1>2, <4>1, <4>3, <4>4, SlotsApart
    <3>2. Bus!readpos(f) + k \in DOMAIN buffer
      BY <2>2, <3>1
    <3>. QED BY <2>2, <3>2 DEF BytesOf, nb
  <2>. HIDE DEF i
  <2>4. b[k] = Bus!Bytes(here)[i]
    BY <1>1, <2>1, <2>3 DEF Holds, size, here
  <2>5. Bus!Bytes(here)[i] = IF i % 2 = 1 THEN here[(i + 1) \div 2] % BYTE
                             ELSE here[(i + 1) \div 2] \div BYTE
    BY <1>2, <1>3, <2>1, BytesAre
  <2>. QED BY <2>4, <2>5 DEF i
<1>7. low \in 0 .. Bus!WORD - 1 /\ (nb > 2 => high \in 0 .. Bus!WORD - 1)
  <2>1. w + 1 \in 1 .. Amount /\ (nb > 2 => w + 2 \in 1 .. Amount)
    BY <1>1, <1>2
  <2>. QED BY <1>3, <2>1 DEF Word
<1>8. /\ b[1] = low % BYTE
      /\ nb >= 2 => b[2] = low \div BYTE
      /\ nb >= 3 => b[3] = high % BYTE
      /\ nb = 4 => b[4] = high \div BYTE
  <2>1. /\ (2 * w + 1) % 2 = 1 /\ ((2 * w + 1) + 1) \div 2 = w + 1
        /\ (2 * w + 2) % 2 = 0 /\ ((2 * w + 2) + 1) \div 2 = w + 1
        /\ (2 * w + 3) % 2 = 1 /\ ((2 * w + 3) + 1) \div 2 = w + 2
        /\ (2 * w + 4) % 2 = 0 /\ ((2 * w + 4) + 1) \div 2 = w + 2
    BY <1>1
  <2>2. /\ 1 \in 1 .. nb /\ (nb >= 2 => 2 \in 1 .. nb) /\ (nb >= 3 => 3 \in 1 .. nb)
        /\ (nb = 4 => 4 \in 1 .. nb) /\ ~(0 = 1)
    BY <1>1
  <2>. HIDE DEF b
  <2>3. b[1] = low % BYTE
    BY <1>6, <2>1, <2>2
  <2>4. nb >= 2 => b[2] = low \div BYTE
    BY <1>6, <2>1, <2>2
  <2>5. nb >= 3 => b[3] = high % BYTE
    BY <1>6, <2>1, <2>2
  <2>6. nb = 4 => b[4] = high \div BYTE
    BY <1>6, <2>1, <2>2
  <2>. QED BY <2>3, <2>4, <2>5, <2>6
<1>. HIDE DEF low, high
<1>9. /\ low = BYTE * (low \div BYTE) + (low % BYTE) /\ low % BYTE \in Nat /\ low % BYTE <= low
      /\ low \div BYTE \in Nat
  <2>1. low \in Nat /\ BYTE \in Nat \ {0}
    BY <1>2, <1>7
  <2>2. low % BYTE <= low
    BY <2>1
  <2>. QED BY <2>1, <2>2, Division
<1>10. nb > 2 => /\ high = BYTE * (high \div BYTE) + (high % BYTE)
                 /\ high % BYTE \in Nat /\ high % BYTE <= high /\ high \div BYTE \in Nat
  <2>. SUFFICES ASSUME nb > 2
                PROVE  /\ high = BYTE * (high \div BYTE) + (high % BYTE)
                       /\ high % BYTE \in Nat /\ high % BYTE <= high /\ high \div BYTE \in Nat
    OBVIOUS
  <2>1. high \in Nat /\ BYTE \in Nat \ {0}
    BY <1>2, <1>7
  <2>2. high % BYTE <= high
    BY <2>1
  <2>. QED BY <2>1, <2>2, Division
<1>11. \A k \in 1 .. nb : b[k] \in Nat
  <2>1. \A k \in 1 .. nb : k = 1 \/ (k = 2 /\ nb >= 2) \/ (k = 3 /\ nb >= 3) \/ (k = 4 /\ nb = 4)
    BY <1>1
  <2>2. nb >= 3 => nb > 2
    BY <1>1
  <2>3. nb = 4 => nb > 2
    BY <1>1
  <2>. HIDE DEF b
  <2>. QED BY <1>8, <1>9, <1>10, <2>1, <2>2, <2>3
<1>12. b = [k \in 1 .. nb |-> b[k]]
  BY DEF BytesOf, nb
<1>. HIDE DEF b
<1>13. /\ nb = 1 => Bus!get_long(b) = Bus!Signed(b[1])
       /\ nb = 2 => Bus!get_long(b) = Bus!Signed(BYTE * b[2] + b[1])
       /\ nb = 3 => Bus!get_long(b) = Bus!Signed(BYTE * (BYTE * b[3] + b[2]) + b[1])
       /\ nb = 4 => Bus!get_long(b) = Bus!Signed(BYTE * (BYTE * (BYTE * b[4] + b[3]) + b[2]) + b[1])
  BY <1>1, <1>11, <1>12, LongOf
<1>14. ASSUME NEW x \in Nat, NEW y \in Nat, NEW z \in Nat
       PROVE  BYTE * (BYTE * z + y) + x = (BYTE * y + x) + Bus!WORD * z
  <2>1. \A s, t \in Nat : BYTE * (s + t) = BYTE * s + BYTE * t /\ BYTE * s \in Nat
    BY <1>2
  <2>2. BYTE * (BYTE * z) = Bus!WORD * z
    BY <1>2
  <2>3. BYTE * (BYTE * z + y) = BYTE * (BYTE * z) + BYTE * y /\ BYTE * z \in Nat /\ BYTE * y \in Nat
        /\ BYTE * (BYTE * z) \in Nat
    BY <2>1
  <2>. DEFINE p == BYTE * (BYTE * z)
              q == BYTE * y
              r == BYTE * (BYTE * z + y)
  <2>4. r = p + q /\ p \in Nat /\ q \in Nat
    BY <2>3
  <2>. HIDE DEF p, q, r
  <2>5. r + x = (q + x) + p
    BY <2>4
  <2>. QED BY <2>2, <2>5 DEF p, q, r
<1>15. ASSUME NEW x \in 0 .. Bus!WORD - 1, NEW y \in 0 .. Bus!WORD - 1
       PROVE  x \in 0 .. Bus!WORD * Bus!WORD - 1 /\ x + Bus!WORD * y \in 0 .. Bus!WORD * Bus!WORD - 1
  <2>. DEFINE W == Bus!WORD
  <2>1. W \in Nat /\ x \in Nat /\ y \in Nat /\ x < W /\ y < W
    BY <1>2
  <2>. HIDE DEF W
  <2>2. W * y \in Nat /\ W * y + W <= W * W
    BY <2>1
  <2>. DEFINE p == W * y
              q == W * W
  <2>3. p \in Nat /\ p + W <= q /\ q \in Nat
    BY <2>1, <2>2
  <2>. HIDE DEF p, q
  <2>4. x \in 0 .. q - 1 /\ x + p \in 0 .. q - 1
    BY <2>1, <2>3
  <2>. QED BY <2>4 DEF p, q, W
<1>16. Bus!get_long(b) = Bus!Signed(n) /\ n \in 0 .. Bus!WORD * Bus!WORD - 1
  <2>1. CASE nb = 1
    <3>1. n = low % BYTE
      BY <1>4, <2>1
    <3>2. low % BYTE \in 0 .. Bus!WORD - 1
      BY <1>2, <1>7, <1>9
    <3>. QED BY <1>8, <1>13, <1>15, <2>1, <3>1, <3>2
  <2>2. CASE nb = 2
    <3>1. n = low
      BY <1>4, <2>2
    <3>2. BYTE * b[2] + b[1] = low
      BY <1>8, <1>9, <2>2
    <3>. QED BY <1>7, <1>13, <1>15, <2>2, <3>1, <3>2
  <2>3. CASE nb = 3
    <3>1. n = low + Bus!WORD * (high % BYTE)
      BY <1>4, <2>3
    <3>2. b[1] = low % BYTE /\ b[2] = low \div BYTE /\ b[3] = high % BYTE /\ high % BYTE \in Nat
      BY <1>8, <1>10, <2>3
    <3>3. BYTE * (BYTE * b[3] + b[2]) + b[1] = low + Bus!WORD * (high % BYTE)
      BY <1>9, <1>14, <3>2
    <3>4. high % BYTE \in 0 .. Bus!WORD - 1
      BY <1>2, <1>7, <1>10, <2>3
    <3>. QED BY <1>7, <1>13, <1>15, <2>3, <3>1, <3>3, <3>4
  <2>4. CASE nb = 4
    <3>1. n = low + Bus!WORD * high
      BY <1>4, <2>4
    <3>2. b[1] = low % BYTE /\ b[2] = low \div BYTE /\ BYTE * b[4] + b[3] = high
      BY <1>8, <1>10, <2>4
    <3>3. BYTE * (BYTE * high + b[2]) + b[1] = low + Bus!WORD * high
      <4>1. high \in Nat
        BY <1>2, <1>7, <2>4
      <4>. QED BY <1>9, <1>14, <3>2, <4>1
    <3>4. high \in 0 .. Bus!WORD - 1
      BY <1>7, <2>4
    <3>. QED BY <1>7, <1>13, <1>15, <2>4, <3>1, <3>2, <3>3, <3>4
  <2>5. nb = 1 \/ nb = 2 \/ nb = 3 \/ nb = 4
    BY <1>1
  <2>. QED BY <2>1, <2>2, <2>3, <2>4, <2>5
<1>. QED BY <1>16 DEF b, n, nb

(* The units a number shown is counted in, and those numbers that have     *)
(* them.                                                                   *)
Factor(f, n) ==
    IF ~Bus!Normalised(f) THEN Bus!WORD ELSE IF n < Bus!WORD \div 2 THEN 2 ELSE -1
IsShown(f) == ~Bus!Normalised(f) \/ (f.NF = 1 /\ f.PTYPE = "FLOATING")

(* The value is the scaled number, rounded.                                *)
LEMMA ValueIs ==
    ASSUME NEW f \in BusFields, IsShown(f), NEW bytes, NEW n \in Int, Bus!get_long(bytes) = n,
           Bus!Rounded(n * f.num) \in Int
    PROVE  /\ Bus!convert(bytes, f) \in Int
           /\ Bus!convert(bytes, f) * f.den = Factor(f, n) * Bus!Rounded(n * f.num)
<1>. DEFINE v == Bus!convert(bytes, f)
            W == Bus!WORD
            R == Bus!Rounded(n * f.num)
            den == f.den
<1>1. /\ f.num \in Nat /\ den \in Nat \ {0} /\ (\E units \in 1 .. W : den * units = W)
      /\ f.PTYPE \in {"FLOATING", "INTEGER", "COUNT", "FLAG"}
      /\ (f.PTYPE \in {"INTEGER", "COUNT", "FLAG"} => den = 1)
      /\ (f.PTYPE = "FLAG" => f.num = 1) /\ (f.NF # 0 => den = 1)
  BY BusAssumption DEF BusField, Whole
<1>2. W \in Nat /\ R \in Int
  BY FrameIs
<1>3. v = CASE f.PTYPE = "FLOATING" -> Bus!convert_to_float(n, f)
            [] f.PTYPE \in {"INTEGER", "COUNT"} -> Bus!convert_to_count(n, f)
            [] f.PTYPE = "FLAG" -> Bus!convert_to_flag(n)
  BY DEF Bus!convert
<1>0. CASE Bus!Normalised(f)
  <2>1. f.NF = 1 /\ f.PTYPE = "FLOATING" /\ den = 1 /\ Factor(f, n) \in Int
    BY <1>0, <1>1 DEF IsShown, Factor
  <2>2. v = IF n > (W \div 2) - 1 THEN -(R \div den) ELSE (2 * R) \div den
    BY <1>3, <2>1 DEF Bus!convert_to_float
  <2>3. W \div 2 \in Int /\ Factor(f, n) = IF n < W \div 2 THEN 2 ELSE -1
    BY <1>0, <1>2 DEF Factor
  <2>. HIDE DEF v, W, R, den
  <2>4. v = Factor(f, n) * R /\ v \in Int
    <3>1. R \div den = R /\ (2 * R) \div den = 2 * R
      <4>1. \A x \in Int : x \div 1 = x
        OBVIOUS
      <4>. QED BY <1>2, <2>1, <4>1
    <3>2. CASE n < W \div 2
      <4>1. ~(n > (W \div 2) - 1)
        BY <2>3, <3>2
      <4>. QED BY <1>2, <2>2, <2>3, <3>1, <3>2, <4>1
    <3>3. CASE ~(n < W \div 2)
      <4>1. n > (W \div 2) - 1
        BY <2>3, <3>3
      <4>. QED BY <1>2, <2>2, <2>3, <3>1, <3>3, <4>1
    <3>. QED BY <3>2, <3>3
  <2>5. v * den = v
    BY <2>1, <2>4
  <2>. QED BY <2>4, <2>5 DEF v, R, den
<1>. SUFFICES ASSUME ~Bus!Normalised(f)
              PROVE  v \in Int /\ v * den = Factor(f, n) * R
  BY <1>0
<1>10. Factor(f, n) = W /\ (f.NF = 0 \/ f.PTYPE = "FLAG")
  BY DEF Factor, Bus!Normalised
<1>4. v = IF f.PTYPE = "FLOATING" THEN (W * R) \div den ELSE W * R
  <2>1. CASE f.PTYPE = "FLOATING"
    BY <1>3, <1>10, <2>1 DEF Bus!convert_to_float
  <2>2. CASE f.PTYPE \in {"INTEGER", "COUNT"}
    <3>1. Bus!Quotient(n * f.num, f.den) = n * f.num
      <4>1. n * f.num \in Int
        BY <1>1
      <4>2. \A x \in Int : Bus!Quotient(x, 1) = x
        BY DEF Bus!Quotient
      <4>. QED BY <1>1, <2>2, <4>1, <4>2
    <3>2. v = Bus!convert_to_count(n, f) /\ f.PTYPE # "FLOATING"
      BY <1>3, <2>2
    <3>. QED BY <1>10, <2>2, <3>1, <3>2 DEF Bus!convert_to_count
  <2>3. CASE f.PTYPE = "FLAG"
    <3>1. n * f.num = n
      BY <1>1, <2>3
    <3>2. v = Bus!convert_to_flag(n) /\ f.PTYPE # "FLOATING"
      BY <1>3, <2>3
    <3>. QED BY <3>1, <3>2 DEF Bus!convert_to_flag
  <2>. QED BY <1>1, <2>1, <2>2, <2>3
<1>. HIDE DEF v, W, R, den
<1>5. v \in Int /\ v * den = W * R
  <2>1. CASE f.PTYPE = "FLOATING"
    <3>1. PICK units \in 1 .. W : den * units = W
      BY <1>1
    <3>2. units \in Nat /\ den \in Nat \ {0}
      BY <1>1, <1>2, <3>1
    <3>3. (den * units) * R = den * (units * R) /\ units * R \in Int
      BY <1>2, <3>2
    <3>4. (den * (units * R)) \div den = units * R
      <4>1. \A x \in Int : (den * x) \div den = x
        BY <3>2
      <4>. QED BY <3>3, <4>1
    <3>5. v = units * R
      BY <1>4, <2>1, <3>1, <3>3, <3>4
    <3>6. (units * R) * den = den * (units * R)
      <4>1. \A x \in Int : x * den = den * x
        BY <3>2
      <4>. QED BY <3>3, <4>1
    <3>. QED BY <3>1, <3>3, <3>5, <3>6
  <2>2. CASE f.PTYPE # "FLOATING"
    <3>1. den = 1 /\ v = W * R
      BY <1>1, <1>4, <2>2
    <3>2. \A x, y \in Int : x * y \in Int /\ (x * y) * 1 = x * y
      OBVIOUS
    <3>. QED BY <1>2, <3>1, <3>2
  <2>. QED BY <2>1, <2>2
<1>. QED BY <1>5, <1>10

(* The colours, for a value within an error of the exact one. *)
LEMMA ColourRight ==
    ASSUME NEW f \in BusFields, NEW v \in Int, NEW exact \in Int, NEW error \in Nat,
           v * f.den - exact <= error, exact - v * f.den <= error
    PROVE  LET Outside(limit) == limit * Bus!WORD * f.den
           IN  /\ exact - error > Outside(f.MAX_VAL) /\ f.MAX_VAL # 0 => Bus!Colour(v, f) = "red"
               /\ exact + error < Outside(f.MIN_VAL) /\ f.MIN_VAL # 0 => Bus!Colour(v, f) = "blue"
               /\ exact + error <= Outside(f.MAX_VAL) /\ exact - error >= Outside(f.MIN_VAL)
                    => Bus!Colour(v, f) = "black"
<1>. DEFINE W == Bus!WORD
            d == f.den
            low == f.MIN_VAL
            high == f.MAX_VAL
            a == W * low
            b == W * high
            x == v * d
            y == low * W * d
            z == high * W * d
<1>1. W \in Nat /\ d \in Nat \ {0} /\ low \in Int /\ high \in Int /\ low <= high
  BY FrameIs, BusAssumption DEF BusField
<1>2. Bus!Colour(v, f) = IF low = 0 /\ high = 0 THEN "black" ELSE IF v < a THEN "blue"
                         ELSE IF v > b THEN "red" ELSE "black"
  BY DEF Bus!Colour
<1>. HIDE DEF W, d, low, high
<1>3. a \in Int /\ b \in Int /\ a <= b
  <2>1. \A i, j \in Int, k \in Nat : k * i \in Int /\ (i <= j => k * i <= k * j)
    OBVIOUS
  <2>. QED BY <1>1, <2>1
<1>4. y = a * d /\ z = b * d
  <2>1. low * W = W * low /\ high * W = W * high
    BY <1>1
  <2>. QED BY <2>1
<1>. HIDE DEF a, b
<1>5. /\ x \in Int /\ a * d \in Int /\ b * d \in Int
      /\ (v < a <=> x < a * d) /\ (v > b <=> x > b * d)
      /\ (a * d <= b * d)
  <2>1. \A i, j \in Int, k \in Nat \ {0} : i * k \in Int /\ (i < j <=> i * k < j * k)
                                            /\ (i <= j <=> i * k <= j * k)
    OBVIOUS
  <2>. QED BY <1>1, <1>3, <2>1
<1>6. x - exact <= error /\ exact - x <= error
  BY DEF d
<1>7. x \in Int /\ y \in Int /\ z \in Int /\ (v < a <=> x < y) /\ (v > b <=> x > z) /\ y <= z
  BY <1>4, <1>5
<1>. HIDE DEF x, y, z
<1>8. /\ exact - error > z => x > z /\ ~(x < y)
      /\ exact + error < y => x < y
      /\ exact + error <= z /\ exact - error >= y => ~(x < y) /\ ~(x > z)
  BY <1>6, <1>7
<1>9. /\ exact - error > z /\ high # 0 => Bus!Colour(v, f) = "red"
      /\ exact + error < y /\ low # 0 => Bus!Colour(v, f) = "blue"
      /\ exact + error <= z /\ exact - error >= y => Bus!Colour(v, f) = "black"
  BY <1>2, <1>7, <1>8
<1>. QED BY <1>9 DEF y, z, W, d, low, high

LEMMA ValueRight ==
    ASSUME NEW f \in BusFields, Bus!Agrees(f), NEW buffer, NEW heap,
           NEW words \in [Bus!Minors -> Sendings],
           DOMAIN buffer = 1 .. Bus!major_buffsize, Holds(buffer, words)
    PROVE  Bus!RightOf(f, Bus!get_realtime_value(f, buffer, heap), words)
<1>. SUFFICES ASSUME IsShown(f)
              PROVE  Bus!RightOf(f, Bus!get_realtime_value(f, buffer, heap), words)
  BY DEF Bus!RightOf, IsShown
<1>. DEFINE W == Bus!WORD
            bytes == BytesOf(f, buffer, heap)
            n == Bus!Signed(Bus!NumberSent(f, words))
            t == n * f.num
            R == Bus!Rounded(t)
            v == Bus!convert(bytes, f)
            of == Bus!get_realtime_value(f, buffer, heap)
            c == Factor(f, n)
            C == Bus!Abs(c)
            exact == c * n * f.num
            x == v * f.den
            error == Bus!Abs(x - exact)
<1>1. W \in Nat /\ BYTE \in Nat /\ f.num \in Nat /\ f.den \in Nat \ {0} /\ BYTE * f.num <= 65536
      /\ W > 0 /\ BYTE > 0
  <2>1. W \in Nat /\ BYTE \in Nat /\ BYTE >= 2 /\ BYTE < W
    BY FrameIs
  <2>2. f.num \in Nat /\ f.den \in Nat \ {0} /\ BYTE * f.num <= 65536
    BY BusAssumption DEF BusField
  <2>. QED BY <2>1, <2>2
<1>2. Bus!get_long(bytes) = n /\ Bus!NumberSent(f, words) \in 0 .. W * W - 1
  BY FieldRead
<1>3. n \in Int /\ Bus!Abs(n) < W * W
  BY <1>2, SignedIs
<1>4. of.value = v /\ of.colour = Bus!Colour(v, f)
  BY DEF Bus!get_realtime_value, BytesOf
<1>13. c \in Int /\ C \in Nat
  <2>1. c \in Int
    BY <1>1 DEF Factor
  <2>. HIDE DEF c
  <2>. QED BY <2>1 DEF Bus!Abs
<1>14. Bus!Near(f, of, exact) => Bus!RightOf(f, of, words)
  BY DEF Bus!RightOf, Factor
<1>. HIDE DEF W, bytes, n, v, of, c
<1>5. t \in Int /\ Bus!Abs(t) < BYTE * W * 65536
  <2>. DEFINE m == Bus!Abs(n)
  <2>1. m \in Nat /\ (m = n \/ m = -n) /\ m < W * W
    BY <1>3 DEF Bus!Abs
  <2>2. t \in Int /\ m * f.num \in Nat /\ Bus!Abs(t) = m * f.num
    <3>1. \A i \in Int, j \in Nat : i * j \in Int /\ (-i) * j = -(i * j) /\ (i >= 0 => i * j >= 0)
                                     /\ (i <= 0 => i * j <= 0)
      OBVIOUS
    <3>2. CASE n >= 0
      <4>1. m = n
        BY <1>3, <3>2 DEF Bus!Abs
      <4>2. t \in Int /\ t >= 0
        BY <1>1, <1>3, <3>1, <3>2
      <4>3. Bus!Abs(t) = t /\ t \in Nat
        BY <4>2 DEF Bus!Abs
      <4>. QED BY <4>1, <4>2, <4>3
    <3>3. CASE ~(n >= 0)
      <4>1. m = -n /\ n <= 0
        BY <1>3, <3>3 DEF Bus!Abs
      <4>2. t \in Int /\ t <= 0 /\ m * f.num = -t
        BY <1>1, <1>3, <3>1, <4>1
      <4>3. Bus!Abs(t) = -t /\ -t \in Nat
        BY <4>2 DEF Bus!Abs
      <4>. QED BY <4>2, <4>3
    <3>. QED BY <3>2, <3>3
  <2>. HIDE DEF m, t
  <2>. DEFINE k == W * W
  <2>3. k \in Nat /\ m < k
    BY <1>1, <2>1
  <2>4. BYTE * W * 65536 \in Nat /\ BYTE * W \in Nat
    BY <1>1
  <2>5. CASE f.num = 0
    <3>1. m * f.num = 0
      BY <2>1, <2>5
    <3>2. BYTE * W >= 1
      BY <1>1
    <3>. QED BY <2>2, <2>4, <3>1, <3>2
  <2>6. CASE f.num # 0
    <3>1. m * f.num < k * f.num
      <4>1. \A i, j \in Nat, l \in Nat \ {0} : i < j => i * l < j * l
        OBVIOUS
      <4>. HIDE DEF k
      <4>. QED BY <1>1, <2>1, <2>3, <2>6, <4>1
    <3>2. W = BYTE * BYTE
      BY FrameIs DEF W
    <3>3. k * f.num = (BYTE * W) * (BYTE * f.num)
      BY <1>1, <3>2
    <3>4. (BYTE * W) * (BYTE * f.num) <= (BYTE * W) * 65536
      <4>1. \A i, j, l \in Nat : i <= j => l * i <= l * j
        OBVIOUS
      <4>2. BYTE * f.num \in Nat /\ 65536 \in Nat
        BY <1>1
      <4>. QED BY <1>1, <2>4, <4>1, <4>2
    <3>5. k * f.num \in Nat
      BY <1>1, <2>3
    <3>. QED BY <2>2, <2>4, <3>1, <3>3, <3>4, <3>5
  <2>. QED BY <2>2, <2>5, <2>6
<1>6. R \in Int /\ Bus!Abs(R - t) * (BYTE * W) <= Bus!Abs(t)
  <2>. HIDE DEF t
  <2>. QED BY <1>5, RoundedIs DEF W
<1>7. v \in Int /\ x = c * R
  <2>. HIDE DEF x
  <2>1. v \in Int /\ v * f.den = c * R
    BY <1>2, <1>3, <1>6, ValueIs DEF v, c
  <2>. QED BY <2>1 DEF x
<1>. HIDE DEF R, x
<1>8. exact \in Int /\ exact = c * t
  BY <1>1, <1>3, <1>13
<1>. HIDE DEF t, exact
<1>. DEFINE e == Bus!Abs(R - t)
            a == Bus!Abs(t)
<1>9. e \in Nat /\ a \in Nat /\ error = C * e /\ Bus!Abs(exact) = C * a
  <2>1. \A i \in Int : Bus!Abs(i) \in Nat
    BY DEF Bus!Abs
  <2>2. ASSUME NEW i \in Int PROVE Bus!Abs(c * i) = C * Bus!Abs(i)
    <3>1. \A j, k \in Int : /\ j * k \in Int /\ (-j) * k = -(j * k) /\ j * (-k) = -(j * k)
                             /\ (-j) * (-k) = j * k
                             /\ (j >= 0 /\ k >= 0 => j * k >= 0)
                             /\ (j >= 0 /\ k <= 0 => j * k <= 0)
                             /\ (j <= 0 /\ k >= 0 => j * k <= 0)
                             /\ (j <= 0 /\ k <= 0 => j * k >= 0)
      OBVIOUS
    <3>2. \A j \in Int : (j >= 0 => Bus!Abs(j) = j) /\ (j <= 0 => Bus!Abs(j) = -j)
      BY DEF Bus!Abs
    <3>3. CASE c >= 0 /\ i >= 0
      BY <1>13, <3>1, <3>2, <3>3
    <3>4. CASE c >= 0 /\ i <= 0
      BY <1>13, <3>1, <3>2, <3>4
    <3>5. CASE c <= 0 /\ i >= 0
      BY <1>13, <3>1, <3>2, <3>5
    <3>6. CASE c <= 0 /\ i <= 0
      BY <1>13, <3>1, <3>2, <3>6
    <3>. QED BY <1>13, <3>3, <3>4, <3>5, <3>6
  <2>3. R - t \in Int /\ c * (R - t) = c * R - c * t
    BY <1>13, <1>5, <1>6
  <2>4. x - exact = c * (R - t)
    BY <1>7, <1>8, <2>3
  <2>. QED BY <1>5, <1>8, <2>1, <2>2, <2>3, <2>4
<1>10. error * BYTE * W <= Bus!Abs(exact)
  <2>1. e * (BYTE * W) <= a
    BY <1>6
  <2>. HIDE DEF e, a, error, C
  <2>2. (C * e) * BYTE * W = C * (e * (BYTE * W))
    BY <1>1, <1>9, <1>13
  <2>3. C * (e * (BYTE * W)) <= C * a
    <3>1. \A i, j, l \in Nat : i <= j => l * i <= l * j
      OBVIOUS
    <3>2. e * (BYTE * W) \in Nat
      BY <1>1, <1>9
    <3>. QED BY <1>9, <1>13, <2>1, <3>1, <3>2
  <2>. QED BY <1>9, <2>2, <2>3
<1>11. error \in Nat /\ x - exact <= error /\ exact - x <= error
  <2>1. x \in Int
    BY <1>6, <1>7, <1>13
  <2>2. \A i \in Int : Bus!Abs(i) \in Nat /\ i <= Bus!Abs(i) /\ -i <= Bus!Abs(i)
    BY DEF Bus!Abs
  <2>3. x - exact \in Int /\ exact - x = -(x - exact)
    BY <1>8, <2>1
  <2>. QED BY <2>2, <2>3
<1>. HIDE DEF error
<1>12. /\ exact - error > f.MAX_VAL * W * f.den /\ f.MAX_VAL # 0 => of.colour = "red"
       /\ exact + error < f.MIN_VAL * W * f.den /\ f.MIN_VAL # 0 => of.colour = "blue"
       /\ exact + error <= f.MAX_VAL * W * f.den /\ exact - error >= f.MIN_VAL * W * f.den
            => of.colour = "black"
  <2>1. v * f.den - exact <= error /\ exact - v * f.den <= error
    BY <1>11 DEF x
  <2>. QED BY <1>4, <1>7, <1>8, <1>11, <2>1, ColourRight DEF W
<1>15. Bus!Near(f, of, exact)
  BY <1>4, <1>10, <1>12 DEF Bus!Near, error, x, W
<1>. QED BY <1>14, <1>15 DEF of

-----------------------------------------------------------------------------
(* For any package, word counts and fields, and however long it runs.      *)

(* What is shown of a field of which the columns of the data base agree is *)
(* the number its words had on the bus, normalised or not, but for the     *)
(* digits the float loses; the other fields of the table may lie anywhere  *)
(* and the memory behind the buffer hold anything.  Put_Minor_Data,        *)
(* Put_Major_Data, get_realtime_value, get_long, convert.                  *)
THEOREM ValuesAreSent == FieldsSpec => []ShownIsSent
<1>. DEFINE Inv == BusInv /\ ShownIsSent
<1>1. FieldsInit => Inv
  <2>1. FieldsInit => Bus!Init
    BY DEF FieldsInit
  <2>2. Bus!Init => ShownIsSent
    BY DEF Bus!Init, ShownIsSent, Bus!ShownIsSent
  <2>. QED BY <2>1, <2>2, BusBegins
<1>2. Inv /\ [FieldsNext]_fieldsVars => Inv'
  <2>. SUFFICES ASSUME BusInv, ShownIsSent, [FieldsNext]_fieldsVars PROVE BusInv' /\ ShownIsSent'
    OBVIOUS
  <2>1. ASSUME NEW words \in [1 .. word_count[Bus!NextMsg + 1] -> Words \cup Bus!Minors],
               Bus!Message(words)
        PROVE  BusInv' /\ ShownIsSent'
    <3>1. BusInv'
      BY <2>1, MessageKeeps
    <3>2. UNCHANGED <<shown, polled>>
      BY <2>1 DEF Bus!Message, Bus!client
    <3>3. ShownIsSent'
      BY <3>2 DEF ShownIsSent, Bus!ShownIsSent
    <3>. QED BY <3>1, <3>3
  <2>2. ASSUME Bus!Poll PROVE BusInv' /\ ShownIsSent'
    <3>1. PICK heap \in Heap :
          /\ shown' = [f \in BusFields |-> Bus!get_realtime_value(f, global_buf, heap)]
          /\ polled' = posted /\ UNCHANGED <<Bus!frame, Bus!major, number, sent>>
      BY <2>2 DEF Bus!Poll
    <3>2. BusInv'
      BY <3>1 DEF Bus!frame, Bus!major, BusInv, BusTyped, FrameSent, NumberIn, BuffersHold, Holds
    <3>3. /\ posted \in [Bus!Minors -> Sendings] /\ Holds(global_buf, posted)
          /\ DOMAIN global_buf = 1 .. Bus!major_buffsize
      BY DEF BusInv, BusTyped, BuffersHold
    <3>4. \A f \in BusFields : Bus!Agrees(f) => Bus!RightOf(f, shown'[f], polled')
      BY <3>1, <3>3, ValueRight
    <3>. QED BY <3>2, <3>4 DEF ShownIsSent, Bus!ShownIsSent
  <2>3. ASSUME UNCHANGED busVars PROVE BusInv' /\ ShownIsSent'
    <3>1. BusInv'
      BY <2>3 DEF busVars, BusInv, BusTyped, FrameSent, NumberIn, BuffersHold, Holds
    <3>2. ShownIsSent'
      BY <2>3 DEF busVars, ShownIsSent, Bus!ShownIsSent
    <3>. QED BY <3>1, <3>2
  <2>4. Bus!Next \/ UNCHANGED busVars
    BY DEF FieldsNext, fieldsVars
  <2>. QED BY <2>1, <2>2, <2>3, <2>4 DEF Bus!Next
<1>. QED BY <1>1, <1>2, PTL DEF FieldsSpec
=============================================================================
