------------------------- MODULE ObjectStore_proofs -------------------------
(***************************************************************************)
(* Theorems about ObjectStore, for any number of objects and packfiles, any*)
(* threshold and any number of crashes and failing writes.                 *)
(***************************************************************************)
EXTENDS ObjectStore, FiniteSetTheorems, WellFoundedInduction, NaturalsInduction, TLAPS

-----------------------------------------------------------------------------
(* The inductive invariant *)

\* An .idx line gives the position of the object it names; a pack with an .idx file is
\* older than the next one.
Placed ==
    \A p \in idxFiles :
        /\ p < nextPack
        /\ \A i \in DOMAIN idx[p] :
             idx[p][i].off = i /\ i \in DOMAIN pack[p] /\ pack[p][i].obj = idx[p][i].obj

Names(p, o) == \E i \in DOMAIN idx[p] : idx[p][i].obj = o

\* An object that the index has in a pack is there by a line that names it, and one that
\* the index does not have is named by no line.
Entered(o) ==
    /\ index[o].kind = "pack" =>
         /\ index[o].pack \in idxFiles
         /\ index[o].off \in DOMAIN idx[index[o].pack]
         /\ idx[index[o].pack][index[o].off].obj = o
         /\ idx[index[o].pack][index[o].off].cut = index[o].cut
    /\ index[o].kind = "missing" => \A p \in idxFiles : ~ Names(p, o)

\* While a pack is being sealed it holds the batch, nothing points into it, and its lines
\* are the first of the batch, all but the one being written complete.
SealGoesOn ==
    pc \in {"createIdx", "line", "size"} =>
        /\ nextPack > 1
        /\ DOMAIN pack[Sealing] = DOMAIN batch
        /\ \A i \in DOMAIN batch :
             /\ index[batch[i]].kind = "loose"
             /\ pack[Sealing][i].obj = batch[i]
             /\ pack[Sealing][i].whole = (loose[batch[i]] = "whole")
        /\ \A o \in Objects : index[o].kind = "pack" => index[o].pack # Sealing
        /\ pc = "createIdx" <=> Sealing \notin idxFiles
        /\ pc # "createIdx" =>
             /\ Len(idx[Sealing]) <= Len(batch)
             /\ \A i \in DOMAIN idx[Sealing] :
                  /\ idx[Sealing][i].obj = batch[i]
                  /\ idx[Sealing][i].cut <=> pc = "size" /\ i = Len(idx[Sealing])
        /\ pc = "size" => Len(idx[Sealing]) > 0

\* Loose files are removed only of objects that the index has in a pack.
RemovesPacked == pc = "remove" => \A i \in DOMAIN batch : index[batch[i]].kind = "pack"

\* The objects that were written, the one that is being sealed included, ...
Written ==
    wrote \cup (IF pc \in {"maybeSeal", "createIdx", "line", "size", "remove"}
                THEN {cur} ELSE {})

\* ... have a whole loose file or a line, and never anything short of whole.
Whole(o) ==
    /\ index[o].kind # "missing"
    /\ loose[o] # "partial"
    /\ loose[o] = "whole" \/ \E p \in idxFiles : Names(p, o)
    /\ index[o].kind = "loose" => loose[o] = "whole"
    /\ \A p \in idxFiles : \A i \in DOMAIN idx[p] : idx[p][i].obj = o => pack[p][i].whole

Unwritten == pc = "data" => index[cur].kind = "missing"

StoreInv ==
    /\ TypeOK /\ Placed /\ SealGoesOn /\ RemovesPacked /\ Unwritten
    /\ \A o \in Objects : Entered(o)
    /\ \A o \in Written : Whole(o)

-----------------------------------------------------------------------------
(* Helpers *)

\* The three kinds of places.
LEMMA PlaceKinds ==
  ASSUME NEW l \in Locations
  PROVE  /\ l.kind \in {"missing", "loose", "pack"}
         /\ l = Missing <=> l.kind = "missing"
         /\ l = Individual <=> l.kind = "loose"
         /\ l.kind = "pack" => l.pack \in Packs /\ l.off \in Nat \ {0} /\ l.cut \in BOOLEAN
  BY DEF Locations, Missing, Individual

\* The places the code makes.
LEMMA PlacesMade ==
  /\ Missing \in Locations /\ Missing.kind = "missing"
  /\ Individual \in Locations /\ Individual.kind = "loose"
  /\ \A p \in Packs : \A l \in [obj : Objects, off : Nat \ {0}, cut : BOOLEAN] :
       /\ Packed(p, l) \in Locations /\ Packed(p, l).kind = "pack"
       /\ Packed(p, l).pack = p /\ Packed(p, l).off = l.off /\ Packed(p, l).cut = l.cut
  BY DEF Locations, Missing, Individual, Packed

\* Counting an event keeps the counters natural numbers.
LEMMA SpendType ==
  ASSUME used \in [Kinds -> Nat], NEW k \in Kinds, Spend(k)
  PROVE  used' \in [Kinds -> Nat]
  BY DEF Spend

\* A set of numbers up to a bound has a greatest one.
LEMMA GreatestNumber ==
  ASSUME NEW n \in Nat, NEW T, T \subseteq 1..n, T # {}
  PROVE  \E i \in T : \A j \in T : j <= i
  <1> DEFINE R == {ss \in Nat \X Nat : ss[1] < ss[2]}
             Left == {n - i : i \in T}
  <1>1. IsWellFoundedOn(R, Nat)
    BY NatLessThanWellFounded, Zenon DEF OpToRel
  <1>2. \A i, j \in Nat : <<j, i>> \in R <=> j < i
    OBVIOUS
  <1>3. Left \subseteq Nat /\ Left # {}
    <2>1. \A i \in T : n - i \in Nat
      OBVIOUS
    <2>2. PICK i \in T : TRUE
      OBVIOUS
    <2>3. n - i \in Left
      OBVIOUS
    <2> QED
      BY <2>1, <2>3, Zenon
  <1> HIDE DEF R
  <1>4. PICK least \in Left : \A j \in Left : <<j, least>> \notin R
    <2> HIDE DEF Left
    <2> QED
      BY <1>1, <1>3, WFMin, Zenon
  <1>5. PICK i \in T : least = n - i
    OBVIOUS
  <1>6. ASSUME NEW j \in T PROVE j <= i
    <2>1. n - j \in Left
      OBVIOUS
    <2> HIDE DEF Left
    <2>2. i \in Nat /\ j \in Nat /\ n - j \in Nat /\ n - i \in Nat
      OBVIOUS
    <2>3. ~ (n - j < n - i)
      BY <1>2, <1>4, <1>5, <2>1, <2>2, Zenon
    <2> QED
      BY <2>2, <2>3
  <1> QED
    BY <1>6

\* Where the index has an object.
LEMMA IndexPlace ==
  ASSUME TypeOK, NEW o \in Objects
  PROVE  /\ index[o].kind \in {"missing", "loose", "pack"}
         /\ index[o] = Missing <=> index[o].kind = "missing"
         /\ index[o] = Individual <=> index[o].kind = "loose"
         /\ index[o].kind = "pack" =>
              index[o].pack \in Packs /\ index[o].off \in Nat \ {0} /\ index[o].cut \in BOOLEAN
  BY PlaceKinds DEF TypeOK

-----------------------------------------------------------------------------
(* The invariant *)

\* An empty store satisfies the invariant.
LEMMA StoreInit == Init => StoreInv
  <1> SUFFICES ASSUME Init
               PROVE  StoreInv
    OBVIOUS
  <1> USE DEF Init
  <1>1. TypeOK
    BY PlacesMade, LimitAssumption, PacksAssumption DEF TypeOK
  <1>2. \A o \in Objects : Entered(o)
    BY PlacesMade DEF Entered
  <1>3. Placed /\ SealGoesOn /\ RemovesPacked /\ Unwritten /\ Written = {}
    BY DEF Placed, SealGoesOn, RemovesPacked, Unwritten, Written
  <1> QED
    BY <1>1, <1>2, <1>3 DEF StoreInv

\* Steps that touch neither the disk nor the index.
LEMMA StoreKept ==
  ASSUME StoreInv,
         \/ \E o \in Objects : SkipKnown(o)
         \/ WriteLooseFails \/ NoSeal \/ SealFails \/ FinishSeal \/ UNCHANGED vars
  PROVE  StoreInv'
  <1>0. UNCHANGED <<diskVars, memVars>>
    BY DEF SkipKnown, WriteLooseFails, NoSeal, SealFails, FinishSeal, vars
  <1>1. TypeOK'
    <2>1. used' \in [Kinds -> Nat]
      BY SpendType DEF StoreInv, TypeOK, SkipKnown, WriteLooseFails, NoSeal, SealFails,
         FinishSeal, vars, Kinds
    <2>2. /\ pc' \in {"idle", "data", "maybeSeal", "createIdx", "line", "size", "remove"}
          /\ cur' \in Objects /\ batch' \in Seq(Objects)
          /\ wrote' \subseteq Objects /\ okd' \subseteq Objects
      BY DEF StoreInv, TypeOK, SkipKnown, WriteLooseFails, NoSeal, SealFails,
         FinishSeal, vars, Return
    <2> QED
      BY <1>0, <2>1, <2>2 DEF StoreInv, TypeOK, diskVars, memVars
  <1>2. Placed' /\ \A o \in Objects : Entered(o)'
    BY <1>0 DEF StoreInv, Placed, Entered, Names, diskVars, memVars
  <1>3. pc' = "idle" \/ UNCHANGED vars
    BY DEF SkipKnown, WriteLooseFails, NoSeal, SealFails, FinishSeal, Return
  <1>4. SealGoesOn' /\ RemovesPacked' /\ Unwritten'
    <2>1. CASE pc' = "idle"
      BY <2>1 DEF SealGoesOn, RemovesPacked, Unwritten
    <2>2. CASE UNCHANGED vars
      BY <2>2 DEF StoreInv, SealGoesOn, RemovesPacked, Unwritten, vars, diskVars, memVars,
         Sealing
    <2> QED
      BY <1>3, <2>1, <2>2
  <1>5. Written' \subseteq Written
    BY DEF Written, SkipKnown, WriteLooseFails, NoSeal, SealFails, FinishSeal, Return, vars
  <1>6. \A o \in Written' : Whole(o)'
    BY <1>0, <1>5 DEF StoreInv, Whole, Names, diskVars, memVars
  <1> QED
    BY <1>1, <1>2, <1>4, <1>6 DEF StoreInv

\* A loose file is made only of an object that was not there.
LEMMA StoreCreate ==
  ASSUME StoreInv, NEW o \in Objects, CreateLoose(o)
  PROVE  StoreInv'
  <1> USE DEF CreateLoose, memVars
  <1>0. index[o].kind = "missing"
    BY IndexPlace DEF StoreInv
  <1>1. TypeOK'
    BY DEF StoreInv, TypeOK
  <1>2. Placed' /\ \A q \in Objects : Entered(q)'
    BY DEF StoreInv, Placed, Entered, Names
  <1>3. SealGoesOn' /\ RemovesPacked' /\ Unwritten'
    BY <1>0 DEF SealGoesOn, RemovesPacked, Unwritten
  <1>4. Written' \subseteq Written \ {o}
    BY <1>0 DEF StoreInv, Written, Whole
  <1>5. \A q \in Written' : Whole(q)'
    BY <1>4 DEF StoreInv, Whole, Names, TypeOK
  <1> QED
    BY <1>1, <1>2, <1>3, <1>5 DEF StoreInv

\* When its data is written the object is in the index, and no line names it.
LEMMA StoreWrite ==
  ASSUME StoreInv, WriteLoose
  PROVE  StoreInv'
  <1> USE DEF WriteLoose
  <1>0. cur \in Objects /\ index[cur].kind = "missing" /\ index'[cur].kind = "loose"
    BY PlacesMade DEF StoreInv, TypeOK, Unwritten
  <1>1. TypeOK'
    BY PlacesMade DEF StoreInv, TypeOK
  <1>2. Placed'
    BY DEF StoreInv, Placed
  <1>3. ASSUME NEW o \in Objects
        PROVE  Entered(o)'
    <2>1. CASE o = cur
      BY <1>0, <2>1 DEF Entered
    <2>2. CASE o # cur
      <3>1. index'[o] = index[o]
        BY <2>2 DEF StoreInv, TypeOK
      <3> QED
        BY <3>1 DEF StoreInv, Entered, Names
    <2> QED
      BY <2>1, <2>2
  <1>4. SealGoesOn' /\ RemovesPacked' /\ Unwritten'
    BY DEF SealGoesOn, RemovesPacked, Unwritten
  <1>5. ASSUME NEW o \in Written'
        PROVE  Whole(o)'
    <2>1. CASE o = cur
      <3>1. \A p \in idxFiles : ~ Names(p, o)
        BY <1>0, <2>1 DEF StoreInv, Entered
      <3>2. loose'[o] = "whole"
        BY <1>0, <2>1 DEF StoreInv, TypeOK
      <3> QED
        BY <1>0, <2>1, <3>1, <3>2 DEF Whole, Names
    <2>2. CASE o # cur
      <3>1. o \in Written /\ o \in Objects
        BY <2>2 DEF Written, StoreInv, TypeOK
      <3>2. index'[o] = index[o] /\ loose'[o] = loose[o]
        BY <2>2, <3>1 DEF StoreInv, TypeOK
      <3> QED
        BY <3>1, <3>2 DEF StoreInv, Whole, Names
    <2> QED
      BY <2>1, <2>2
  <1> QED
    BY <1>1, <1>2, <1>3, <1>4, <1>5 DEF StoreInv

\* What a sequence is.
LEMMA IsSequence ==
  ASSUME NEW S
  PROVE  /\ <<>> \in Seq(S)
         /\ \A n \in Nat : \A f \in [1..n -> S] : f \in Seq(S)
  OBVIOUS

\* The sealing of a pack begins: no line leads into it, and the lines there are lead
\* into older packs.
LEMMA StoreSeal ==
  ASSUME StoreInv, SealPack
  PROVE  StoreInv'
  <1>0. PICK order \in [1..Cardinality(LooseObjects) -> LooseObjects] :
          /\ batch' = order
          /\ pack' = [pack EXCEPT ![nextPack] =
                       [i \in DOMAIN order |->
                          [obj |-> order[i], whole |-> loose[order[i]] = "whole"]]]
    BY Zenon DEF SealPack
  <1>1. /\ pc = "maybeSeal" /\ pc' = "createIdx"
        /\ nextPack \in Packs /\ nextPack \in Nat /\ nextPack' = nextPack + 1
        /\ UNCHANGED <<loose, idx, idxFiles, index, cur, used, wrote, okd>>
    BY DEF SealPack, Packs
  <1>2. Sealing' = nextPack
    BY <1>1 DEF Sealing
  <1>3. batch' \in Seq(Objects) /\ DOMAIN order = 1..Cardinality(LooseObjects)
        /\ Cardinality(LooseObjects) \in Nat
    <2>1. Cardinality(LooseObjects) \in Nat
      BY ObjectsAssumption, FS_Subset, FS_CardinalityType DEF LooseObjects
    <2>2. order \in [1..Cardinality(LooseObjects) -> Objects]
      BY DEF LooseObjects
    <2>3. order \in Seq(Objects)
      BY <2>1, <2>2
    <2> QED
      BY <1>0, <2>1, <2>3
  <1>4. \A i \in DOMAIN order : order[i] \in Objects /\ index[order[i]].kind = "loose"
    BY IndexPlace DEF LooseObjects, StoreInv
  <1>5. pack'[nextPack] = [i \in DOMAIN order |->
                            [obj |-> order[i], whole |-> loose[order[i]] = "whole"]]
    BY <1>0, <1>1 DEF StoreInv, TypeOK
  <1>6. pack'[nextPack] \in Seq([obj : Objects, whole : BOOLEAN])
    <2>1. pack'[nextPack] \in [1..Cardinality(LooseObjects) -> [obj : Objects, whole : BOOLEAN]]
      BY <1>3, <1>4, <1>5
    <2> QED
      BY <1>3, <2>1, IsSequence
  <1>7. \A p \in Packs : p # nextPack => pack'[p] = pack[p]
    BY <1>0, <1>1 DEF StoreInv, TypeOK
  <1>8. nextPack \notin idxFiles
    BY <1>1 DEF StoreInv, Placed
  <1>9. TypeOK'
    <2>1. pack' \in [Packs -> Seq([obj : Objects, whole : BOOLEAN])]
      <3>1. pack' = [pack EXCEPT ![nextPack] = pack'[nextPack]]
        BY <1>0, <1>5
      <3> QED
        BY <3>1, <1>6 DEF StoreInv, TypeOK
    <2>2. nextPack' \in 1..(MaxPacks + 1)
      BY <1>1, PacksAssumption DEF Packs
    <2> QED
      BY <1>1, <1>3, <2>1, <2>2 DEF StoreInv, TypeOK
  <1>10. Placed'
    <2>1. \A p \in idxFiles : pack'[p] = pack[p]
      BY <1>7, <1>8 DEF StoreInv, TypeOK
    <2>2. Placed /\ nextPack \in Nat /\ idxFiles \subseteq Nat
      BY <1>1 DEF StoreInv, TypeOK, Packs
    <2>3. \A p \in idxFiles : p < nextPack'
      BY <1>1, <2>2 DEF Placed
    <2> QED
      BY <1>1, <2>1, <2>2, <2>3 DEF Placed
  <1>11. \A o \in Objects : Entered(o)'
    BY <1>1 DEF StoreInv, Entered, Names
  <1>12. SealGoesOn'
    <2>1. \A o \in Objects : index[o].kind = "pack" => index[o].pack # nextPack
      BY <1>8 DEF StoreInv, Entered
    <2>2. DOMAIN pack'[nextPack] = DOMAIN order
      BY <1>5
    <2>3. \A i \in DOMAIN order : /\ pack'[nextPack][i].obj = order[i]
                                  /\ pack'[nextPack][i].whole = (loose[order[i]] = "whole")
      BY <1>5
    <2>4. nextPack' > 1
      BY <1>1 DEF Packs
    <2> QED
      BY <1>0, <1>1, <1>2, <1>4, <1>8, <2>1, <2>2, <2>3, <2>4 DEF SealGoesOn
  <1>13. RemovesPacked' /\ Unwritten'
    BY <1>1 DEF RemovesPacked, Unwritten
  <1>14. Written' = Written
    BY <1>1 DEF Written
  <1>15. ASSUME NEW o \in Written
         PROVE  Whole(o)'
    <2>1. \A p \in idxFiles : pack'[p] = pack[p]
      BY <1>7, <1>8 DEF StoreInv, TypeOK
    <2>2. Whole(o)
      BY DEF StoreInv
    <2> QED
      BY <1>1, <2>1, <2>2 DEF Whole, Names
  <1> QED
    BY <1>9, <1>10, <1>11, <1>12, <1>13, <1>14, <1>15 DEF StoreInv

\* What holds of the pack being sealed.
LEMMA Seals ==
  ASSUME StoreInv, pc \in {"createIdx", "line", "size"}
  PROVE  /\ Sealing \in Packs /\ Sealing \in Nat /\ Sealing < nextPack
         /\ idx[Sealing] \in Seq([obj : Objects, off : Nat \ {0}, cut : BOOLEAN])
         /\ \A i \in DOMAIN batch : batch[i] \in Objects
         /\ Len(batch) \in Nat /\ DOMAIN batch = 1..Len(batch)
  <1>1. nextPack \in 1..(MaxPacks + 1) /\ nextPack > 1
    BY DEF StoreInv, TypeOK, SealGoesOn
  <1>2. Sealing \in Packs /\ Sealing \in Nat /\ Sealing < nextPack
    BY <1>1, PacksAssumption DEF Packs, Sealing
  <1>3. idx[Sealing] \in Seq([obj : Objects, off : Nat \ {0}, cut : BOOLEAN])
    BY <1>2 DEF StoreInv, TypeOK
  <1>4. batch \in Seq(Objects)
    BY DEF StoreInv, TypeOK
  <1>5. /\ \A i \in DOMAIN batch : batch[i] \in Objects
        /\ Len(batch) \in Nat /\ DOMAIN batch = 1..Len(batch)
    BY <1>4
  <1> QED
    BY <1>2, <1>3, <1>5

\* The .idx file is made, without a line.
LEMMA StoreCreateIdx ==
  ASSUME StoreInv, CreateIdx
  PROVE  StoreInv'
  <1> USE DEF CreateIdx, memVars
  <1>0. /\ Sealing \in Packs /\ Sealing \in Nat /\ Sealing < nextPack /\ Sealing' = Sealing
        /\ Len(batch) \in Nat
    BY Seals DEF Sealing
  <1>1. idx'[Sealing] = <<>> /\ \A p \in Packs : p # Sealing => idx'[p] = idx[p]
    BY <1>0 DEF StoreInv, TypeOK
  <1>2. Sealing \notin idxFiles
    BY DEF StoreInv, SealGoesOn
  <1>3. TypeOK'
    <2>1. idx' \in [Packs -> Seq([obj : Objects, off : Nat \ {0}, cut : BOOLEAN])]
      <3> DEFINE Lines == Seq([obj : Objects, off : Nat \ {0}, cut : BOOLEAN])
      <3>1. idx \in [Packs -> Lines] /\ <<>> \in Lines
        BY IsSequence, Zenon DEF StoreInv, TypeOK
      <3> HIDE DEF Lines
      <3>2. idx' \in [Packs -> Lines]
        BY <3>1
      <3> QED
        BY <3>2 DEF Lines
    <2> QED
      BY <1>0, <2>1 DEF StoreInv, TypeOK
  <1>4. Placed'
    BY <1>0, <1>1 DEF StoreInv, TypeOK, Placed
  <1>5. ASSUME NEW o \in Objects
        PROVE  Entered(o)'
    BY <1>0, <1>1, <1>2 DEF StoreInv, TypeOK, Entered, Names
  <1>6. SealGoesOn'
    BY <1>0, <1>1 DEF StoreInv, SealGoesOn
  <1>7. RemovesPacked' /\ Unwritten' /\ Written' = Written
    BY DEF RemovesPacked, Unwritten, Written
  <1>8. ASSUME NEW o \in Written
        PROVE  Whole(o)'
    BY <1>0, <1>1, <1>2 DEF StoreInv, TypeOK, Whole, Names
  <1> QED
    BY <1>3, <1>4, <1>5, <1>6, <1>7, <1>8 DEF StoreInv

\* When a line is written or completed, all other lines stay as they are, and it names an
\* object of the batch at its position.
LEMMA StoreLine ==
  ASSUME StoreInv, pc \in {"line", "size"}, pc' \in {"line", "size"},
         UNCHANGED <<loose, pack, idxFiles, memVars, cur, batch, used, wrote, okd>>,
         idx' \in [Packs -> Seq([obj : Objects, off : Nat \ {0}, cut : BOOLEAN])],
         \A p \in Packs : p # Sealing => idx'[p] = idx[p],
         Len(idx'[Sealing]) <= Len(batch), Len(idx[Sealing]) <= Len(idx'[Sealing]),
         pc' = "size" => Len(idx'[Sealing]) > 0,
         \A i \in DOMAIN idx'[Sealing] :
            /\ idx'[Sealing][i].obj = batch[i] /\ idx'[Sealing][i].off = i
            /\ idx'[Sealing][i].cut <=> pc' = "size" /\ i = Len(idx'[Sealing])
  PROVE  StoreInv'
  <1> USE DEF memVars
  <1>0. /\ Sealing \in Packs /\ Sealing \in Nat /\ Sealing < nextPack /\ Sealing' = Sealing
        /\ \A i \in DOMAIN batch : batch[i] \in Objects
        /\ Len(batch) \in Nat /\ DOMAIN batch = 1..Len(batch)
    BY Seals DEF Sealing
  <1>1. /\ nextPack > 1 /\ DOMAIN pack[Sealing] = DOMAIN batch
        /\ \A i \in DOMAIN batch : /\ index[batch[i]].kind = "loose"
                                   /\ pack[Sealing][i].obj = batch[i]
                                   /\ pack[Sealing][i].whole = (loose[batch[i]] = "whole")
        /\ \A o \in Objects : index[o].kind = "pack" => index[o].pack # Sealing
        /\ Sealing \in idxFiles
    BY DEF StoreInv, SealGoesOn
  <1>2. DOMAIN idx'[Sealing] \subseteq DOMAIN batch
    <2>1. idx'[Sealing] \in Seq([obj : Objects, off : Nat \ {0}, cut : BOOLEAN])
      BY <1>0
    <2> QED
      BY <1>0, <2>1
  <1>3. TypeOK'
    BY DEF StoreInv, TypeOK
  <1>4. Placed'
    <2>1. ASSUME NEW p \in idxFiles
          PROVE  \A i \in DOMAIN idx'[p] : idx'[p][i].off = i /\ i \in DOMAIN pack[p]
                                           /\ pack[p][i].obj = idx'[p][i].obj
      <3>1. CASE p = Sealing
        BY <1>1, <1>2, <3>1
      <3>2. CASE p # Sealing
        BY <3>2 DEF StoreInv, Placed, TypeOK
      <3> QED
        BY <3>1, <3>2
    <2> QED
      BY <2>1 DEF StoreInv, Placed
  <1>5. ASSUME NEW o \in Objects
        PROVE  Entered(o)'
    <2>1. CASE index[o].kind = "pack"
      <3>1. index[o].pack \in Packs /\ index[o].pack # Sealing
        BY <1>1, <2>1, IndexPlace DEF StoreInv
      <3>2. idx'[index[o].pack] = idx[index[o].pack]
        BY <3>1
      <3>3. Entered(o)
        BY DEF StoreInv
      <3> QED
        BY <2>1, <3>2, <3>3 DEF Entered
    <2>2. CASE index[o].kind = "missing"
      <3>1. ASSUME NEW p \in idxFiles, NEW i \in DOMAIN idx'[p], idx'[p][i].obj = o
            PROVE  FALSE
        <4>1. CASE p = Sealing
          BY <1>1, <1>2, <2>2, <3>1, <4>1
        <4>2. CASE p # Sealing
          BY <2>2, <3>1, <4>2 DEF StoreInv, Entered, Names, TypeOK
        <4> QED
          BY <4>1, <4>2
      <3> QED
        BY <2>2, <3>1 DEF Entered, Names
    <2> QED
      BY <2>1, <2>2 DEF Entered
  <1>6. SealGoesOn'
    BY <1>0, <1>1 DEF SealGoesOn
  <1>7. RemovesPacked' /\ Unwritten' /\ Written' = Written
    BY DEF RemovesPacked, Unwritten, Written
  <1>8. ASSUME NEW o \in Written
        PROVE  Whole(o)'
    <2>1. Whole(o) /\ o \in Objects
      BY DEF StoreInv, Written, TypeOK
    <2>2. ASSUME NEW p \in idxFiles, NEW i \in DOMAIN idx'[p], idx'[p][i].obj = o
          PROVE  pack[p][i].whole
      <3>1. CASE p = Sealing
        <4>1. i \in DOMAIN batch /\ batch[i] = o
          BY <1>2, <2>2, <3>1
        <4>2. loose[o] = "whole"
          BY <1>1, <2>1, <4>1 DEF Whole
        <4>3. pack[Sealing][i].whole = (loose[batch[i]] = "whole")
          BY <1>1, <4>1
        <4> QED
          BY <3>1, <4>1, <4>2, <4>3, Zenon
      <3>2. CASE p # Sealing
        BY <2>1, <2>2, <3>2 DEF StoreInv, Whole, TypeOK
      <3> QED
        BY <3>1, <3>2
    <2>3. ASSUME NEW p \in idxFiles, Names(p, o)
          PROVE  Names(p, o)'
      <3>1. CASE p = Sealing
        <4>1. PICK i \in DOMAIN idx[p] : idx[p][i].obj = o
          BY <2>3 DEF Names
        <4>2. i \in DOMAIN idx'[p] /\ idx[p][i].obj = batch[i]
          <5>1. /\ idx[p] \in Seq([obj : Objects, off : Nat \ {0}, cut : BOOLEAN])
                /\ idx'[p] \in Seq([obj : Objects, off : Nat \ {0}, cut : BOOLEAN])
            BY <1>0, <3>1 DEF StoreInv, TypeOK
          <5> QED
            BY <5>1, <3>1 DEF StoreInv, SealGoesOn
        <4> QED
          BY <3>1, <4>1, <4>2 DEF Names
      <3>2. CASE p # Sealing
        BY <2>3, <3>2 DEF StoreInv, Names, TypeOK
      <3> QED
        BY <3>1, <3>2
    <2> QED
      BY <2>1, <2>2, <2>3 DEF Whole
  <1> QED
    BY <1>3, <1>4, <1>5, <1>6, <1>7, <1>8 DEF StoreInv

\* The next object of the batch gets its line, up to the size ...
LEMMA StoreIdxLine ==
  ASSUME StoreInv, WriteIdxLine
  PROVE  StoreInv'
  <1> DEFINE old == idx[Sealing]
             line == [obj |-> batch[Len(old) + 1], off |-> Len(old) + 1, cut |-> TRUE]
             Line == [obj : Objects, off : Nat \ {0}, cut : BOOLEAN]
  <1>1. /\ pc = "line" /\ pc' = "size" /\ Len(old) < Len(batch)
        /\ idx' = [idx EXCEPT ![Sealing] = Append(old, line)]
        /\ UNCHANGED <<loose, pack, idxFiles, memVars, cur, batch, used, wrote, okd>>
    BY DEF WriteIdxLine
  <1>2. /\ Sealing \in Packs /\ old \in Seq(Line)
        /\ \A i \in DOMAIN batch : batch[i] \in Objects
        /\ Len(batch) \in Nat /\ DOMAIN batch = 1..Len(batch)
    BY <1>1, Seals
  <1>3. idx \in [Packs -> Seq(Line)]
    BY DEF StoreInv, TypeOK
  <1>4. \A i \in DOMAIN old : old[i].obj = batch[i] /\ old[i].off = i /\ ~ old[i].cut
    BY <1>1 DEF StoreInv, SealGoesOn, Placed
  <1> HIDE DEF Line
  <1>5. line \in Line
    <2>1. Len(old) + 1 \in DOMAIN batch /\ Len(old) + 1 \in Nat \ {0}
      BY <1>1, <1>2
    <2> QED
      BY <1>2, <2>1 DEF Line
  <1> HIDE DEF line
  <1>6. /\ Append(old, line) \in Seq(Line) /\ Len(Append(old, line)) = Len(old) + 1
        /\ DOMAIN Append(old, line) = 1..(Len(old) + 1)
        /\ Append(old, line)[Len(old) + 1] = line
        /\ \A i \in 1..Len(old) : Append(old, line)[i] = old[i]
        /\ Len(old) \in Nat /\ DOMAIN old = 1..Len(old)
    BY <1>2, <1>5
  <1>7. idx'[Sealing] = Append(old, line) /\ idx' \in [Packs -> Seq(Line)]
        /\ \A p \in Packs : p # Sealing => idx'[p] = idx[p]
    BY <1>1, <1>2, <1>3, <1>6
  <1>8. line.obj = batch[Len(old) + 1] /\ line.off = Len(old) + 1 /\ line.cut = TRUE
    BY DEF line
  <1> HIDE DEF old
  <1>9. \A i \in DOMAIN idx'[Sealing] :
            /\ idx'[Sealing][i].obj = batch[i] /\ idx'[Sealing][i].off = i
            /\ idx'[Sealing][i].cut <=> pc' = "size" /\ i = Len(idx'[Sealing])
    <2> SUFFICES ASSUME NEW i \in 1..(Len(old) + 1)
                 PROVE  /\ Append(old, line)[i].obj = batch[i]
                        /\ Append(old, line)[i].off = i
                        /\ Append(old, line)[i].cut <=> i = Len(old) + 1
      BY <1>1, <1>6, <1>7
    <2>1. CASE i = Len(old) + 1
      BY <1>6, <1>8, <2>1
    <2>2. CASE i # Len(old) + 1
      <3>1. i \in 1..Len(old)
        BY <1>6, <2>2
      <3> QED
        BY <1>4, <1>6, <2>2, <3>1
    <2> QED
      BY <2>1, <2>2
  <1>10. Len(idx'[Sealing]) <= Len(batch) /\ Len(idx[Sealing]) <= Len(idx'[Sealing])
         /\ Len(idx'[Sealing]) > 0
    BY <1>1, <1>2, <1>6, <1>7 DEF old
  <1> QED
    BY <1>1, <1>7, <1>9, <1>10, StoreLine DEF Line

\* ... and the size.
LEMMA StoreIdxSize ==
  ASSUME StoreInv, WriteIdxSize
  PROVE  StoreInv'
  <1> DEFINE old == idx[Sealing]
             new == [old EXCEPT ![Len(old)].cut = FALSE]
             Line == [obj : Objects, off : Nat \ {0}, cut : BOOLEAN]
  <1>1. /\ pc = "size" /\ pc' = "line"
        /\ idx' = [idx EXCEPT ![Sealing] = new]
        /\ UNCHANGED <<loose, pack, idxFiles, memVars, cur, batch, used, wrote, okd>>
    BY DEF WriteIdxSize
  <1>2. Sealing \in Packs /\ old \in Seq(Line)
    BY <1>1, Seals
  <1>3. idx \in [Packs -> Seq(Line)]
    BY DEF StoreInv, TypeOK
  <1>4. /\ Len(old) > 0 /\ Len(old) <= Len(batch)
        /\ \A i \in DOMAIN old : /\ old[i].obj = batch[i] /\ old[i].off = i
                                 /\ old[i].cut <=> i = Len(old)
    BY <1>1 DEF StoreInv, SealGoesOn, Placed
  <1> HIDE DEF old
  <1>5. /\ new \in Seq(Line) /\ Len(new) = Len(old) /\ DOMAIN new = DOMAIN old
        /\ \A i \in DOMAIN old : /\ new[i].obj = old[i].obj /\ new[i].off = old[i].off
                                 /\ new[i].cut <=> old[i].cut /\ i # Len(old)
    <2>1. /\ Len(old) \in Nat /\ DOMAIN old = 1..Len(old)
          /\ old \in [1..Len(old) -> Line] /\ Len(old) \in DOMAIN old
      <3>1. Len(old) \in Nat /\ DOMAIN old = 1..Len(old) /\ old \in [1..Len(old) -> Line]
        <4> HIDE DEF Line
        <4> QED
          BY <1>2
      <3> QED
        BY <1>4, <3>1
    <2>2. \A i \in DOMAIN old : /\ new[i] \in Line
                                /\ new[i].obj = old[i].obj /\ new[i].off = old[i].off
                                /\ i # Len(old) => new[i].cut = old[i].cut
                                /\ i = Len(old) => new[i].cut = FALSE
      BY <2>1
    <2>3. DOMAIN new = DOMAIN old
      OBVIOUS
    <2>4. new \in [1..Len(old) -> Line]
      BY <2>1, <2>2, <2>3
    <2>5. new \in Seq(Line)
      BY <2>1, <2>4, IsSequence
    <2>6. Len(new) = Len(old)
      BY <2>1, <2>3, <2>5
    <2>7. \A i \in DOMAIN old : new[i].cut <=> old[i].cut /\ i # Len(old)
      BY <2>2
    <2> QED
      BY <2>2, <2>3, <2>5, <2>6, <2>7
  <1> HIDE DEF new, Line
  <1>6. idx'[Sealing] = new /\ idx' \in [Packs -> Seq(Line)]
        /\ \A p \in Packs : p # Sealing => idx'[p] = idx[p]
    BY <1>1, <1>2, <1>3, <1>5
  <1>7. \A i \in DOMAIN idx'[Sealing] :
            /\ idx'[Sealing][i].obj = batch[i] /\ idx'[Sealing][i].off = i
            /\ idx'[Sealing][i].cut <=> pc' = "size" /\ i = Len(idx'[Sealing])
    BY <1>1, <1>4, <1>5, <1>6
  <1>8. Len(idx'[Sealing]) <= Len(batch) /\ Len(idx[Sealing]) <= Len(idx'[Sealing])
    <2>1. Len(old) \in Nat
      BY <1>2
    <2> QED
      BY <1>4, <1>5, <1>6, <2>1 DEF old
  <1> QED
    BY <1>1, <1>6, <1>7, <1>8, StoreLine DEF Line

\* The lines of a pack that is complete, and what the index makes of them.
LEMMA SwitchedLines ==
  ASSUME StoreInv, SwitchIndex
  PROVE  /\ DOMAIN idx[Sealing] = DOMAIN batch
         /\ \A i \in DOMAIN batch : /\ idx[Sealing][i].obj = batch[i]
                                     /\ idx[Sealing][i].off = i /\ ~ idx[Sealing][i].cut
  <1>1. pc = "line" /\ Len(idx[Sealing]) = Len(batch)
    BY DEF SwitchIndex
  <1>2. DOMAIN idx[Sealing] = DOMAIN batch
    BY <1>1, Seals
  <1> QED
    BY <1>1, <1>2 DEF StoreInv, SealGoesOn, Placed

\* The index takes the line of the object.
LEMMA SwitchedTo ==
  ASSUME StoreInv, SwitchIndex, NEW o \in Objects, \E i \in DOMAIN batch : batch[i] = o
  PROVE  \E j \in DOMAIN batch : /\ idx[Sealing][j].obj = o
                                 /\ index'[o] = Packed(Sealing, idx[Sealing][j])
  <1> DEFINE Lines == {idx[Sealing][i] : i \in DOMAIN batch}
             l == CHOOSE l \in Lines : l.obj = o
  <1>1. index'[o] = Packed(Sealing, l)
    BY DEF SwitchIndex
  <1>2. \E k \in Lines : k.obj = o
    BY SwitchedLines
  <1>3. l \in Lines /\ l.obj = o
    <2> HIDE DEF Lines
    <2> QED
      BY <1>2
  <1> HIDE DEF l
  <1>4. PICK j \in DOMAIN batch : l = idx[Sealing][j]
    BY <1>3
  <1> QED
    BY <1>1, <1>3, <1>4

\* The index switches to lines that are complete and name its objects.
LEMMA StoreSwitch ==
  ASSUME StoreInv, SwitchIndex
  PROVE  StoreInv'
  <1> DEFINE Batched(o) == \E i \in DOMAIN batch : batch[i] = o
             Line == [obj : Objects, off : Nat \ {0}, cut : BOOLEAN]
  <1>1. /\ pc = "line" /\ pc' = "remove" /\ Len(idx[Sealing]) = Len(batch)
        /\ UNCHANGED <<loose, pack, idx, idxFiles, nextPack, cur, batch, used, wrote, okd>>
    BY DEF SwitchIndex, diskVars
  <1>2. /\ Sealing \in Packs /\ idx[Sealing] \in Seq(Line)
        /\ \A i \in DOMAIN batch : batch[i] \in Objects
        /\ DOMAIN batch = 1..Len(batch)
    BY <1>1, Seals
  <1>3. DOMAIN idx[Sealing] = DOMAIN batch
    BY SwitchedLines
  <1>4. \A i \in DOMAIN batch : /\ idx[Sealing][i].obj = batch[i] /\ idx[Sealing][i].off = i
                                /\ ~ idx[Sealing][i].cut
    BY SwitchedLines
  <1>5. Sealing \in idxFiles
    BY <1>1 DEF StoreInv, SealGoesOn
  <1>6. ASSUME NEW o \in Objects, ~ Batched(o)
        PROVE  index'[o] = index[o]
    BY <1>6 DEF SwitchIndex
  <1>7. ASSUME NEW o \in Objects, Batched(o)
        PROVE  \E j \in DOMAIN batch : /\ idx[Sealing][j].obj = o
                                       /\ index'[o] = Packed(Sealing, idx[Sealing][j])
    BY <1>7, SwitchedTo
  <1>8. ASSUME NEW o \in Objects, Batched(o)
        PROVE  /\ index'[o] \in Locations /\ index'[o].kind = "pack"
               /\ index'[o].pack = Sealing /\ index'[o].off \in DOMAIN idx[Sealing]
               /\ idx[Sealing][index'[o].off].obj = o
               /\ idx[Sealing][index'[o].off].cut = index'[o].cut
    <2>1. PICK j \in DOMAIN batch : /\ idx[Sealing][j].obj = o
                                    /\ index'[o] = Packed(Sealing, idx[Sealing][j])
      BY <1>7, <1>8
    <2>2. idx[Sealing][j] \in Line
      <3> HIDE DEF Line
      <3> QED
        BY <1>2, <1>3
    <2>3. /\ index'[o] \in Locations /\ index'[o].kind = "pack"
          /\ index'[o].pack = Sealing /\ index'[o].off = idx[Sealing][j].off
          /\ index'[o].cut = idx[Sealing][j].cut
      BY <1>2, <2>1, <2>2, PlacesMade
    <2> QED
      BY <1>3, <1>4, <2>1, <2>3
  <1>9. TypeOK'
    <2>1. \A o \in Objects : index'[o] \in Locations
      BY <1>6, <1>8 DEF StoreInv, TypeOK
    <2> DEFINE Place(o) ==
                 IF \E i \in DOMAIN batch : batch[i] = o
                 THEN Packed(Sealing, CHOOSE l \in {idx[Sealing][i] : i \in DOMAIN batch} :
                                          l.obj = o)
                 ELSE index[o]
    <2>2. index' = [o \in Objects |-> Place(o)]
      BY DEF SwitchIndex
    <2> HIDE DEF Place
    <2>3. index' \in [Objects -> Locations]
      BY <2>1, <2>2
    <2> QED
      BY <1>1, <2>3 DEF StoreInv, TypeOK
  <1>10. Placed'
    BY <1>1 DEF StoreInv, Placed
  <1>11. ASSUME NEW o \in Objects
         PROVE  Entered(o)'
    <2>1. CASE Batched(o)
      BY <1>1, <1>5, <1>8, <2>1 DEF Entered
    <2>2. CASE ~ Batched(o)
      BY <1>1, <1>6, <2>2 DEF StoreInv, Entered, Names
    <2> QED
      BY <2>1, <2>2
  <1>12. SealGoesOn' /\ RemovesPacked' /\ Unwritten'
    <2>1. \A i \in DOMAIN batch : index'[batch[i]].kind = "pack"
      BY <1>2, <1>8
    <2> QED
      BY <1>1, <2>1 DEF SealGoesOn, RemovesPacked, Unwritten
  <1>13. Written' = Written
    BY <1>1 DEF Written
  <1>14. ASSUME NEW o \in Written
         PROVE  Whole(o)'
    <2>1. Whole(o) /\ o \in Objects
      BY DEF StoreInv, Written, TypeOK
    <2>2. CASE Batched(o)
      BY <1>1, <1>8, <2>1, <2>2 DEF Whole, Names
    <2>3. CASE ~ Batched(o)
      BY <1>1, <1>6, <2>1, <2>3 DEF Whole, Names
    <2> QED
      BY <2>2, <2>3
  <1> QED
    BY <1>9, <1>10, <1>11, <1>12, <1>13, <1>14 DEF StoreInv

\* A loose file goes only when a line of a pack names its object.
LEMMA StoreRemove ==
  ASSUME StoreInv, RemoveLoose
  PROVE  StoreInv'
  <1> USE DEF memVars
  <1>1. PICK i \in DOMAIN batch : loose' = [loose EXCEPT ![batch[i]] = "none"]
    BY DEF RemoveLoose
  <1>2. /\ pc = "remove"
        /\ UNCHANGED <<pack, idx, idxFiles, memVars, pc, cur, batch, used, wrote, okd>>
    BY DEF RemoveLoose
  <1>3. batch[i] \in Objects /\ index[batch[i]].kind = "pack"
    BY <1>2 DEF StoreInv, RemovesPacked, TypeOK
  <1>4. TypeOK'
    BY <1>1, <1>2 DEF StoreInv, TypeOK
  <1>5. Placed' /\ \A o \in Objects : Entered(o)'
    BY <1>2 DEF StoreInv, Placed, Entered, Names
  <1>6. SealGoesOn' /\ RemovesPacked' /\ Unwritten' /\ Written' = Written
    BY <1>2 DEF StoreInv, SealGoesOn, RemovesPacked, Unwritten, Written
  <1>7. ASSUME NEW o \in Written
        PROVE  Whole(o)'
    <2>1. Whole(o) /\ o \in Objects
      BY DEF StoreInv, Written, TypeOK
    <2>2. CASE o = batch[i]
      <3>1. \E p \in idxFiles : Names(p, o)
        BY <1>3, <2>2 DEF StoreInv, Entered, Names
      <3>2. loose'[o] = "none"
        BY <1>1, <1>3, <2>2 DEF StoreInv, TypeOK
      <3> QED
        BY <1>2, <1>3, <2>1, <2>2, <3>1, <3>2 DEF Whole, Names
    <2>3. CASE o # batch[i]
      <3>1. loose'[o] = loose[o]
        BY <1>1, <2>1, <2>3 DEF StoreInv, TypeOK
      <3> QED
        BY <1>2, <2>1, <3>1 DEF Whole, Names
    <2> QED
      BY <2>2, <2>3
  <1> QED
    BY <1>4, <1>5, <1>6, <1>7 DEF StoreInv

\* The line a restart finds for an object is one that names it, if there is one.
LEMMA LineFound ==
  ASSUME StoreInv, NEW order \in Orders, NEW o \in Objects
  PROVE  /\ (\A p \in idxFiles : ~ Names(p, o)) => LastLine(order, o) = Missing
         /\ (\E p \in idxFiles : Names(p, o)) =>
              \E p \in idxFiles : \E l \in DOMAIN idx[p] :
                 idx[p][l].obj = o /\ LastLine(order, o) = Packed(p, idx[p][l])
  <1> DEFINE listing == {i \in DOMAIN order :
                           order[i] \in idxFiles /\ \E l \in DOMAIN idx[order[i]] :
                                                      idx[order[i]][l].obj = o}
             last == CHOOSE i \in listing : \A j \in listing : j <= i
             p == order[last]
             line == CHOOSE l \in DOMAIN idx[p] : idx[p][l].obj = o
  <1>1. LastLine(order, o) = IF listing = {} THEN Missing ELSE Packed(p, idx[p][line])
    BY DEF LastLine
  <1>2. /\ DOMAIN order = Packs /\ \A q \in Packs : \E i \in Packs : order[i] = q
        /\ idxFiles \subseteq Packs
    BY DEF Orders, StoreInv, TypeOK
  <1>3. \A i \in listing : order[i] \in idxFiles /\ Names(order[i], o)
    BY DEF Names
  <1>4. (\E q \in idxFiles : Names(q, o)) => listing # {}
    <2> SUFFICES ASSUME NEW q \in idxFiles, Names(q, o)
                 PROVE  listing # {}
      OBVIOUS
    <2>1. PICK i \in Packs : order[i] = q
      BY <1>2
    <2> QED
      BY <1>2, <2>1 DEF Names
  <1>5. CASE listing = {}
    BY <1>1, <1>4, <1>5
  <1>6. CASE listing # {}
    <2>1. listing \subseteq 1..MaxPacks
      BY <1>2 DEF Packs
    <2>2. \E i \in listing : \A j \in listing : j <= i
      <3> HIDE DEF listing
      <3> QED
        BY <1>6, <2>1, PacksAssumption, GreatestNumber
    <2>3. last \in listing
      <3> HIDE DEF listing
      <3> QED
        BY <2>2
    <2>4. p \in idxFiles /\ Names(p, o)
      <3> HIDE DEF listing, last
      <3> QED
        BY <1>3, <2>3
    <2>5. LastLine(order, o) = Packed(p, idx[p][line])
      <3> HIDE DEF listing, p, line
      <3> QED
        BY <1>1, <1>6
    <2> HIDE DEF p
    <2>6. line \in DOMAIN idx[p] /\ idx[p][line].obj = o
      BY <2>4 DEF Names
    <2> HIDE DEF line
    <2> QED
      BY <2>4, <2>5, <2>6
  <1> QED
    BY <1>5, <1>6

\* A restart leaves the disk alone, takes ids behind the packs that have an .idx file,
\* and finds whatever has a line or a loose file.
LEMMA StoreCrash ==
  ASSUME StoreInv, Crash
  PROVE  StoreInv'
  <1> DEFINE Line == [obj : Objects, off : Nat \ {0}, cut : BOOLEAN]
  <1>1. /\ pc' = "idle" /\ batch' = <<>>
        /\ UNCHANGED <<loose, pack, idx, idxFiles, cur, wrote, okd>>
    BY DEF Crash, diskVars
  <1>2. PICK order \in Orders :
          index' = [o \in Objects |->
                      LET packed == LastLine(order, o) IN
                      IF packed # Missing THEN packed
                      ELSE IF loose[o] # "none" THEN Individual
                      ELSE Missing]
    BY Zenon DEF Crash, LoadIndex
  <1>3. ASSUME NEW o \in Objects, NEW p \in idxFiles, Names(p, o)
        PROVE  \E q \in idxFiles : \E l \in DOMAIN idx[q] :
                  idx[q][l].obj = o /\ index'[o] = Packed(q, idx[q][l])
    <2>0. PICK q \in idxFiles : \E l \in DOMAIN idx[q] :
             idx[q][l].obj = o /\ LastLine(order, o) = Packed(q, idx[q][l])
      BY <1>3, LineFound
    <2>1. PICK l \in DOMAIN idx[q] :
             idx[q][l].obj = o /\ LastLine(order, o) = Packed(q, idx[q][l])
      BY <2>0
    <2>2. Packed(q, idx[q][l]) # Missing
      BY DEF Packed, Missing
    <2>3. index'[o] = LastLine(order, o)
      BY <1>2, <2>1, <2>2
    <2> QED
      BY <2>1, <2>3
  <1>4. ASSUME NEW o \in Objects, \A p \in idxFiles : ~ Names(p, o)
        PROVE  index'[o] = IF loose[o] # "none" THEN Individual ELSE Missing
    BY <1>2, <1>4, LineFound
  <1>5. ASSUME NEW o \in Objects, NEW q \in idxFiles, NEW l \in DOMAIN idx[q],
               index'[o] = Packed(q, idx[q][l])
        PROVE  /\ index'[o] \in Locations /\ index'[o].kind = "pack" /\ index'[o].pack = q
               /\ index'[o].off = l /\ index'[o].cut = idx[q][l].cut
    <2>1. q \in Packs /\ idx[q] \in Seq(Line) /\ idx[q][l].off = l
      BY DEF StoreInv, TypeOK, Placed
    <2>2. idx[q][l] \in Line
      <3> HIDE DEF Line
      <3> QED
        BY <2>1
    <2> QED
      BY <1>5, <2>1, <2>2, PlacesMade
  <1>6. nextPack' \in 1..(MaxPacks + 1) /\ \A p \in idxFiles : p < nextPack'
    <2>1. CASE idxFiles = {}
      BY <2>1, PacksAssumption DEF Crash
    <2>2. CASE idxFiles # {}
      <3> DEFINE top == CHOOSE p \in idxFiles : \A q \in idxFiles : q <= p
      <3>1. nextPack' = 1 + top
        BY <2>2 DEF Crash
      <3>2. idxFiles \subseteq 1..MaxPacks
        BY DEF StoreInv, TypeOK, Packs
      <3>3. top \in idxFiles /\ \A q \in idxFiles : q <= top
        BY <2>2, <3>2, PacksAssumption, GreatestNumber
      <3> HIDE DEF top
      <3> QED
        BY <3>1, <3>2, <3>3, PacksAssumption
    <2> QED
      BY <2>1, <2>2
  <1>7. TypeOK'
    <2>1. \A o \in Objects : index'[o] \in Locations
      BY <1>3, <1>4, <1>5, PlacesMade
    <2> DEFINE Place(o) == LET packed == LastLine(order, o) IN
                           IF packed # Missing THEN packed
                           ELSE IF loose[o] # "none" THEN Individual
                           ELSE Missing
    <2>2. index' = [o \in Objects |-> Place(o)]
      BY <1>2
    <2> HIDE DEF Place
    <2>3. index' \in [Objects -> Locations]
      BY <2>1, <2>2
    <2>5. used' \in [Kinds -> Nat]
      BY SpendType DEF StoreInv, TypeOK, Crash, Kinds
    <2>6. batch' \in Seq(Objects)
      BY <1>1, IsSequence
    <2> QED
      BY <1>1, <1>6, <2>3, <2>5, <2>6 DEF StoreInv, TypeOK
  <1>8. Placed'
    BY <1>1, <1>6 DEF StoreInv, Placed
  <1>9. ASSUME NEW o \in Objects
        PROVE  Entered(o)'
    <2>1. CASE \E p \in idxFiles : Names(p, o)
      BY <1>1, <1>3, <1>5, <2>1 DEF Entered
    <2>2. CASE \A p \in idxFiles : ~ Names(p, o)
      BY <1>1, <1>4, <2>2, PlacesMade DEF Entered, Names
    <2> QED
      BY <2>1, <2>2
  <1>10. SealGoesOn' /\ RemovesPacked' /\ Unwritten' /\ Written' \subseteq Written
    BY <1>1 DEF SealGoesOn, RemovesPacked, Unwritten, Written
  <1>11. ASSUME NEW o \in Written
         PROVE  Whole(o)'
    <2>1. Whole(o) /\ o \in Objects /\ loose[o] \in {"none", "partial", "whole"}
      BY DEF StoreInv, Written, TypeOK
    <2>2. CASE \E p \in idxFiles : Names(p, o)
      <3>1. index'[o].kind = "pack"
        BY <1>3, <1>5, <2>1, <2>2
      <3> QED
        BY <1>1, <2>1, <3>1 DEF Whole, Names
    <2>3. CASE \A p \in idxFiles : ~ Names(p, o)
      <3>1. loose[o] = "whole" /\ index'[o].kind = "loose"
        BY <1>4, <2>1, <2>3, PlacesMade DEF Whole
      <3> QED
        BY <1>1, <2>1, <3>1 DEF Whole, Names
    <2> QED
      BY <2>2, <2>3
  <1> QED
    BY <1>7, <1>8, <1>9, <1>10, <1>11 DEF StoreInv

\* So every step keeps the invariant, ...
LEMMA StoreNext == StoreInv /\ [Next]_vars => StoreInv'
  BY StoreKept, StoreCreate, StoreWrite, StoreSeal, StoreCreateIdx, StoreIdxLine,
     StoreIdxSize, StoreSwitch, StoreRemove, StoreCrash DEF Next

\* ... which holds for ever.
LEMMA StoreAlways == Spec => []StoreInv
  BY StoreInit, StoreNext, PTL DEF Spec

-----------------------------------------------------------------------------
(* What is read *)

\* What a reader gets, by the place the index has for the object.
LEMMA ReadBy ==
  ASSUME StoreInv, NEW o \in Objects
  PROVE  /\ index[o].kind = "missing" => Read(o) = "error"
         /\ index[o].kind = "loose" /\ loose[o] = "whole" => Read(o) = o
         /\ index[o].kind = "loose" /\ loose[o] # "whole" => Read(o) \in {"short", "error"}
         /\ index[o].kind = "pack" /\ index[o].cut => Read(o) = "short"
         /\ index[o].kind = "pack" /\ ~ index[o].cut =>
              Read(o) = IF pack[index[o].pack][index[o].off].whole THEN o ELSE "short"
  <1>1. index[o].kind \in {"missing", "loose", "pack"} /\ loose[o] \in {"none", "partial", "whole"}
    BY IndexPlace DEF StoreInv, TypeOK
  <1>2. CASE index[o].kind = "missing"
    BY <1>2 DEF Read
  <1>3. CASE index[o].kind = "loose"
    BY <1>1, <1>3 DEF Read
  <1>4. CASE index[o].kind = "pack"
    <2>1. /\ index[o].off \in DOMAIN pack[index[o].pack]
          /\ pack[index[o].pack][index[o].off].obj = o
      BY <1>4 DEF StoreInv, Entered, Placed
    <2> QED
      BY <1>4, <2>1 DEF Read
  <1> QED
    BY <1>1, <1>2, <1>3, <1>4

\* An object is healthy when its loose file or its place in a pack has all of it.
Sound(o) ==
    \/ index[o].kind = "loose" /\ loose[o] = "whole"
    \/ /\ index[o].kind = "pack" /\ ~ index[o].cut
       /\ pack[index[o].pack][index[o].off].whole

\* That is the same, as no object has the name of an error.
LEMMA HealthyBy == StoreInv => \A o \in Objects : Healthy(o) <=> Sound(o)
  <1> SUFFICES ASSUME StoreInv, NEW o \in Objects
               PROVE  Healthy(o) <=> Sound(o)
    OBVIOUS
  <1>1. index[o].kind \in {"missing", "loose", "pack"} /\ o # "short" /\ o # "error"
    BY IndexPlace, ObjectsAssumption DEF StoreInv
  <1> QED
    BY <1>1, ReadBy DEF Healthy, Sound

\* And so after the step.
LEMMA HealthyThen == StoreInv' => (\A o \in Objects : Healthy(o) <=> Sound(o))'
  BY HealthyBy, PTL

\* Every variable of the store keeps its type.
THEOREM StoreTypes == Spec => []TypeOK
  <1>1. StoreInv => TypeOK
    BY DEF StoreInv
  <1> QED
    BY <1>1, StoreAlways, PTL

\* A reader never gets another object's data, whatever was sealed, cut short or
\* reloaded in whatever order.
THEOREM ReadsOwn == Spec => []NeverForeign
  <1>1. StoreInv => NeverForeign
    <2> SUFFICES ASSUME StoreInv, NEW o \in Objects
                 PROVE  Read(o) \in {o, "short", "error"}
      BY DEF NeverForeign
    <2> QED
      BY ReadBy, IndexPlace DEF StoreInv
  <1> QED
    BY <1>1, StoreAlways, PTL

\* What was written and acknowledged is read back whole, unless an .idx line that was
\* cut short hides it.
THEOREM WrittenStaysReadable == Spec => []WrittenReadable
  <1>1. StoreInv => WrittenReadable
    <2> SUFFICES ASSUME StoreInv, NEW o \in wrote
                 PROVE  Healthy(o) \/ HasCutLine(o)
      BY DEF WrittenReadable
    <2>1. o \in Objects /\ Whole(o) /\ Entered(o)
      BY DEF StoreInv, TypeOK, Written
    <2>2. CASE index[o].kind = "loose"
      BY <2>1, <2>2, HealthyBy DEF Whole, Sound
    <2>3. CASE index[o].kind = "pack"
      <3>1. CASE index[o].cut
        BY <2>1, <2>3, <3>1 DEF Entered, HasCutLine
      <3>2. CASE ~ index[o].cut
        BY <2>1, <2>3, <3>2, HealthyBy DEF Entered, Whole, Sound
      <3> QED
        BY <3>1, <3>2
    <2> QED
      BY <2>1, <2>2, <2>3, IndexPlace DEF StoreInv, Whole
  <1> QED
    BY <1>1, StoreAlways, PTL

\* No step but a restart makes a healthy object unreadable.
LEMMA HealthKept ==
  ASSUME StoreInv, [Next]_vars, NEW o \in Objects, Sound(o), used'["crash"] = used["crash"]
  PROVE  Sound(o)'
  <1> USE DEF Sound
  <1>1. \/ \E q \in Objects : SkipKnown(q)
        \/ WriteLooseFails \/ NoSeal \/ SealFails \/ FinishSeal \/ UNCHANGED vars
        \/ CreateIdx \/ WriteIdxLine \/ WriteIdxSize
        => Sound(o)'
    BY DEF SkipKnown, WriteLooseFails, NoSeal, SealFails, FinishSeal, vars, CreateIdx,
       WriteIdxLine, WriteIdxSize, diskVars, memVars
  <1>2. ASSUME NEW q \in Objects, CreateLoose(q)
        PROVE  Sound(o)'
    <2>1. index[q].kind = "missing"
      BY <1>2, IndexPlace DEF StoreInv, CreateLoose
    <2> QED
      BY <1>2, <2>1 DEF CreateLoose, memVars, StoreInv, TypeOK
  <1>3. CASE WriteLoose
    <2>1. index[cur].kind = "missing"
      BY <1>3 DEF WriteLoose, StoreInv, Unwritten
    <2> QED
      BY <1>3, <2>1 DEF WriteLoose, StoreInv, TypeOK
  <1>4. CASE SealPack
    <2>1. index[o].kind = "pack" => index[o].pack \in Packs /\ index[o].pack # nextPack
      <3>1. nextPack \in Nat
        BY DEF StoreInv, TypeOK
      <3>2. index[o].kind = "pack" => index[o].pack < nextPack /\ index[o].pack \in Packs
        BY IndexPlace DEF StoreInv, Entered, Placed
      <3> QED
        BY <3>1, <3>2 DEF Packs
    <2>2. index' = index /\ loose' = loose
      BY <1>4 DEF SealPack
    <2>3. \A p \in Packs : p # nextPack => pack'[p] = pack[p]
      BY <1>4 DEF SealPack, StoreInv, TypeOK
    <2> QED
      BY <2>1, <2>2, <2>3
  <1>5. CASE SwitchIndex
    <2>1. CASE \E i \in DOMAIN batch : batch[i] = o
      <3>1. /\ index[o].kind = "loose" /\ loose[o] = "whole"
        BY <1>5, <2>1 DEF SwitchIndex, StoreInv, SealGoesOn
      <3>2. PICK j \in DOMAIN batch : /\ idx[Sealing][j].obj = o
                                      /\ index'[o] = Packed(Sealing, idx[Sealing][j])
        BY <1>5, <2>1, SwitchedTo
      <3>3. /\ j \in DOMAIN idx[Sealing] /\ idx[Sealing][j].off = j /\ ~ idx[Sealing][j].cut
            /\ batch[j] = o
        BY <1>5, <3>2, SwitchedLines
      <3>4. pack[Sealing][j].whole = (loose[o] = "whole")
        BY <1>5, <3>3 DEF SwitchIndex, StoreInv, SealGoesOn
      <3>5. /\ index'[o].kind = "pack" /\ index'[o].pack = Sealing
            /\ index'[o].off = j /\ ~ index'[o].cut
        BY <3>2, <3>3 DEF Packed
      <3>6. pack' = pack
        BY <1>5 DEF SwitchIndex, diskVars
      <3>7. pack[Sealing][j].whole
        BY <3>1, <3>4, Zenon
      <3> QED
        BY <3>5, <3>6, <3>7
    <2>2. CASE ~ \E i \in DOMAIN batch : batch[i] = o
      BY <1>5, <2>2 DEF SwitchIndex, diskVars
    <2> QED
      BY <2>1, <2>2
  <1>6. CASE RemoveLoose
    <2>1. PICK i \in DOMAIN batch : loose' = [loose EXCEPT ![batch[i]] = "none"]
      BY <1>6 DEF RemoveLoose
    <2>2. index[batch[i]].kind = "pack"
      BY <1>6 DEF RemoveLoose, StoreInv, RemovesPacked
    <2> QED
      BY <1>6, <2>1, <2>2 DEF RemoveLoose, memVars, StoreInv, TypeOK
  <1>7. ~ Crash
    <2>1. used["crash"] \in Nat /\ used \in [Kinds -> Nat]
      BY DEF StoreInv, TypeOK, Kinds
    <2> QED
      BY <2>1 DEF Crash, Spend, Kinds
  <1> QED
    BY <1>1, <1>2, <1>3, <1>4, <1>5, <1>6, <1>7 DEF Next

\* While the process lives, what can be read whole stays so, at every step of a sealing.
THEOREM HealthyStays == Spec => ReadableStays
  <1>1. StoreInv /\ StoreInv' /\ [Next]_vars =>
          [\A o \in Objects : Healthy(o) /\ used'["crash"] = used["crash"] => Healthy(o)']_vars
    BY HealthyBy, HealthyThen, HealthKept
  <1> QED
    BY <1>1, StoreAlways, PTL DEF Spec, ReadableStays

=============================================================================
