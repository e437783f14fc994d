----------------------- MODULE CharacterStorageProofs -----------------------
(***************************************************************************)
(* TLAPS proofs about the scene in a character's store, for any number of  *)
(* things, places and relations, and about the three models of the storage *)
(* under one configuration.                                                *)
(***************************************************************************)
EXTENDS CharacterStorage, CharacterLeaseProofs, CharacterOperationsProofs,
        FiniteSetTheorems, TLAPS

-----------------------------------------------------------------------------
(* The scene: a transaction works on a scene that is whole in each part of *)
(* it, and leaves one whose attributes mirror its relations.               *)

RelationRecords ==
    [predicate: Occupancy \cup {"located"}, target: Actors \cup Things,
     cause: Things \cup Places, locus: {Placeless, Spot}]
Mirrors ==
    [held_by: Actors \cup {Unset}, worn_by: Actors \cup {Unset},
     location: Places \cup Things \cup {Unset}]
SceneRecords ==
    [subjects: SUBSET Things, relations: SUBSET RelationRecords,
     attributes: [Things -> Mirrors]]

\* Hands and bodies are actors', and what they hold or wear are things.
Proper(rs) ==
    \A r \in rs : r.predicate \in Occupancy => r.target \in Actors /\ r.cause \in Things

OneOwner(rs) ==
    \A x, y \in rs : /\ x.predicate = y.predicate /\ x.cause = y.cause
                     /\ x.predicate \in Occupancy
                     => x.target = y.target
OnePlace(rs) ==
    \A x, y \in rs : /\ x.predicate = "located" /\ y.predicate = "located"
                     /\ x.target = y.target /\ x.cause \in Places /\ y.cause \in Places
                     => x = y
OneHat(rs) ==
    \A x, y \in rs : /\ x.predicate = "wearing" /\ y.predicate = "wearing"
                     /\ x.target = y.target /\ {x.cause, y.cause} \subseteq HeadWear
                     /\ x.locus = Placeless /\ y.locus = Placeless
                     => x = y

\* A scene as it is between the parts of a transaction.
Whole(s) ==
    /\ s \in SceneRecords
    /\ IsFiniteSet(s.relations)
    /\ Involved(s) \subseteq s.subjects
    /\ Proper(s.relations) /\ OneOwner(s.relations)
    /\ OnePlace(s.relations) /\ OneHat(s.relations)

\* Nothing is remembered of a thing that is not there.
Unseen(s) == \A t \in Things \ s.subjects : s.attributes[t] = Bare

\* Who holds and wears a thing.
Reflected(s) ==
    \A t \in Things :
        /\ s.attributes[t].held_by = Sole(HadBy(s.relations, "holding", t))
        /\ s.attributes[t].worn_by = Sole(HadBy(s.relations, "wearing", t))

SettingIInv ==
    /\ Whole(Scene) /\ Unseen(Scene) /\ Reflected(Scene)
    /\ Cardinality(relations) <= MaxRelations

\* Which relation a transaction may set.
Fit(s, clears, r) ==
    /\ r \in RelationRecords
    /\ r.predicate \in Occupancy => r.target \in Actors /\ r.cause \in Things
    /\ Mentioned(r) \subseteq s.subjects
    /\ r.predicate = "located" /\ r.cause \in Places => OnThing(s.relations, r.target) \subseteq clears

Settable(s, clears, sets) == sets = {} \/ \E r : sets = {r} /\ Fit(s, clears, r)

-----------------------------------------------------------------------------
\* A set of one element at most.
LEMMA AtMostOne ==
    ASSUME NEW S, IsFiniteSet(S) PROVE Cardinality(S) <= 1 <=> \A x, y \in S : x = y
<1>1. Cardinality(S) \in Nat
  BY FS_CardinalityType
<1>2. ASSUME Cardinality(S) <= 1, NEW x \in S, NEW y \in S PROVE x = y
  <2>1. Cardinality(S) # 0
    BY FS_EmptySet
  <2>2. Cardinality(S) = 1
    BY <1>1, <1>2, <2>1
  <2>3. PICK z : S = {z}
    BY <2>2, FS_Singleton
  <2> QED
    BY <2>3
<1>3. ASSUME \A x, y \in S : x = y PROVE Cardinality(S) <= 1
  <2>1. CASE S = {}
    BY <2>1, FS_EmptySet
  <2>2. CASE S # {}
    <3>1. PICK z : z \in S
      BY <2>2
    <3>2. S = {z}
      BY <1>3, <3>1
    <3> QED
      BY <3>2, FS_Singleton
  <2> QED
    BY <2>1, <2>2
<1> QED
  BY <1>2, <1>3

\* A smaller set counts no more.
LEMMA FewerCount ==
    ASSUME NEW S, IsFiniteSet(S), NEW R \in SUBSET S, NEW n \in Nat, Cardinality(S) <= n
    PROVE  IsFiniteSet(R) /\ Cardinality(R) <= n
  BY FS_Subset, FS_CardinalityType

\* The owners of a thing are actors, of whom there are two.
LEMMA OwnersFinite ==
    ASSUME NEW rs, Proper(rs), NEW p \in Occupancy, NEW t
    PROVE  HadBy(rs, p, t) \subseteq Actors /\ IsFiniteSet(HadBy(rs, p, t))
<1>1. HadBy(rs, p, t) \subseteq Actors
  BY DEF HadBy, Proper
<1>2. IsFiniteSet(Actors)
  <2>1. IsFiniteSet({"companion"}) /\ IsFiniteSet({"companion"} \cup {"user"})
    BY FS_Singleton, FS_AddElement
  <2>2. Actors = {"companion"} \cup {"user"}
    BY DEF Actors
  <2> QED
    BY <2>1, <2>2
<1> QED
  BY <1>1, <1>2, FS_Subset

\* Owners do not disagree: of each thing there is one.
LEMMA Undisputed ==
    ASSUME NEW s, Proper(s.relations)
    PROVE  ~Disagree(s) <=> OneOwner(s.relations)
<1>1. ASSUME NEW p \in Occupancy, NEW t
      PROVE  Cardinality(HadBy(s.relations, p, t)) <= 1
             <=> \A x, y \in HadBy(s.relations, p, t) : x = y
  BY OwnersFinite, AtMostOne
<1>2. ASSUME NEW p \in Occupancy, NEW t PROVE Cardinality(HadBy(s.relations, p, t)) \in Nat
  BY OwnersFinite, FS_CardinalityType
<1>3. ~Disagree(s) <=> \A p \in Occupancy, t \in Things :
                          \A x, y \in HadBy(s.relations, p, t) : x = y
  BY <1>1, <1>2 DEF Disagree, Occupancy
<1>4. ASSUME NEW p \in Occupancy
      PROVE  \A t : (\A x, y \in HadBy(s.relations, p, t) : x = y)
                    <=> \A x, y \in s.relations : /\ x.predicate = p /\ y.predicate = p
                                                  /\ x.cause = t /\ y.cause = t
                                                  => x.target = y.target
  BY DEF HadBy
<1> QED
  BY <1>3, <1>4 DEF OneOwner, Proper

\* The one owner is an actor.
LEMMA SoleIsActor ==
    ASSUME NEW rs, Proper(rs), NEW p \in Occupancy, NEW t
    PROVE  Sole(HadBy(rs, p, t)) \in Actors \cup {Unset}
  BY OwnersFinite DEF Sole


-----------------------------------------------------------------------------
(* The parts of a transaction.                                             *)

\* Actors and places are no things.
LEMMA Separate ==
    /\ \A t \in Things : t \notin Actors /\ t \notin Places
    /\ HeadWear \subseteq Things
  BY SceneStateAssumption DEF SceneStateAssumption, Actors

\* A hand or a body mentions the thing only.
LEMMA MentionsThing ==
    ASSUME NEW r, r.target \in Actors, r.cause \in Things PROVE Mentioned(r) = {r.cause}
  BY Separate DEF Mentioned

\* Fewer relations.
LEMMA FewerRelations ==
    ASSUME NEW rs, NEW ks \in SUBSET rs, Proper(rs), OneOwner(rs), OnePlace(rs), OneHat(rs)
    PROVE  Proper(ks) /\ OneOwner(ks) /\ OnePlace(ks) /\ OneHat(ks)
  BY DEF Proper, OneOwner, OnePlace, OneHat

\* The relation set beside what is left of the others.
LEMMA OneMore ==
    ASSUME NEW rs, NEW r, NEW ks, ks \subseteq rs \ Rivals(rs, r),
           Proper(rs), OnePlace(rs), OneHat(rs),
           r.predicate \in Occupancy => r.target \in Actors /\ r.cause \in Things,
           r.predicate = "located" /\ r.cause \in Places => OnThing(rs, r.target) = {},
           rs \subseteq RelationRecords, r \in RelationRecords
    PROVE  /\ Proper(ks \cup {r}) /\ OnePlace(ks \cup {r}) /\ OneHat(ks \cup {r})
<1>1. Proper(ks \cup {r})
  BY DEF Proper
<1>2. OnePlace(ks \cup {r})
  <2>1. ASSUME NEW x \in ks, x.predicate = "located", r.predicate = "located",
               x.target = r.target, r.cause \in Places
        PROVE  FALSE
    BY <2>1 DEF OnThing
  <2> QED
    BY <2>1 DEF OnePlace
<1>3. OneHat(ks \cup {r})
  <2>1. ASSUME NEW x \in ks, x.predicate = "wearing", r.predicate = "wearing",
               x.target = r.target, {x.cause, r.cause} \subseteq HeadWear,
               x.locus = Placeless, r.locus = Placeless
        PROVE  x = r
    <3>1. x \in rs /\ x \notin Rivals(rs, r)
      OBVIOUS
    <3>2. Alike(x, r)
      BY <2>1, <3>1 DEF Rivals
    <3> QED
      BY <2>1, <3>2 DEF Alike
  <2> QED
    BY <2>1 DEF OneHat
<1> QED
  BY <1>1, <1>2, <1>3

\* The relations after the clears and the set.
Cleared(rs, clears) == rs \ UNION {Selected(rs, c) : c \in clears}
Renewed(rs, clears, sets) ==
    (Cleared(rs, clears) \ UNION {Rivals(Cleared(rs, clears), r) : r \in sets}) \cup sets

\* The relations change, and nothing else does.
LEMMA RelatedShape ==
    ASSUME NEW s \in SceneRecords, NEW clears, NEW sets
    PROVE  Related(s, clears, sets) = [subjects |-> s.subjects,
                                       relations |-> Renewed(s.relations, clears, sets),
                                       attributes |-> s.attributes]
<1> PICK ks : ks = Cleared(s.relations, clears)
  OBVIOUS
<1> PICK k : k = [s EXCEPT !.relations = ks]
  OBVIOUS
<1>1. k.relations = ks /\ k.subjects = s.subjects /\ k.attributes = s.attributes
      /\ k = [subjects |-> s.subjects, relations |-> ks, attributes |-> s.attributes]
  BY DEF SceneRecords
<1> PICK new : new = (ks \ UNION {Rivals(ks, r) : r \in sets}) \cup sets
  OBVIOUS
<1>2. Related(s, clears, sets) = [k EXCEPT !.relations = new]
  BY <1>1 DEF Related, Cleared
<1>3. [k EXCEPT !.relations = new] =
          [subjects |-> s.subjects, relations |-> new, attributes |-> s.attributes]
  <2> PICK sb, at : sb = s.subjects /\ at = s.attributes
    OBVIOUS
  <2>1. k = [subjects |-> sb, relations |-> ks, attributes |-> at]
    BY <1>1
  <2>2. k \in [subjects: {sb}, relations: {ks}, attributes: {at}]
    BY <2>1
  <2>3. PICK z : z = [k EXCEPT !.relations = new]
    OBVIOUS
  <2>4. z \in [subjects: {sb}, relations: {new}, attributes: {at}]
    BY <2>2, <2>3
  <2>5. z = [subjects |-> sb, relations |-> new, attributes |-> at]
    BY <2>4
  <2> QED
    BY <2>3, <2>5
<1>4. new = Renewed(s.relations, clears, sets)
  BY DEF Renewed
<1> QED
  BY <1>2, <1>3, <1>4

\* What a clear names is gone.
LEMMA ClearsGo ==
    ASSUME NEW rs, NEW clears \in SUBSET rs PROVE Cleared(rs, clears) \cap clears = {}
  BY DEF Cleared, Selected

\* Related relations are as before, if owners agree.
LEMMA RelatedKeeps ==
    ASSUME NEW s, Whole(s), NEW clears \in SUBSET s.relations, NEW sets,
           Settable(s, clears, sets), ~Disagree(Related(s, clears, sets))
    PROVE  Whole(Related(s, clears, sets))
<1> PICK after : after = Related(s, clears, sets)
  OBVIOUS
<1> PICK ks : ks = Cleared(s.relations, clears)
  OBVIOUS
<1>1. /\ after.subjects = s.subjects /\ after.attributes = s.attributes
      /\ after.relations = Renewed(s.relations, clears, sets)
      /\ after = [subjects |-> s.subjects, relations |-> after.relations,
                  attributes |-> s.attributes]
      /\ s.subjects \in SUBSET Things /\ s.attributes \in [Things -> Mirrors]
      /\ s.relations \in SUBSET RelationRecords
  BY RelatedShape DEF Whole, SceneRecords
<1>2. /\ ks \subseteq s.relations /\ Proper(ks) /\ OneOwner(ks) /\ OnePlace(ks)
      /\ OneHat(ks) /\ IsFiniteSet(ks)
  <2>1. ks \subseteq s.relations
    BY DEF Cleared
  <2> QED
    BY <2>1, FewerRelations, FS_Subset DEF Whole
<1>3. CASE sets = {}
  <2>1. after.relations = ks
    BY <1>1, <1>3 DEF Renewed
  <2>2. Involved(after) \subseteq after.subjects
    BY <1>1, <1>2, <2>1 DEF Involved, Whole
  <2>3. after \in SceneRecords
    BY <1>1, <1>2, <2>1 DEF SceneRecords
  <2> QED
    BY <1>2, <2>1, <2>2, <2>3 DEF Whole
<1>4. ASSUME NEW r, sets = {r}, Fit(s, clears, r) PROVE Whole(after)
  <2> PICK ls : ls = ks \ Rivals(ks, r)
    OBVIOUS
  <2>1. after.relations = ls \cup {r}
    BY <1>1, <1>4 DEF Renewed
  <2>2. Proper(ls \cup {r}) /\ OnePlace(ls \cup {r}) /\ OneHat(ls \cup {r})
    <3>1. r.predicate = "located" /\ r.cause \in Places => OnThing(ks, r.target) = {}
      <4>1. ks \cap clears = {}
        BY ClearsGo
      <4> QED
        BY <1>2, <1>4, <4>1 DEF Fit, OnThing
    <3>2. ks \subseteq RelationRecords /\ r \in RelationRecords
      BY <1>1, <1>2, <1>4 DEF Fit
    <3> QED
      BY <1>2, <1>4, <3>1, <3>2, OneMore DEF Fit
  <2>3. OneOwner(after.relations)
    BY <2>1, <2>2, Undisputed
  <2>4. IsFiniteSet(after.relations)
    BY <1>2, <2>1, FS_Subset, FS_AddElement
  <2>5. Involved(after) \subseteq after.subjects
    <3>1. ASSUME NEW x \in after.relations PROVE Mentioned(x) \subseteq s.subjects
      <4>1. CASE x = r
        BY <1>4, <4>1 DEF Fit
      <4>2. CASE x \in s.relations
        BY <4>2 DEF Involved, Whole
      <4> QED
        BY <1>2, <2>1, <4>1, <4>2
    <3> QED
      BY <1>1, <3>1 DEF Involved
  <2>6. after \in SceneRecords
    <3>1. after.relations \in SUBSET RelationRecords
      BY <1>1, <1>2, <1>4, <2>1 DEF Fit
    <3> QED
      BY <1>1, <3>1 DEF SceneRecords
  <2> QED
    BY <2>1, <2>2, <2>3, <2>4, <2>5, <2>6 DEF Whole
<1> QED
  BY <1>3, <1>4 DEF Settable

\* Mirrors of a whole scene.
LEMMA MirroredKeeps ==
    ASSUME NEW s, Whole(s), Unseen(s)
    PROVE  /\ Whole(Mirrored(s)) /\ Unseen(Mirrored(s)) /\ Reflected(Mirrored(s))
           /\ Mirrored(s).relations = s.relations /\ Mirrored(s).subjects = s.subjects
<1> DEFINE of(t) == IF t \notin s.subjects THEN s.attributes[t]
                    ELSE [s.attributes[t] EXCEPT
                             !.held_by = Sole(HadBy(s.relations, "holding", t)),
                             !.worn_by = Sole(HadBy(s.relations, "wearing", t))]
           as == [t \in Things |-> of(t)]
<1>1. /\ s \in SceneRecords /\ s.subjects \in SUBSET Things /\ s.attributes \in [Things -> Mirrors]
      /\ s.relations \in SUBSET RelationRecords /\ Proper(s.relations)
  BY DEF Whole, SceneRecords
<1>2. ASSUME NEW t \in Things
      PROVE  /\ of(t) \in Mirrors
             /\ of(t).held_by = Sole(HadBy(s.relations, "holding", t))
             /\ of(t).worn_by = Sole(HadBy(s.relations, "wearing", t))
             /\ t \notin s.subjects => of(t) = Bare
  <2>1. /\ Sole(HadBy(s.relations, "holding", t)) \in Actors \cup {Unset}
        /\ Sole(HadBy(s.relations, "wearing", t)) \in Actors \cup {Unset}
    BY <1>1, SoleIsActor DEF Occupancy
  <2>2. CASE t \in s.subjects
    <3>1. s.attributes[t] \in Mirrors
      BY <1>1
    <3> QED
      BY <2>1, <2>2, <3>1 DEF Mirrors
  <2>3. CASE t \notin s.subjects
    <3>1. of(t) = Bare
      BY <2>3 DEF Unseen
    <3>2. HadBy(s.relations, "holding", t) = {} /\ HadBy(s.relations, "wearing", t) = {}
      <4>1. \A r \in s.relations : r.cause \in Things => r.cause \in s.subjects
        BY DEF Whole, Involved, Mentioned
      <4> QED
        BY <2>3, <4>1 DEF HadBy
    <3>3. Bare.held_by = Unset /\ Bare.worn_by = Unset /\ Bare \in Mirrors
      BY DEF Bare, Mirrors
    <3> QED
      BY <2>3, <3>1, <3>2, <3>3 DEF Sole
  <2> QED
    BY <2>2, <2>3
<1> HIDE DEF of
<1> PICK m : m = Mirrored(s)
  OBVIOUS
<1>3. m = [s EXCEPT !.attributes = as]
  BY DEF Mirrored, of
<1>4. as \in [Things -> Mirrors]
  BY <1>2
<1>5. /\ m.relations = s.relations /\ m.subjects = s.subjects /\ m.attributes = as
      /\ m \in SceneRecords
  BY <1>1, <1>3, <1>4 DEF SceneRecords
<1>6. Whole(m)
  BY <1>5 DEF Whole, Involved
<1>7. Unseen(m) /\ Reflected(m)
  BY <1>2, <1>5 DEF Unseen, Reflected
<1> QED
  BY <1>5, <1>6, <1>7

\* What a scene is made of.
LEMMA SceneTyped ==
    ASSUME NEW a \in SUBSET Things, NEW b \in SUBSET RelationRecords, NEW c \in [Things -> Mirrors]
    PROVE  [subjects |-> a, relations |-> b, attributes |-> c] \in SceneRecords
  BY DEF SceneRecords

\* Things that go take their relations along, and nobody else's.
LEMMA GoneKeeps ==
    ASSUME NEW s, Whole(s), Unseen(s), NEW gone \in SUBSET s.subjects
    PROVE  /\ Whole(Gone(s, gone)) /\ Unseen(Gone(s, gone))
           /\ Reflected(s) => Reflected(Gone(s, gone))
           /\ Gone(s, gone).relations \subseteq s.relations
           /\ Gone(s, gone).subjects = s.subjects \ gone
<1> DEFINE as == [t \in Things |-> IF t \in gone THEN Bare ELSE s.attributes[t]]
           ks == Kept(s, gone)
<1>1. /\ s.subjects \in SUBSET Things /\ s.attributes \in [Things -> Mirrors]
      /\ s.relations \in SUBSET RelationRecords /\ Proper(s.relations)
      /\ IsFiniteSet(s.relations)
  BY DEF Whole, SceneRecords
<1>2. ks \subseteq s.relations
  BY DEF Kept
<1>3. Bare \in Mirrors /\ Bare.held_by = Unset /\ Bare.worn_by = Unset
  BY DEF Bare, Mirrors
<1>4. as \in [Things -> Mirrors]
  BY <1>1, <1>3
<1>5. ASSUME NEW p \in Occupancy, NEW t \in Things
      PROVE  HadBy(ks, p, t) = IF t \in gone THEN {} ELSE HadBy(s.relations, p, t)
  <2>1. \A r \in s.relations : r.predicate = p => Mentioned(r) = {r.cause}
    BY <1>1, <1>5, MentionsThing DEF Proper
  <2>2. \A r \in s.relations : r.predicate = p /\ r.cause = t => (r \in ks <=> t \notin gone)
    BY <2>1 DEF Kept
  <2> QED
    BY <1>2, <2>2 DEF HadBy
<1> PICK g : g = Gone(s, gone)
  OBVIOUS
<1> HIDE DEF as, ks
<1>6. g = [subjects |-> s.subjects \ gone, relations |-> ks, attributes |-> as]
  BY DEF Gone, as, ks
<1>7. /\ g.subjects = s.subjects \ gone /\ g.relations = ks /\ g.attributes = as
      /\ g \in SceneRecords
  <2>1. s.subjects \ gone \in SUBSET Things /\ ks \in SUBSET RelationRecords
    BY <1>1, <1>2
  <2>2. g.subjects = s.subjects \ gone /\ g.relations = ks /\ g.attributes = as
    BY <1>6
  <2>3. g \in SceneRecords
    <3> PICK sb : sb = s.subjects \ gone
      OBVIOUS
    <3>1. g = [subjects |-> sb, relations |-> ks, attributes |-> as]
      BY <1>6
    <3>2. sb \in SUBSET Things
      BY <2>1
    <3> QED
      BY <1>4, <2>1, <3>1, <3>2, SceneTyped
  <2> QED
    BY <2>2, <2>3
<1>8. Whole(g)
  <2>1. Involved(g) \subseteq g.subjects
    BY <1>7 DEF Involved, Whole, Kept, ks
  <2>2. Proper(ks) /\ OneOwner(ks) /\ OnePlace(ks) /\ OneHat(ks)
    BY <1>2, FewerRelations DEF Whole
  <2>3. IsFiniteSet(ks)
    BY <1>1, <1>2, FS_Subset
  <2> QED
    BY <1>7, <2>1, <2>2, <2>3 DEF Whole
<1>9. Unseen(g)
  BY <1>1, <1>7 DEF Unseen, as
<1>10. ASSUME Reflected(s) PROVE Reflected(g)
  <2>1. ASSUME NEW t \in Things
        PROVE  /\ as[t].held_by = Sole(HadBy(ks, "holding", t))
               /\ as[t].worn_by = Sole(HadBy(ks, "wearing", t))
    <3>1. /\ HadBy(ks, "holding", t) = IF t \in gone THEN {} ELSE HadBy(s.relations, "holding", t)
          /\ HadBy(ks, "wearing", t) = IF t \in gone THEN {} ELSE HadBy(s.relations, "wearing", t)
      BY <1>5 DEF Occupancy
    <3>2. as[t] = IF t \in gone THEN Bare ELSE s.attributes[t]
      BY DEF as
    <3> QED
      BY <1>3, <1>10, <3>1, <3>2 DEF Reflected, Sole
  <2> QED
    BY <1>7, <2>1 DEF Reflected
<1> QED
  BY <1>2, <1>7, <1>8, <1>9, <1>10


\* The location a statement gives is of a thing that is there.
LEMMA LocatedKeeps ==
    ASSUME NEW s, Whole(s), Unseen(s), NEW clears \in SUBSET s.relations, NEW sets,
           Settable(s, clears, sets)
    PROVE  /\ Whole(Located(s, clears, sets)) /\ Unseen(Located(s, clears, sets))
           /\ Located(s, clears, sets).relations = s.relations
           /\ Located(s, clears, sets).subjects = s.subjects
<1> DEFINE on(t, rs) == {r \in rs : r.predicate = "located" /\ r.target = t}
           of(t) == IF on(t, sets) # {}
                    THEN [s.attributes[t] EXCEPT !.location = (CHOOSE r \in on(t, sets) : TRUE).cause]
                    ELSE IF on(t, clears) # {} THEN [s.attributes[t] EXCEPT !.location = Unset]
                    ELSE s.attributes[t]
           as == [t \in Things |-> of(t)]
<1>1. /\ s \in SceneRecords /\ s.subjects \in SUBSET Things /\ s.attributes \in [Things -> Mirrors]
      /\ s.relations \in SUBSET RelationRecords
  BY DEF Whole, SceneRecords
<1>2. \A r \in sets : r \in RelationRecords /\ Mentioned(r) \subseteq s.subjects
  BY DEF Settable, Fit
<1>3. \A r \in clears : Mentioned(r) \subseteq s.subjects
  BY DEF Whole, Involved
<1>4. ASSUME NEW t \in Things
      PROVE  of(t) \in Mirrors /\ (t \notin s.subjects => of(t) = Bare)
  <2>1. s.attributes[t] \in Mirrors
    BY <1>1
  <2>2. CASE on(t, sets) # {}
    <3>1. PICK r : r = CHOOSE x \in on(t, sets) : TRUE
      OBVIOUS
    <3>2. r \in on(t, sets)
      BY <2>2, <3>1
    <3>3. r.cause \in Things \cup Places /\ t \in s.subjects
      BY <1>2, <3>2 DEF RelationRecords, Mentioned
    <3>4. [s.attributes[t] EXCEPT !.location = r.cause] \in Mirrors
      BY <2>1, <3>3 DEF Mirrors
    <3> QED
      BY <2>2, <3>1, <3>3, <3>4
  <2>3. CASE on(t, sets) = {} /\ on(t, clears) # {}
    <3>1. t \in s.subjects
      BY <1>3, <2>3 DEF Mentioned
    <3>2. [s.attributes[t] EXCEPT !.location = Unset] \in Mirrors
      BY <2>1 DEF Mirrors
    <3> QED
      BY <2>3, <3>1, <3>2
  <2>4. CASE on(t, sets) = {} /\ on(t, clears) = {}
    BY <2>1, <2>4 DEF Unseen
  <2> QED
    BY <2>2, <2>3, <2>4
<1> PICK m : m = Located(s, clears, sets)
  OBVIOUS
<1>5. m = [s EXCEPT !.attributes = as]
  BY DEF Located
<1> HIDE DEF of
<1>6. as \in [Things -> Mirrors]
  BY <1>4
<1>7. /\ m.relations = s.relations /\ m.subjects = s.subjects /\ m.attributes = as
      /\ m \in SceneRecords
  BY <1>1, <1>5, <1>6 DEF SceneRecords
<1>8. Whole(m)
  BY <1>7 DEF Whole, Involved
<1>9. Unseen(m)
  BY <1>4, <1>7 DEF Unseen
<1> QED
  BY <1>7, <1>8, <1>9

\* The thing meant is there.
LEMMA MeantIsThere ==
    ASSUME SettingIInv, NEW t \in Things, NEW s \in Meant(t)
    PROVE  Whole(s) /\ Unseen(s) /\ t \in s.subjects /\ s.relations = relations
<1>1. /\ Whole(Scene) /\ Unseen(Scene) /\ Scene \in SceneRecords
      /\ Scene.subjects = subjects /\ Scene.relations = relations /\ Scene.attributes = attributes
      /\ subjects \in SUBSET Things /\ attributes \in [Things -> Mirrors]
      /\ relations \in SUBSET RelationRecords
  BY DEF SettingIInv, Whole, Scene, SceneRecords
<1>2. CASE t \in subjects
  BY <1>1, <1>2 DEF Meant
<1>3. CASE t \notin subjects
  <2> PICK sb : sb = subjects \cup {t}
    OBVIOUS
  <2> PICK as : as = [attributes EXCEPT ![t] = Bare]
    OBVIOUS
  <2>1. s = [subjects |-> sb, relations |-> relations, attributes |-> as]
    BY <1>3 DEF Meant, Scene
  <2>2. Bare \in Mirrors
    BY DEF Bare, Mirrors
  <2>3. sb \in SUBSET Things /\ as \in [Things -> Mirrors]
    BY <1>1, <2>2
  <2>4. s.subjects = sb /\ s.relations = relations /\ s.attributes = as
    BY <2>1
  <2>5. s \in SceneRecords
    BY <1>1, <2>1, <2>3, SceneTyped
  <2>6. Whole(s)
    BY <1>1, <2>4, <2>5 DEF Whole, Involved
  <2>7. Unseen(s)
    BY <1>1, <2>4 DEF Unseen
  <2> QED
    BY <2>4, <2>6, <2>7
<1> QED
  BY <1>2, <1>3

\* What a transaction leaves is the scene.
LEMMA SceneBecomes ==
    ASSUME NEW z, Whole(z), Unseen(z), Reflected(z), Cardinality(z.relations) <= MaxRelations,
           Becomes(z)
    PROVE  SettingIInv'
<1>1. /\ subjects' = z.subjects /\ relations' = z.relations /\ attributes' = z.attributes
      /\ z \in SceneRecords
  BY DEF Becomes, Whole
<1>2. Scene' = z
  BY <1>1 DEF Scene, SceneRecords
<1>3. Whole(Scene') /\ Unseen(Scene') /\ Reflected(Scene')
  BY <1>2
<1> QED
  BY <1>1, <1>3 DEF SettingIInv

\* A statement.
LEMMA StatedKeeps ==
    ASSUME NEW s, Whole(s), Unseen(s), NEW clears \in SUBSET s.relations, NEW sets,
           Settable(s, clears, sets), Stated(s, clears, sets)
    PROVE  SettingIInv'
<1> PICK b : b = Located(s, clears, sets)
  OBVIOUS
<1> PICK after : after = Related(b, clears, sets)
  OBVIOUS
<1> PICK shown : shown = Mirrored(after)
  OBVIOUS
<1> PICK fresh : fresh = UNION {Mentioned(r) : r \in clears \cup sets}
  OBVIOUS
<1>1. Admissible(after) /\ \E gone \in Sweeps(shown, fresh) : Becomes(Gone(shown, gone))
  BY DEF Stated
<1>2. /\ Whole(b) /\ Unseen(b) /\ b.relations = s.relations /\ b.subjects = s.subjects
      /\ b \in SceneRecords
  <2>1. Whole(b) /\ Unseen(b) /\ b.relations = s.relations /\ b.subjects = s.subjects
    BY LocatedKeeps
  <2> QED
    BY <2>1 DEF Whole
<1>3. Settable(b, clears, sets) /\ clears \in SUBSET b.relations
  BY <1>2 DEF Settable, Fit
<1>4. Whole(after)
  BY <1>1, <1>2, <1>3, RelatedKeeps DEF Admissible
<1>5. Unseen(after)
  <2>1. after.subjects = b.subjects /\ after.attributes = b.attributes
    BY <1>2, RelatedShape
  <2> QED
    BY <1>2, <2>1 DEF Unseen
<1>6. Whole(shown) /\ Unseen(shown) /\ Reflected(shown) /\ shown.relations = after.relations
  BY <1>4, <1>5, MirroredKeeps
<1>7. PICK gone \in Sweeps(shown, fresh) : Becomes(Gone(shown, gone))
  BY <1>1
<1>8. gone \in SUBSET shown.subjects
  BY <1>7 DEF Sweeps, Dormant
<1> PICK z : z = Gone(shown, gone)
  OBVIOUS
<1>9. Whole(z) /\ Unseen(z) /\ Reflected(z) /\ z.relations \subseteq shown.relations
  BY <1>6, <1>8, GoneKeeps
<1>10. Cardinality(z.relations) <= MaxRelations
  BY <1>1, <1>4, <1>6, <1>9, FewerCount, SceneStateAssumption
     DEF Admissible, Whole, SceneStateAssumption
<1> QED
  BY <1>7, <1>9, <1>10, SceneBecomes

\* A companion action or a control.
LEMMA ControlledKeeps ==
    ASSUME NEW s, Whole(s), Unseen(s), NEW clears \in SUBSET s.relations, NEW sets,
           Settable(s, clears, sets), Controlled(s, clears, sets)
    PROVE  SettingIInv'
<1> PICK after : after = Related(s, clears, sets)
  OBVIOUS
<1> PICK shown : shown = Mirrored(after)
  OBVIOUS
<1>1. Admissible(after) /\ Becomes(shown)
  BY DEF Controlled
<1>2. Whole(after)
  BY <1>1, RelatedKeeps DEF Admissible
<1>3. Unseen(after)
  <2>1. after.subjects = s.subjects /\ after.attributes = s.attributes
    BY RelatedShape DEF Whole
  <2> QED
    BY <2>1 DEF Unseen
<1>4. Whole(shown) /\ Unseen(shown) /\ Reflected(shown) /\ shown.relations = after.relations
  BY <1>2, <1>3, MirroredKeeps
<1> QED
  BY <1>1, <1>4, SceneBecomes DEF Admissible


-----------------------------------------------------------------------------
(* The operations.                                                         *)

\* What the invariant says of the current scene.
LEMMA CurrentScene ==
    ASSUME SettingIInv
    PROVE  /\ Whole(Scene) /\ Unseen(Scene) /\ Reflected(Scene)
           /\ Scene.subjects = subjects /\ Scene.relations = relations
           /\ Scene.attributes = attributes
           /\ subjects \subseteq Things /\ relations \subseteq RelationRecords
           /\ Proper(relations) /\ IsFiniteSet(relations)
           /\ \A r \in relations : Mentioned(r) \subseteq subjects
  BY DEF SettingIInv, Whole, Scene, SceneRecords, Involved

\* The relation a statement sets.
LEMMA StatedRelation ==
    ASSUME NEW s, NEW clears, NEW p \in Occupancy \cup {"located"}, NEW x \in Actors \cup Things,
           NEW c \in Things \cup Places, NEW l \in {Placeless, Spot},
           p \in Occupancy => x \in Actors /\ c \in Things,
           x \in Things => x \in s.subjects, c \in Things => c \in s.subjects,
           p = "located" /\ c \in Places => OnThing(s.relations, x) \subseteq clears
    PROVE  Settable(s, clears, {Relation(p, x, c, l)})
<1> PICK r : r = Relation(p, x, c, l)
  OBVIOUS
<1>1. r.predicate = p /\ r.target = x /\ r.cause = c /\ r.locus = l
  BY DEF Relation
<1>2. r \in RelationRecords
  BY DEF Relation, RelationRecords
<1>3. Mentioned(r) \subseteq s.subjects
  BY <1>1 DEF Mentioned
<1> QED
  BY <1>1, <1>2, <1>3 DEF Settable, Fit

\* A thing is taken in hand or put on.
LEMMA OccupyKeeps ==
    ASSUME SettingIInv, NEW a \in Actors, NEW p \in Occupancy, NEW t \in Things, Occupy(a, p, t)
    PROVE  SettingIInv'
<1> PICK clears : clears = {r \in Had(t) : r.predicate # p \/ r.target # a} \cup OnThing(relations, t)
  OBVIOUS
<1>1. PICK s \in Meant(t) : Stated(s, clears, {Relation(p, a, t, Placeless)})
  BY DEF Occupy
<1>2. Whole(s) /\ Unseen(s) /\ t \in s.subjects /\ s.relations = relations
  BY MeantIsThere
<1>3. clears \in SUBSET s.relations
  BY <1>2 DEF Had, OnThing
<1>4. Settable(s, clears, {Relation(p, a, t, Placeless)})
  BY <1>2, Separate, StatedRelation DEF Occupancy
<1> QED
  BY <1>1, <1>2, <1>3, <1>4, StatedKeeps

\* A thing is put somewhere.
LEMMA PlacedKeeps ==
    ASSUME SettingIInv, NEW t \in Things, NEW p \in Places, PlaceAnew(t, p) \/ Locate(t, p)
    PROVE  SettingIInv'
<1>1. CASE PlaceAnew(t, p)
  <2> PICK clears : clears = Had(t) \cup OnThing(relations, t)
    OBVIOUS
  <2>1. PICK s \in Meant(t) : Stated(s, clears, {Relation("located", t, p, Placeless)})
    BY <1>1 DEF PlaceAnew
  <2>2. Whole(s) /\ Unseen(s) /\ t \in s.subjects /\ s.relations = relations
    BY MeantIsThere
  <2>3. clears \in SUBSET s.relations
    BY <2>2 DEF Had, OnThing
  <2>4. Settable(s, clears, {Relation("located", t, p, Placeless)})
    BY <2>2, Separate, StatedRelation DEF Occupancy
  <2> QED
    BY <2>1, <2>2, <2>3, <2>4, StatedKeeps
<1>2. CASE Locate(t, p)
  <2> PICK s : s = Scene
    OBVIOUS
  <2> PICK clears : clears = OnThing(relations, t)
    OBVIOUS
  <2>1. Stated(s, clears, {Relation("located", t, p, Placeless)}) /\ t \in subjects
    BY <1>2 DEF Locate
  <2>2. Whole(s) /\ Unseen(s) /\ t \in s.subjects /\ s.relations = relations
    BY <2>1, CurrentScene
  <2>3. clears \in SUBSET s.relations
    BY <2>2 DEF OnThing
  <2>4. Settable(s, clears, {Relation("located", t, p, Placeless)})
    BY <2>2, Separate, StatedRelation DEF Occupancy
  <2> QED
    BY <2>1, <2>2, <2>3, <2>4, StatedKeeps
<1> QED
  BY <1>1, <1>2

\* A thing that is had is there.
LEMMA HadIsThere ==
    ASSUME SettingIInv, NEW t \in Things, NEW r \in relations, r.cause = t
    PROVE  t \in subjects
  BY CurrentScene DEF Mentioned

\* A thing changes hands.
LEMMA HandOverKeeps ==
    ASSUME SettingIInv, NEW a \in Actors, NEW b \in Actors, NEW t \in Things, HandOver(a, b, t)
    PROVE  SettingIInv'
<1> PICK s : s = Scene
  OBVIOUS
<1> PICK clears : clears = HeldBy(a, t)
  OBVIOUS
<1>1. Stated(s, clears, {Relation("holding", b, t, Placeless)}) /\ clears # {}
  BY DEF HandOver
<1>2. Whole(s) /\ Unseen(s) /\ s.relations = relations /\ s.subjects = subjects
  BY CurrentScene
<1>3. clears \in SUBSET s.relations
  BY <1>2 DEF HeldBy
<1>4. t \in subjects
  BY <1>1, HadIsThere DEF HeldBy
<1>5. Settable(s, clears, {Relation("holding", b, t, Placeless)})
  BY <1>2, <1>4, Separate, StatedRelation DEF Occupancy
<1> QED
  BY <1>1, <1>2, <1>3, <1>5, StatedKeeps

\* A thing is put down, with a place or without.
LEMMA PutDownKeeps ==
    ASSUME SettingIInv, NEW a \in Actors, NEW t \in Things, NEW p \in Places, PutDown(a, t, p)
    PROVE  SettingIInv'
<1> PICK s : s = Scene
  OBVIOUS
<1> PICK held : held = HeldBy(a, t)
  OBVIOUS
<1> PICK clears : clears = held \cup OnThing(relations, t)
  OBVIOUS
<1>1. /\ held # {}
      /\ \/ Stated(s, held, {})
         \/ Stated(s, clears, {Relation("located", t, p, Placeless)})
  BY DEF PutDown
<1>2. Whole(s) /\ Unseen(s) /\ s.relations = relations /\ s.subjects = subjects
  BY CurrentScene
<1>3. held \in SUBSET s.relations /\ clears \in SUBSET s.relations
  BY <1>2 DEF HeldBy, OnThing
<1>4. t \in subjects
  BY <1>1, HadIsThere DEF HeldBy
<1>5. Settable(s, held, {})
  BY DEF Settable
<1>6. Settable(s, clears, {Relation("located", t, p, Placeless)})
  BY <1>2, <1>4, Separate, StatedRelation DEF Occupancy
<1> QED
  BY <1>1, <1>2, <1>3, <1>5, <1>6, StatedKeeps

\* A thing is taken off, or from its spot: nothing is set.
LEMMA TakenKeeps ==
    ASSUME SettingIInv, NEW clears \in SUBSET relations, Stated(Scene, clears, {})
    PROVE  SettingIInv'
<1> PICK s : s = Scene
  OBVIOUS
<1>1. Stated(s, clears, {}) /\ Whole(s) /\ Unseen(s) /\ clears \in SUBSET s.relations
  BY CurrentScene
<1>2. Settable(s, clears, {})
  BY DEF Settable
<1> QED
  BY <1>1, <1>2, StatedKeeps

\* A thing is put on a spot of an actor or of another thing.
LEMMA AttachKeeps ==
    ASSUME SettingIInv, NEW t \in Things, NEW x \in Actors \cup Things,
           NEW p \in {"located", "wearing"}, p = "wearing" => x \in Actors, Attach(x, t, p)
    PROVE  SettingIInv'
<1>1. PICK s \in Meant(t) : /\ x \in Things => x \in s.subjects
                            /\ Stated(s, {}, {Relation(p, x, t, Spot)})
  BY DEF Attach
<1>2. Whole(s) /\ Unseen(s) /\ t \in s.subjects
  BY MeantIsThere
<1>3. Settable(s, {}, {Relation(p, x, t, Spot)})
  <2>1. p \in Occupancy \cup {"located"} /\ (p \in Occupancy => x \in Actors) /\ t \notin Places
    BY Separate DEF Occupancy
  <2> QED
    BY <1>1, <1>2, <2>1, StatedRelation
<1> QED
  BY <1>1, <1>2, <1>3, StatedKeeps

\* Things go, all their relations with them.
LEMMA DismissKeeps ==
    ASSUME SettingIInv, NEW t \in Things, Dismiss(t)
    PROVE  SettingIInv'
<1> PICK s : s = Scene
  OBVIOUS
<1> PICK g : g = Gone(s, {t})
  OBVIOUS
<1> PICK after : after = Mirrored(g)
  OBVIOUS
<1>1. PICK gone \in Sweeps(after, {}) : Becomes(Gone(after, gone))
  BY DEF Dismiss
<1>2. /\ Whole(s) /\ Unseen(s) /\ s.relations = relations /\ {t} \in SUBSET s.subjects
      /\ IsFiniteSet(relations) /\ Cardinality(relations) <= MaxRelations
  BY CurrentScene DEF Dismiss, SettingIInv
<1>3. Whole(g) /\ Unseen(g) /\ g.relations \subseteq relations
  BY <1>2, GoneKeeps
<1>4. /\ Whole(after) /\ Unseen(after) /\ Reflected(after)
      /\ after.relations \subseteq relations
  BY <1>3, MirroredKeeps
<1>5. gone \in SUBSET after.subjects
  BY <1>1 DEF Sweeps, Dormant
<1> PICK z : z = Gone(after, gone)
  OBVIOUS
<1>6. Whole(z) /\ Unseen(z) /\ Reflected(z) /\ z.relations \in SUBSET relations
  BY <1>4, <1>5, GoneKeeps
<1>7. Cardinality(z.relations) <= MaxRelations
  BY <1>2, <1>6, FewerCount, SceneStateAssumption DEF SceneStateAssumption
<1> QED
  BY <1>1, <1>6, <1>7, SceneBecomes

\* A dormant thing goes.
LEMMA RetireKeeps ==
    ASSUME SettingIInv, NEW t \in Things, RetireDormant(t)
    PROVE  SettingIInv'
<1> PICK s : s = Scene
  OBVIOUS
<1> PICK z : z = Gone(s, {t})
  OBVIOUS
<1>1. /\ Whole(s) /\ Unseen(s) /\ Reflected(s) /\ s.relations = relations
      /\ {t} \in SUBSET s.subjects /\ Becomes(z)
      /\ IsFiniteSet(relations) /\ Cardinality(relations) <= MaxRelations
  BY CurrentScene DEF RetireDormant, Dormant, SettingIInv
<1>2. Whole(z) /\ Unseen(z) /\ Reflected(z) /\ z.relations \in SUBSET relations
  BY <1>1, GoneKeeps
<1>3. Cardinality(z.relations) <= MaxRelations
  BY <1>1, <1>2, FewerCount, SceneStateAssumption DEF SceneStateAssumption
<1> QED
  BY <1>1, <1>2, <1>3, SceneBecomes

\* The companion takes a thing or puts it on.
LEMMA ActKeeps ==
    ASSUME SettingIInv, NEW t \in Things, NEW p \in Occupancy, Act(p, t)
    PROVE  SettingIInv'
<1> PICK s : s = Scene
  OBVIOUS
<1>1. /\ Whole(s) /\ Unseen(s) /\ s.relations = relations /\ t \in s.subjects
      /\ Controlled(s, {}, {Relation(p, "companion", t, Placeless)})
  BY CurrentScene DEF Act, MayAct
<1>2. Settable(s, {}, {Relation(p, "companion", t, Placeless)})
  BY <1>1, Separate, StatedRelation DEF Occupancy, Actors
<1> QED
  BY <1>1, <1>2, ControlledKeeps

\* A relation is closed.
LEMMA ClosedKeeps ==
    ASSUME SettingIInv, NEW clears \in SUBSET relations, Controlled(Scene, clears, {})
    PROVE  SettingIInv'
<1> PICK s : s = Scene
  OBVIOUS
<1>1. Controlled(s, clears, {}) /\ Whole(s) /\ Unseen(s) /\ clears \in SUBSET s.relations
  BY CurrentScene
<1>2. Settable(s, clears, {})
  BY DEF Settable
<1> QED
  BY <1>1, <1>2, ControlledKeeps

-----------------------------------------------------------------------------

\* An empty scene is whole.
LEMMA SettingInits ==
    ASSUME SettingInit PROVE SettingIInv
<1>1. relations = {} /\ subjects = {} /\ attributes = [t \in Things |-> Bare]
  BY DEF SettingInit
<1>2. Bare \in Mirrors /\ Bare.held_by = Unset /\ Bare.worn_by = Unset
  BY DEF Bare, Mirrors
<1>3. Scene.relations = {} /\ Scene.subjects = {} /\ Scene.attributes = attributes
  BY <1>1 DEF Scene
<1>4. Scene \in SceneRecords
  <2>1. attributes \in [Things -> Mirrors]
    BY <1>1, <1>2
  <2> QED
    BY <1>1, <2>1, SceneTyped DEF Scene
<1>5. IsFiniteSet(relations) /\ Cardinality(relations) = 0
  BY <1>1, FS_EmptySet
<1>6. Whole(Scene)
  BY <1>1, <1>3, <1>4, <1>5 DEF Whole, Involved, Proper, OneOwner, OnePlace, OneHat
<1>7. Unseen(Scene)
  BY <1>1, <1>3 DEF Unseen
<1>8. Reflected(Scene)
  <2>1. \A p, t : HadBy(Scene.relations, p, t) = {}
    BY <1>3 DEF HadBy
  <2> QED
    BY <1>1, <1>2, <1>3, <2>1 DEF Reflected, Sole
<1> QED
  BY <1>5, <1>6, <1>7, <1>8, SceneStateAssumption DEF SettingIInv, SceneStateAssumption

\* A scene nobody touches stays as it is.
LEMMA SettingStutters ==
    ASSUME SettingIInv, UNCHANGED settingVars PROVE SettingIInv'
<1> PICK z : z = Scene
  OBVIOUS
<1>1. Becomes(z) /\ Whole(z) /\ Unseen(z) /\ Reflected(z) /\ z.relations = relations
  BY CurrentScene DEF Becomes, settingVars, Scene
<1> QED
  BY <1>1, SceneBecomes DEF SettingIInv

\* Every operation keeps the invariant.
LEMMA SettingSteps ==
    ASSUME SettingIInv, [SettingNext]_settingVars PROVE SettingIInv'
<1>1. CASE UNCHANGED settingVars
  BY <1>1, SettingStutters
<1>2. CASE \E r \in relations : ClearRelation(r)
  BY <1>2, ClosedKeeps DEF ClearRelation
<1>3. ASSUME NEW t \in Things,
             \/ \E a \in Actors, p \in Occupancy : Occupy(a, p, t)
             \/ \E p \in Places : PlaceAnew(t, p) \/ Locate(t, p)
             \/ \E a, b \in Actors : HandOver(a, b, t)
             \/ \E a \in Actors, p \in Places : PutDown(a, t, p)
             \/ \E a \in Actors : TakeOff(a, t)
             \/ \E x \in Actors \cup Things : Attach(x, t, "located") \/ Detach(x, t)
             \/ \E a \in Actors : Attach(a, t, "wearing")
             \/ \E p \in Occupancy : Act(p, t) \/ ActClears(p, t)
             \/ Dismiss(t) \/ RetireDormant(t)
      PROVE  SettingIInv'
  <2>1. CASE \E a \in Actors, p \in Occupancy : Occupy(a, p, t)
    BY <2>1, OccupyKeeps
  <2>2. CASE \E p \in Places : PlaceAnew(t, p) \/ Locate(t, p)
    BY <2>2, PlacedKeeps
  <2>3. CASE \E a, b \in Actors : HandOver(a, b, t)
    BY <2>3, HandOverKeeps
  <2>4. CASE \E a \in Actors, p \in Places : PutDown(a, t, p)
    BY <2>4, PutDownKeeps
  <2>5. ASSUME NEW a \in Actors, TakeOff(a, t) PROVE SettingIInv'
    <3>1. WornBy(a, t) \in SUBSET relations /\ Stated(Scene, WornBy(a, t), {})
      BY <2>5 DEF TakeOff, WornBy
    <3> QED
      BY <3>1, TakenKeeps
  <2>6. ASSUME NEW x \in Actors \cup Things, Attach(x, t, "located") PROVE SettingIInv'
    BY <2>6, AttachKeeps
  <2>7. ASSUME NEW x \in Actors \cup Things, Detach(x, t) PROVE SettingIInv'
    BY <2>7, TakenKeeps DEF Detach
  <2>8. ASSUME NEW a \in Actors, Attach(a, t, "wearing") PROVE SettingIInv'
    BY <2>8, AttachKeeps
  <2>9. ASSUME NEW p \in Occupancy, Act(p, t) PROVE SettingIInv'
    BY <2>9, ActKeeps
  <2>10. ASSUME NEW p \in Occupancy, ActClears(p, t) PROVE SettingIInv'
    <3> PICK rows : rows = {r \in Had(t) : r.predicate = p /\ r.target = "companion"}
      OBVIOUS
    <3>1. rows \in SUBSET relations /\ Controlled(Scene, rows, {})
      BY <2>10 DEF ActClears, Had
    <3> QED
      BY <3>1, ClosedKeeps
  <2>11. CASE Dismiss(t)
    BY <2>11, DismissKeeps
  <2>12. CASE RetireDormant(t)
    BY <2>12, RetireKeeps
  <2> QED
    BY <1>3, <2>1, <2>2, <2>3, <2>4, <2>5, <2>6, <2>7, <2>8, <2>9, <2>10, <2>11, <2>12
<1> QED
  BY <1>1, <1>2, <1>3 DEF SettingNext

\* What the invariant says of types and coherence.
LEMMA SettingSafe ==
    ASSUME SettingIInv PROVE SettingTypeOK /\ SceneCoherent
<1>1. /\ SettingTypeOK
  <2>1. \A t \in Things : attributes[t] \in Mirrors
    BY DEF SettingIInv, Whole, Scene, SceneRecords
  <2> QED
    BY <2>1, CurrentScene DEF SettingIInv, SettingTypeOK, Mirrors, RelationRecords
<1>2. /\ Involved(Scene) \subseteq subjects
      /\ OneOwner(relations) /\ OnePlace(relations) /\ OneHat(relations)
  BY CurrentScene DEF Whole
<1>3. ~Disagree(Scene)
  BY <1>2, CurrentScene, Undisputed
<1>4. ASSUME NEW t \in Things
      PROVE  /\ attributes[t].held_by = Sole(HadBy(relations, "holding", t))
             /\ attributes[t].worn_by = Sole(HadBy(relations, "wearing", t))
             /\ t \notin subjects => attributes[t] = Bare
             /\ Cardinality({r \in OnThing(relations, t) : r.cause \in Places}) <= 1
  <2> PICK S : S = {r \in OnThing(relations, t) : r.cause \in Places}
    OBVIOUS
  <2>1. IsFiniteSet(S)
    BY CurrentScene, FS_Subset DEF OnThing
  <2>2. \A x, y \in S : x = y
    BY <1>2 DEF OnThing, OnePlace
  <2>3. Cardinality(S) <= 1
    BY <2>1, <2>2, AtMostOne
  <2> QED
    BY <2>3, CurrentScene DEF Reflected, Unseen
<1>5. ASSUME NEW a \in Actors
      PROVE  Cardinality({r \in relations : r.predicate = "wearing" /\ r.target = a
                                            /\ r.cause \in HeadWear /\ r.locus = Placeless}) <= 1
  <2> PICK S : S = {r \in relations : r.predicate = "wearing" /\ r.target = a
                                       /\ r.cause \in HeadWear /\ r.locus = Placeless}
    OBVIOUS
  <2>1. IsFiniteSet(S)
    BY CurrentScene, FS_Subset
  <2>2. \A x, y \in S : x = y
    BY <1>2 DEF OneHat
  <2> QED
    BY <2>1, <2>2, AtMostOne
<1> QED
  BY <1>1, <1>2, <1>3, <1>4, <1>5 DEF SceneCoherent

\* Whatever is said, done and put away, the relations are between things that
\* are there, each thing has one owner, nothing is in two places.
THEOREM SceneStaysCoherent == SettingSpec => [](SettingTypeOK /\ SceneCoherent)
<1>1. SettingInit => SettingIInv
  BY SettingInits
<1>2. SettingIInv /\ [SettingNext]_settingVars => SettingIInv'
  BY SettingSteps
<1>3. SettingIInv => SettingTypeOK /\ SceneCoherent
  BY SettingSafe
<1> QED
  BY <1>1, <1>2, <1>3, PTL DEF SettingSpec

-----------------------------------------------------------------------------
(* The storage: a behaviour is about one of the three.                     *)

StorageIInv == IInv /\ OperationsIInv /\ SettingIInv

\* A step of the storage is a step of one of the three, and a stutter of the others.
LEMMA StorageSteps ==
    [StorageNext]_storageVars
        => [Next]_vars /\ [OperationsNext]_operationVars /\ [SettingNext]_settingVars
  BY DEF StorageNext, storageVars, Leases, Operates, Describes

\* So the three invariants are kept together.
LEMMA StorageKeeps == StorageIInv /\ [StorageNext]_storageVars => StorageIInv'
<1> SUFFICES ASSUME StorageIInv, [StorageNext]_storageVars PROVE StorageIInv'
  OBVIOUS
<1>1. [Next]_vars /\ [OperationsNext]_operationVars /\ [SettingNext]_settingVars
  BY StorageSteps
<1>2. IInv'
  BY <1>1, NextIInv DEF StorageIInv
<1>3. OperationsIInv'
  BY <1>1, NextOperations DEF StorageIInv
<1>4. SettingIInv'
  BY <1>1, SettingSteps DEF StorageIInv
<1>5. QED
  BY <1>2, <1>3, <1>4 DEF StorageIInv

\* The invariants of the three hold of every behaviour of the storage.
THEOREM StorageInductive == StorageSpec => []StorageIInv
<1>1. StorageInit => StorageIInv
  BY InitIInv, InitOperations, SettingInits DEF StorageInit, StorageIInv
<1>2. QED
  BY <1>1, StorageKeeps, PTL DEF StorageSpec

\* Every behaviour of the storage is one of the operations, and one of the scene.
LEMMA StorageIsOperations == StorageSpec => OperationsSpec /\ SettingSpec
<1>1. StorageInit => OperationsInit /\ SettingInit
  BY DEF StorageInit
<1>2. QED
  BY <1>1, StorageSteps, PTL DEF StorageSpec, OperationsSpec, SettingSpec

\* Every variable of the operations and of the scene keeps its type.
THEOREM StorageTyped == StorageSpec => []StoredTypeOK
<1>1. OperationsTypeOK /\ SettingTypeOK => StoredTypeOK
  BY DEF StoredTypeOK
<1>2. QED
  BY <1>1, StorageIsOperations, StorageKeepsType, SceneStaysCoherent, PTL

\* As the run of the whole checks it: writes are fenced from maintenance, which is
\* alone; nobody writes during an operation; what is settled is exact; and the
\* scene stays coherent.
THEOREM StorageIsSafe ==
    StorageSpec => []( /\ WriteFenced /\ MaintenanceAlone /\ NoWriterDuringOperation
                       /\ SettledIsExact /\ SceneCoherent )
<1>1. StorageIInv => WriteFenced /\ MaintenanceAlone
  BY LeaseSafe DEF StorageIInv
<1>2. QED
  BY <1>1, StorageInductive, StorageIsOperations, NobodyWrites, ReadyIsWhole,
     SceneStaysCoherent, PTL

\* Only what was reviewed is erased, and the storage implements the timeline of
\* what a character remembers.
THEOREM StorageRefines == StorageSpec => ErasesOnlyReviewed /\ ImplementsTimeline
<1>1. QED
  BY StorageIsOperations, OnlyReviewedGoes, StorageImplementsTimeline, PTL
=============================================================================
