------------------------------ MODULE SceneState ------------------------------
(***************************************************************************)
(* The current scene in the store: the things that were spoken of, the     *)
(* relations they are in, and the attributes that mirror the relations.    *)
(*                                                                         *)
(* A statement is read against the current scene, yields relations to      *)
(* clear and one to set, and is applied in one transaction; companion      *)
(* actions and the frontend's controls apply a single relation.  The store *)
(* closes what cannot be current beside the new relation, derives who      *)
(* holds and wears a thing, and sweeps out things nobody has spoken of.    *)
(*                                                                         *)
(* A statement that contradicts itself or finds a bound reached raises and *)
(* leaves the store as it was.  Which words yield which statement is data, *)
(* so are the time since a thing was last spoken of, which of the retired  *)
(* ones is found again, and the attributes that mirror no relation.        *)
(***************************************************************************)
EXTENDS Naturals, FiniteSets

CONSTANTS Things,         \* what can be spoken of: scene subjects
          HeadWear,       \* the things worn in one exclusive place
          Places,
          MaxDormant,     \* MAX_DORMANT_SCENE_SUBJECTS
          MaxSubjects,    \* MAX_ACTIVE_SCENE_SUBJECTS
          MaxRelations    \* MAX_CURRENT_SCENE_RELATIONS

\* A thing is neither an actor nor a place.
ASSUME SceneStateAssumption ==
    /\ HeadWear \subseteq Things
    /\ Things \cap ({"user", "companion"} \cup Places) = {}
    /\ {MaxDormant, MaxSubjects, MaxRelations} \subseteq Nat

VARIABLES subjects,     \* the current rows of active_scene_subjects
          relations,    \* the current rows of active_scene_relations
          attributes    \* the current mirrors: held_by, worn_by and location

settingVars == <<subjects, relations, attributes>>

Actors     == {"user", "companion"}
Occupancy  == {"holding", "wearing"}
Placeless  == "no locus"
Spot       == "a locus"
Unset      == "unset"
Bare       == [held_by |-> Unset, worn_by |-> Unset, location |-> Unset]

Relation(p, x, c, l) == [predicate |-> p, target |-> x, cause |-> c, locus |-> l]

\* What a transaction works on.
Scene == [subjects |-> subjects, relations |-> relations, attributes |-> attributes]

Mentioned(r) == {r.target, r.cause} \cap Things
Involved(s)  == UNION {Mentioned(r) : r \in s.relations}
Dormant(s)   == s.subjects \ Involved(s)

(***************************************************************************)
(* The life of a thing.                                                    *)
(***************************************************************************)

\* subject_for: the thing meant, if it is here; else it is introduced, or found
\* among the retired ones, with no attribute of its past in either case.
Meant(t) ==
    IF t \in subjects THEN {Scene}
    ELSE IF Cardinality(subjects) >= MaxSubjects THEN {}
    ELSE {[Scene EXCEPT !.subjects = @ \cup {t}, !.attributes[t] = Bare]}

\* What is left when these things are gone: no relation they were in.
Kept(s, gone) == {r \in s.relations : Mentioned(r) \cap gone = {}}

\* _retire_scene_subject
Gone(s, gone) ==
    [subjects   |-> s.subjects \ gone,
     relations  |-> Kept(s, gone),
     attributes |-> [t \in Things |-> IF t \in gone THEN Bare ELSE s.attributes[t]]]

\* sweep_scene_subject_budget: of the dormant things some are too old, but
\* none of those just spoken of; of the others the most recent ones stay.
Sweeps(s, fresh) ==
    LET dormant == Dormant(s)
        stays(kept) == (dormant \ kept) \cap fresh # {} =>
                           kept \subseteq fresh /\ Cardinality(kept) = MaxDormant
    IN  {dormant \ kept : kept \in {k \in SUBSET dormant : Cardinality(k) <= MaxDormant /\ stays(k)}}

(***************************************************************************)
(* Relations.                                                              *)
(***************************************************************************)

\* Rows of one thing's location, and of things applied to it.
OnThing(rs, t) == {r \in rs : r.predicate = "located" /\ r.target = t}

\* The same but for the locus: a thing worn in an exclusive place has a facet
\* there, and none on a spot of another kind.
Alike(x, r) == x = r \/ (r.cause \notin HeadWear /\ [x EXCEPT !.locus = r.locus] = r)

\* The rows a clear selects: one without a locus selects any.
Selected(rs, c) == {x \in rs : x = c \/ (c.locus = Placeless /\ Alike(x, c))}

\* _close_exclusive_relation_conflicts: none for an explicit locus; the
\* comparison with the new row leaves its locus out.
Rivals(rs, r) ==
    LET peers ==
          IF r.predicate = "located" THEN OnThing(rs, r.target)
          ELSE IF r.predicate = "holding"
               THEN {x \in rs : x.predicate = "holding" /\ x.cause = r.cause}
          ELSE IF r.predicate = "wearing"
               THEN {x \in rs : x.predicate = "wearing" /\
                        \/ x.cause = r.cause
                        \/ /\ {x.cause, r.cause} \subseteq HeadWear
                           /\ x.target = r.target /\ x.locus = Placeless}
          ELSE {}
    IN  IF r.locus # Placeless THEN {}
        ELSE {x \in peers : ~Alike(x, r)}

\* apply_scene_relation_proposals: the clears, then the set.
Related(s, clears, sets) ==
    LET kept == [s EXCEPT !.relations = @ \ UNION {Selected(@, c) : c \in clears}]
    IN  [kept EXCEPT !.relations = (@ \ UNION {Rivals(kept.relations, r) : r \in sets}) \cup sets]

(***************************************************************************)
(* Mirrors.                                                                *)
(***************************************************************************)

HadBy(rs, predicate, t) ==
    {r.target : r \in {x \in rs : x.predicate = predicate /\ x.cause = t}}

\* "scene ownership relations disagree for one subject"
Disagree(s) ==
    \E p \in {"holding", "wearing"}, t \in Things : Cardinality(HadBy(s.relations, p, t)) > 1

Sole(owners) == IF owners = {} THEN Unset ELSE CHOOSE a \in owners : TRUE

\* synchronize_scene_ownership_mirrors: of every current thing.
Mirrored(s) ==
    [s EXCEPT !.attributes = [t \in Things |->
        IF t \notin s.subjects THEN @[t]
        ELSE [@[t] EXCEPT !.held_by = Sole(HadBy(s.relations, "holding", t)),
                          !.worn_by = Sole(HadBy(s.relations, "wearing", t))]]]

\* add_relation's update of location, which goes with the statement: the
\* last one of a thing counts.
Located(s, clears, sets) ==
    LET of(t, rs) == {r \in rs : r.predicate = "located" /\ r.target = t}
    IN  [s EXCEPT !.attributes = [t \in Things |->
            IF of(t, sets) # {}
            THEN [@[t] EXCEPT !.location = (CHOOSE r \in of(t, sets) : TRUE).cause]
            ELSE IF of(t, clears) # {} THEN [@[t] EXCEPT !.location = Unset]
            ELSE @[t]]]

(***************************************************************************)
(* Transactions.                                                           *)
(***************************************************************************)

Becomes(s) ==
    /\ subjects' = s.subjects /\ relations' = s.relations /\ attributes' = s.attributes

\* Mutant: contradictory owners are taken over.
AdmitAll(s) == Cardinality(s.relations) <= MaxRelations

Admissible(s) == ~Disagree(s) /\ Cardinality(s.relations) <= MaxRelations

\* observe_canonical_user_continuity
Stated(s, clears, sets) ==
    LET after == Related(Located(s, clears, sets), clears, sets)
        shown == Mirrored(after)
        fresh == UNION {Mentioned(r) : r \in clears \cup sets}
    IN  /\ Admissible(after)
        /\ \E gone \in Sweeps(shown, fresh) : Becomes(Gone(shown, gone))

\* apply_governed_companion_action, apply_continuity_control: no attribute goes with
\* it but the mirrors, and nothing is swept out.
Controlled(s, clears, sets) ==
    LET after == Related(s, clears, sets)
    IN  /\ Admissible(after)
        /\ Becomes(Mirrored(after))

(***************************************************************************)
(* Statements.                                                             *)
(***************************************************************************)

HeldBy(a, t) == {r \in relations : r.predicate = "holding" /\ r.target = a /\ r.cause = t}
WornBy(a, t) == {r \in relations : r.predicate = "wearing" /\ r.target = a /\ r.cause = t}

\* Who has a thing in hand or on.
Had(t) == {r \in relations : r.predicate \in Occupancy /\ r.cause = t}

\* add_held, add_worn: a thing has one owner and leaves its place.
Occupy(a, p, t) ==
    LET now == Relation(p, a, t, Placeless)
        others == {r \in Had(t) : r.predicate # p \/ r.target # a}
    IN  \E s \in Meant(t) : Stated(s, others \cup OnThing(relations, t), {now})

\* add_located_subject
PlaceAnew(t, p) ==
    \E s \in Meant(t) :
        Stated(s, Had(t) \cup OnThing(relations, t), {Relation("located", t, p, Placeless)})

\* locate_subject: of a thing known already, whoever has it.
Locate(t, p) ==
    /\ t \in subjects
    /\ Stated(Scene, OnThing(relations, t), {Relation("located", t, p, Placeless)})

\* transfer
HandOver(a, b, t) ==
    /\ a # b /\ HeldBy(a, t) # {}
    /\ Stated(Scene, HeldBy(a, t), {Relation("holding", b, t, Placeless)})

\* put_down_reference, release_subject, with a place or without.
PutDown(a, t, p) ==
    /\ HeldBy(a, t) # {}
    /\ \/ Stated(Scene, HeldBy(a, t), {})
       \/ Stated(Scene, HeldBy(a, t) \cup OnThing(relations, t),
                   {Relation("located", t, p, Placeless)})

\* clear_worn, clear_worn_reference: of the one row that matches.
TakeOff(a, t) ==
    /\ Cardinality(WornBy(a, t)) = 1
    /\ Stated(Scene, WornBy(a, t), {})

\* parse_locus_clause: a thing on a spot of an actor or of a thing; nothing
\* else of it is cleared.
Attach(x, t, p) ==
    \E s \in Meant(t) :
        /\ x \in Things => x \in s.subjects /\ x # t
        /\ Stated(s, {}, {Relation(p, x, t, Spot)})

\* "remove the ribbon from the box lid"
Detach(x, t) ==
    LET rows == {r \in relations : r.target = x /\ r.cause = t /\ r.locus = Spot}
    IN  rows # {} /\ Stated(Scene, rows, {})

\* retire_named
Dismiss(t) ==
    /\ t \in subjects
    /\ LET after == Mirrored(Gone(Scene, {t}))
       IN  \E gone \in Sweeps(after, {}) : Becomes(Gone(after, gone))

(***************************************************************************)
(* Companion actions and controls.                                         *)
(***************************************************************************)

\* validate_companion_action_decision: what the user has is not taken, what
\* the companion holds is not put on, full hands take nothing.
MayAct(p, t) ==
    /\ t \in subjects
    /\ \A r \in Had(t) : r.target = "companion" /\ r.predicate # p
    /\ p = "holding" => \A u \in Things : HeldBy("companion", u) = {}
    /\ p = "wearing" => t \in HeadWear /\ HeldBy("companion", t) = {}

Act(p, t) ==
    /\ MayAct(p, t)
    /\ Controlled(Scene, {}, {Relation(p, "companion", t, Placeless)})

\* The companion puts away what it holds or wears.
ActClears(p, t) ==
    LET rows == {r \in Had(t) : r.predicate = p /\ r.target = "companion"}
    IN  Cardinality(rows) = 1 /\ Controlled(Scene, rows, {})

\* clear_scene_relation, interact_scene_relation
ClearRelation(r) == r \in relations /\ Controlled(Scene, {r}, {})

\* retire_scene_subject: of a dormant one.
RetireDormant(t) == t \in Dormant(Scene) /\ Becomes(Gone(Scene, {t}))

SettingInit ==
    /\ subjects = {}
    /\ relations = {}
    /\ attributes = [t \in Things |-> Bare]

SettingNext ==
    \/ \E t \in Things :
          \/ \E a \in Actors, p \in Occupancy : Occupy(a, p, t)
          \/ \E p \in Places : PlaceAnew(t, p) \/ Locate(t, p)
          \/ \E a, b \in Actors : HandOver(a, b, t)
          \/ \E a \in Actors, p \in Places : PutDown(a, t, p)
          \/ \E a \in Actors : TakeOff(a, t)
          \/ \E x \in Actors \cup Things : Attach(x, t, "located") \/ Detach(x, t)
          \/ \E a \in Actors : Attach(a, t, "wearing")
          \/ \E p \in Occupancy : Act(p, t) \/ ActClears(p, t)
          \/ Dismiss(t) \/ RetireDormant(t)
    \/ \E r \in relations : ClearRelation(r)

SettingSpec == SettingInit /\ [][SettingNext]_settingVars

SettingTypeOK ==
    /\ subjects \subseteq Things
    /\ \A t \in Things :
          /\ {attributes[t].held_by, attributes[t].worn_by} \subseteq Actors \cup {Unset}
          /\ attributes[t].location \in Places \cup Things \cup {Unset}
    /\ \A r \in relations :
          /\ r.predicate \in Occupancy \cup {"located"}
          /\ r.target \in Actors \cup Things /\ r.cause \in Things \cup Places
          /\ r.locus \in {Placeless, Spot}
    /\ Cardinality(relations) <= MaxRelations

(***************************************************************************)
(* Properties.                                                             *)
(***************************************************************************)

\* However things change hands, one statement after another: a relation is
\* between things that are there; a thing has at most one holder and one
\* wearer, who are the ones its attributes name; nobody wears two things in
\* one exclusive place, and nothing is in two places at once.
SceneCoherent ==
    /\ Involved(Scene) \subseteq subjects
    /\ ~Disagree(Scene)
    /\ \A t \in Things :
          /\ attributes[t].held_by = Sole(HadBy(relations, "holding", t))
          /\ attributes[t].worn_by = Sole(HadBy(relations, "wearing", t))
          /\ t \notin subjects => attributes[t] = Bare
          /\ Cardinality({r \in OnThing(relations, t) : r.cause \in Places}) <= 1
    /\ \A a \in Actors :
          Cardinality({r \in relations : r.predicate = "wearing" /\ r.target = a
                                         /\ r.cause \in HeadWear /\ r.locus = Placeless}) <= 1

\* "Relations remain authoritative ...; both mutations are applied
\* atomically": the location a thing shows is a place the relations give it,
\* and it shows one if they give it any.
LocationFollows ==
    \A t \in subjects :
        LET shown  == attributes[t].location
            places == {r.cause : r \in OnThing(relations, t)}
        IN  IF shown = Unset THEN places = {} ELSE shown \in places
=============================================================================
