-------------------------------- MODULE Freeze --------------------------------
(***************************************************************************)
(* Freeze on settle (bench/freeze.c): a body that has held still becomes    *)
(* geoms of the world, and comes back when it is grabbed.                   *)
(*                                                                          *)
(* A body has a name and, as long as it is one, a place in the model's order*)
(* of bodies.  The counters of stillness go by that place and the rest goes *)
(* by name, and every freeze and thaw moves the places.  A geom of the world*)
(* carries the name it had, so the geoms of a thing are counted here.       *)
(*                                                                          *)
(* The physics is external: at every tick any body may move, or turn in     *)
(* place, and bodies may lean on each other.  mj_recompile keeps the order  *)
(* of the bodies that stay and puts a new one last.  MuJoCo is taken to do  *)
(* what it is asked: that a body is not found, a geom not added, a delete   *)
(* refused or a spec not recompiled after it was edited (freeze.c 150, 158, *)
(* 189, 198 and the same calls of weft_thaw) is left out, and so are bodies *)
(* with children, which mjs_delete takes along.  Poses and what a geom      *)
(* looks like are left out too.                                             *)
(***************************************************************************)
EXTENDS Integers, Sequences, FiniteSets, FiniteSetsExt, SequencesExt

CONSTANTS
  Name,           \* the things that are built
  Keep,           \* those that are never frozen: avatars, parts of mechanisms
  Orders,         \* the orders their bodies may be compiled in
  Spinners,       \* those that may turn in place
  PIECES,         \* the geoms of each
  ISLANDS,        \* how many islands the physics tells apart
  still_ticks,    \* weft_freeze_cfg
  max_per_tick,
  MAX_IDS,        \* the geoms weft_thaw has room for
  Faults,         \* "alloc": a tick has no memory for its counters or its list
  MAX_THAWS       \* bound on how often somebody grabs something

ASSUME FreezeConstants ==
  /\ IsFiniteSet(Name) /\ Keep \subseteq Name /\ Spinners \subseteq Name
  /\ Orders \subseteq SetToSeqs(Name)
  /\ PIECES \in [Name -> Nat \ {0}]
  /\ ISLANDS \in Nat /\ still_ticks \in Nat \ {0} /\ max_per_tick \in Nat /\ MAX_IDS \in Nat
  /\ Faults \subseteq {"alloc"} /\ MAX_THAWS \in Nat

VARIABLES
  bodies,      \* the model's bodies, in its order
  geoms,       \* the geoms each thing has on its body
  world,       \* and on the worldbody, under its name
  still_for,   \* weft_freeze_t.still_for; its length is weft_freeze_t.nbody
  moving,      \* the bodies whose linear speed was above still_speed at the last tick
  spinning,    \* and the bodies that turned
  island,      \* which island each was in, 0 for none
  held,        \* history: the ticks each has been in one place since it was a body
  thaws        \* how many thaws there were

vars == << bodies, geoms, world, still_for, moving, spinning, island, held, thaws >>

Place == DOMAIN bodies
Zeros(n) == [b \in 1..n |-> 0]

\* A counter is only ever compared with still_ticks, so it need not pass it.
Longer(n) == Min({n + 1, still_ticks})

\* weft_freeze_init on a model just compiled.
Init ==
  /\ bodies \in Orders
  /\ geoms = PIECES /\ world = [n \in Name |-> 0]
  /\ still_for = Zeros(Cardinality(Name))
  /\ moving = {} /\ spinning = {} /\ island = [n \in Name |-> 0]
  /\ held = [n \in Name |-> 0] /\ thaws = 0

-------------------------------------------------------------------------------
(* weft_freeze_tick.                                                        *)

is_freezable(b) == bodies[b] \notin Keep

\* The counters after this tick.  body_speed is the linear part of cvel alone, so a
\* body that turns in place counts as still.
Counted(mv) ==
  [b \in Place |-> IF is_freezable(b) /\ bodies[b] \notin mv THEN Longer(still_for[b]) ELSE 0]

\* What b shares its island with; a body in no island is alone.
Island(b, isl) == {b} \cup {o \in Place : isl[bodies[b]] # 0 /\ isl[bodies[o]] = isl[bodies[b]]}

\* Variant: the bodies of an island go as each is ready.
ReadyOneByOne(still, isl) == {b \in Place : still[b] >= still_ticks}

\* The bodies that have held still together with all of their island.
Ready(still, isl) ==
  {b \in Place : \A o \in Island(b, isl) : is_freezable(o) /\ still[o] >= still_ticks}

\* The two loops come to o before b: an island is taken at its first body.
Before(o, b, isl) ==
  LET first(x) == Min(Island(x, isl))
  IN  first(o) < first(b) \/ (first(o) = first(b) /\ o < b)

\* The ripe bodies: the first max_per_tick of those ready.
Ripe(ready, isl) ==
  {b \in ready : Cardinality({o \in ready : Before(o, b, isl)}) < max_per_tick}

\* Variant: the counters are cut to the new length and keep their values.
RecountedCut(still, left) == SubSeq(still, 1, Len(left))

\* The counters of a model with other bodies: all of them start again.
Recounted(still, left) == Zeros(Len(left))

\* Variant: the model changed, and the counters stay as they were.
ResizedNot == still_for

\* The tick that finds the model changed resizes the counters and does nothing else.
Resized == Zeros(Len(bodies))

\* The bodies of the model without those that are gone: mj_recompile keeps their order.
Without(s, gone) ==
  LET left[k \in 0..Len(s)] ==
        IF k = 0 THEN << >>
        ELSE IF s[k] \in gone THEN left[k-1] ELSE Append(left[k-1], s[k])
  IN  left[Len(s)]

\* Bodies that lean on each other.  Things of the world are in no island, and a body on
\* its own in one is a body in none.
Leaning ==
  {isl \in [Name -> 0..ISLANDS] :
     \A n \in Name : isl[n] # 0 =>
       n \in Range(bodies) /\ \E o \in Range(bodies) \ {n} : isl[o] = isl[n]}

\* What the physics did since the last tick.  Whether what is kept moves makes no
\* difference to anybody.
Physics ==
  /\ moving' \in SUBSET (Range(bodies) \ Keep)
  /\ spinning' \in SUBSET (Range(bodies) \cap Spinners)
  /\ island' \in Leaning
  /\ held' = [n \in Name |-> IF n \notin Range(bodies) THEN held[n]
                             ELSE IF n \in moving' THEN 0 ELSE Longer(held[n])]

\* The model changed under the counters.
Resize == /\ Len(still_for) # Len(bodies)
          /\ still_for' = Resized
          /\ UNCHANGED << bodies, geoms, world >>

\* What is ripe goes to the world, and the counters start again; when they cannot be
\* reallocated they stay as they are.
Promote(mv, isl) ==
  /\ Len(still_for) = Len(bodies)
  /\ \E still \in {Counted(mv)} : \E ready \in {Ready(still, isl)} :
     \E ripe \in {{bodies[b] : b \in Ripe(ready, isl)}} :
       /\ bodies' = Without(bodies, ripe)
       /\ world' = [n \in Name |-> world[n] + IF n \in ripe THEN geoms[n] ELSE 0]
       /\ geoms' = [n \in Name |-> IF n \in ripe THEN 0 ELSE geoms[n]]
       /\ \/ still_for' = IF ripe = {} THEN still ELSE Recounted(still, Without(bodies, ripe))
          \/ "alloc" \in Faults /\ ripe # {} /\ still_for' = still

\* No memory, at the start of a tick: it returns before it has counted.
Skip == "alloc" \in Faults /\ UNCHANGED << bodies, geoms, world, still_for >>

Tick ==
  /\ Physics
  /\ Resize \/ Promote(moving', island') \/ Skip
  /\ UNCHANGED thaws

-------------------------------------------------------------------------------
(* weft_thaw.                                                               *)

\* Variant: the last geom is left behind.
FoundGeomsButOne(n) == Min({world[n], MAX_IDS} \cup {Max({1, world[n] - 1})})

\* The geoms of the world that carry the name, as many as ids[] holds.
FoundGeoms(n) == Min({world[n], MAX_IDS})

\* A second body of one name would not compile.
Thaw(n) ==
  /\ thaws < MAX_THAWS /\ thaws' = thaws + 1
  /\ FoundGeoms(n) > 0 /\ n \notin Range(bodies)
  /\ bodies' = Append(bodies, n)
  /\ geoms' = [geoms EXCEPT ![n] = FoundGeoms(n)]
  /\ world' = [world EXCEPT ![n] = @ - FoundGeoms(n)]
  /\ held' = [held EXCEPT ![n] = 0]
  /\ UNCHANGED << still_for, moving, spinning, island >>

Next == Tick \/ \E n \in Name : Thaw(n)

\* The caller ticks for as long as the zone runs.
Spec == Init /\ [][Next]_vars /\ WF_vars(Tick)

-------------------------------------------------------------------------------
(* Properties.                                                              *)

\* What a step freezes, and the islands it freezes a part of only.
Frozen == Range(bodies) \ Range(bodies')
Cut(gone, isl) ==
  {i \in 1..ISLANDS : /\ \E n \in gone : isl[n] = i
                      /\ \E o \in Range(bodies) \ gone : isl[o] = i}

\* A thing is there exactly once and whole, as a body with all its geoms or as geoms of
\* the world, however often it froze and came back (freeze.c 160-167, 244-245).
ThingsAreWhole ==
  \A n \in Name :
    \/ n \in Range(bodies) /\ geoms[n] = PIECES[n] /\ world[n] = 0
    \/ n \notin Range(bodies) /\ geoms[n] = 0 /\ world[n] = PIECES[n]

\* Only a thing that itself kept its place for still_ticks ticks in a row is frozen,
\* although the counters go by place in the model and those places move (freeze.h 33-38,
\* "per-body linear speed": whether it turned meanwhile nobody asks).
FrozenWasStill ==
  [][bodies' # bodies => \A n \in Frozen : held'[n] >= still_ticks /\ n \notin Keep]_vars

\* A body spinning in place is still moving, as the comment says, and is not frozen
\* (freeze.c 33-35).  The code freezes it.
SpinningIsMoving == [][bodies' # bodies => Frozen \cap spinning' = {}]_vars

\* What leans on each other freezes together, and only the tick's budget ever cuts a
\* stack: a tick freezes no more than max_per_tick bodies, a tick that freezes fewer
\* freezes whole stacks, and one that freezes as many cuts one stack at most
\* (freeze.c 89-97, 99, 121-122).
StacksFreezeWhole ==
  [][LET cut == Cut(Frozen, island')
     IN  /\ Cardinality(Frozen) <= max_per_tick
         /\ cut # {} => Cardinality(Frozen) = max_per_tick
         /\ \A i, j \in cut : i = j]_vars

\* Once nothing moves any more and nothing leans on what is kept, everything that can be
\* frozen is, although every freeze starts all the counters again (freeze.c 203-210).
EverythingSettles ==
  <>[](moving = {} /\ \A n \in Name, k \in Keep : island[k] # 0 => n = k \/ island[n] # island[k])
    => <>[](Range(bodies) \subseteq Keep)
===============================================================================
