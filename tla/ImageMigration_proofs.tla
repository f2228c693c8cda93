------------------------- MODULE ImageMigration_proofs -------------------------
(***************************************************************************)
(* Proofs about ImageMigration, for any image streams, namespaces and      *)
(* plans and any number of changes and faults.  One inductive invariant,   *)
(* IInv, says of every dim how its phases go with its verdict (Judging) and *)
(* with its lists (Listing), and follows an image stream nobody touches    *)
(* from the list (Keeping) to the registry (Following, Copying).           *)
(***************************************************************************)
EXTENDS ImageMigration, FiniteSetTheorems, SequenceTheorems, TLAPS

Early == {"Created", "Started", "Prepare", "CreateDestinationNamespaces", "ListImageStreams"}
Making == "CreateDirectImageStreamMigrations"
DimPhases == Early \cup {Making, Waiting, "MigrationFailed", "Completed"}
DismPhases == {"Created", "Started", "Prepare", "MigrateImageStream", "Completed"}

Dims ==
    [exists : BOOLEAN, seen : BOOLEAN, phase : DimPhases, itinerary : {"", "PVC", "Failed"},
     errors : BOOLEAN, failed : BOOLEAN, succeeded : BOOLEAN, new : SUBSET Streams,
     successful : SUBSET Streams, deleted : SUBSET Streams, bad : SUBSET Streams,
     notFound : SUBSET Streams, ref : [Streams -> Nat], listed : SUBSET Streams]
Disms ==
    [of : Nat, stream : Streams, uid : Nat, dest : Namespaces, phase : DismPhases,
     errors : BOOLEAN, seen : BOOLEAN, kept : BOOLEAN]
Parents ==
    [phase : {"create", "wait", "done", "failed", "cancel", "cancelled"}, warned : BOOLEAN,
     of : Nat]
Worlds ==
    [uid : [Streams -> Nat], source : SUBSET DOMAIN setup.mapping,
     dest : [Namespaces -> NamespaceStates],
     cluster : [Sides -> {"ok", "missing", "notready", "noregistry"}]]

Typed ==
    /\ setup \in Setups
    /\ parent \in Parents
    /\ dims \in Seq(Dims)
    /\ \A k \in DOMAIN dims, s \in Streams : dims[k].ref[s] <= Len(disms)
    /\ disms \in Seq(Disms)
    /\ world \in Worlds
    /\ images \subseteq Streams \X Namespaces
    /\ touched \subseteq Streams
    /\ spent \in [{"change", "fault"} -> Nat]

\* The phase of a dim, its errors and its verdict.
Judging(k) ==
    /\ dims[k].errors = dims[k].failed
    /\ dims[k].itinerary = "" => dims[k].phase = "Created"
    /\ dims[k].itinerary = "Failed" => dims[k].phase \in {"MigrationFailed", "Completed"}
    /\ dims[k].itinerary = "Failed" \/ dims[k].phase = "MigrationFailed" => dims[k].failed
    /\ dims[k].phase = "Completed" => dims[k].succeeded # dims[k].errors
    /\ dims[k].succeeded => dims[k].phase = "Completed" /\ dims[k].bad = {} /\ dims[k].new = {}

Listed(k) == dims[k].phase \in {Making, Waiting} \/ dims[k].succeeded

\* The lists of a dim are apart, and all that was listed is in them.
Listing(k) ==
    /\ dims[k].new \cap (dims[k].successful \cup dims[k].deleted \cup dims[k].bad) = {}
    /\ dims[k].successful \cap (dims[k].deleted \cup dims[k].bad) = {}
    /\ dims[k].deleted \cap dims[k].bad = {}
    /\ dims[k].phase \in Early =>
          /\ dims[k].new \cup dims[k].successful \cup dims[k].deleted \cup dims[k].bad
                 \cup dims[k].notFound = {}
          /\ \A s \in Streams : dims[k].ref[s] = 0
    /\ Listed(k) =>
          dims[k].new \cup dims[k].successful \cup dims[k].deleted \cup dims[k].bad
              = dims[k].listed

Untouched(s) == s \in setup.picked \cap setup.there /\ s \notin touched
Safe(s) == Untouched(s) /\ ~Doomed(s)
There(s) == <<s, Target(s)>> \in images

\* What is around an image stream that nobody touches stays.
Around ==
    \A s \in Streams :
        /\ Untouched(s) => world.uid[s] # 0
        /\ Safe(s) => world.dest[Target(s)] # "terminating"

\* A dim that has listed such an image stream keeps it.
Keeping(k) ==
    \A s \in Streams :
        /\ Untouched(s) /\ Listed(k) => s \in dims[k].listed
        /\ Untouched(s) => s \notin dims[k].notFound \cup dims[k].deleted

\* A dism that has completed without errors has copied its image stream.
Copying ==
    \A i \in DOMAIN disms :
        /\ disms[i].dest = Target(disms[i].stream)
        /\ disms[i].phase = "Completed" /\ ~disms[i].errors /\ Safe(disms[i].stream)
              => There(disms[i].stream)

\* The dism an image stream refers to is its own.
Following(k) ==
    \A s \in Streams :
        /\ dims[k].ref[s] # 0 => /\ disms[dims[k].ref[s]].stream = s
                                 /\ Listed(k) => s \in dims[k].listed
                                 /\ s \notin dims[k].notFound \cup dims[k].deleted
        /\ s \in dims[k].successful =>
              /\ dims[k].ref[s] # 0 /\ disms[dims[k].ref[s]].phase = "Completed"
              /\ Safe(s) => There(s)

Sound(k) == Judging(k) /\ Listing(k) /\ Keeping(k) /\ Following(k)

Going ==
    parent.phase = "done" /\ ~parent.warned =>
        parent.of \in DOMAIN dims /\ dims[parent.of].succeeded

IInv ==
    /\ Typed /\ Around /\ Copying /\ Going
    /\ \A k \in DOMAIN dims : Sound(k)

-----------------------------------------------------------------------------
(* Lemmas about the operators *)

\* The phases that follow one another in the three itineraries.
LEMMA AfterFacts ==
    /\ After(DimItinerary, "Created") = "Started"
    /\ After(DimItinerary, "Started") = "Prepare"
    /\ After(DimItinerary, "Prepare") = "CreateDestinationNamespaces"
    /\ After(DimItinerary, "CreateDestinationNamespaces") = "ListImageStreams"
    /\ After(DimItinerary, "ListImageStreams") = Making
    /\ After(DimItinerary, Making) = Waiting
    /\ After(DimItinerary, Waiting) = "Completed"
    /\ After(FailedItinerary, "MigrationFailed") = "Completed"
    /\ After(DismItinerary, "Created") = "Started"
    /\ After(DismItinerary, "Started") = "Prepare"
    /\ After(DismItinerary, "Prepare") = "MigrateImageStream"
    /\ After(DismItinerary, "MigrateImageStream") = "Completed"
    /\ After(DismItinerary, "MigrationFailed") = "Completed"
<1>1. \A i \in Nat : (CHOOSE j \in {i} : TRUE) = i
  OBVIOUS
<1>2. /\ Len(DimItinerary) = 8 /\ DimItinerary[1] = "Created" /\ DimItinerary[2] = "Started"
      /\ DimItinerary[3] = "Prepare" /\ DimItinerary[4] = "CreateDestinationNamespaces"
      /\ DimItinerary[5] = "ListImageStreams" /\ DimItinerary[6] = Making
      /\ DimItinerary[7] = Waiting /\ DimItinerary[8] = "Completed"
  BY DEF DimItinerary, Making, Waiting
<1>3. /\ Len(DismItinerary) = 5 /\ DismItinerary[1] = "Created"
      /\ DismItinerary[2] = "Started" /\ DismItinerary[3] = "Prepare"
      /\ DismItinerary[4] = "MigrateImageStream" /\ DismItinerary[5] = "Completed"
  BY DEF DismItinerary
<1>4. /\ Len(FailedItinerary) = 2 /\ FailedItinerary[1] = "MigrationFailed"
      /\ FailedItinerary[2] = "Completed"
  BY DEF FailedItinerary
<1> HIDE DEF DimItinerary, DismItinerary, FailedItinerary
<1>5. ASSUME NEW i \in 1..7
      PROVE  After(DimItinerary, DimItinerary[i]) = DimItinerary[i + 1]
  <2>1. {j \in 1..(Len(DimItinerary) - 1) : DimItinerary[j] = DimItinerary[i]} = {i}
    BY <1>2 DEF Making, Waiting
  <2> QED BY <2>1, <1>1, <1>2 DEF After, Making, Waiting
<1>6. ASSUME NEW i \in 1..4
      PROVE  After(DismItinerary, DismItinerary[i]) = DismItinerary[i + 1]
  <2>1. {j \in 1..(Len(DismItinerary) - 1) : DismItinerary[j] = DismItinerary[i]} = {i}
    BY <1>3
  <2> QED BY <2>1, <1>1 DEF After
<1>7. After(FailedItinerary, FailedItinerary[1]) = FailedItinerary[2]
  <2>1. {j \in 1..(Len(FailedItinerary) - 1) : FailedItinerary[j] = FailedItinerary[1]} = {1}
    BY <1>4
  <2> QED BY <2>1, <1>1 DEF After
<1>8. After(DismItinerary, "MigrationFailed") = "Completed"
  <2> {i \in 1..(Len(DismItinerary) - 1) : DismItinerary[i] = "MigrationFailed"} = {}
    BY <1>3
  <2> QED
    BY DEF After
<1> QED
  BY <1>2, <1>3, <1>4, <1>5, <1>6, <1>7, <1>8

\* What a setup has.
LEMMA SetupFacts ==
    ASSUME setup \in Setups
    PROVE  /\ setup.picked \subseteq Streams /\ setup.there \subseteq Streams
           /\ \A s \in Streams : setup.home[s] \in DOMAIN setup.mapping
           /\ \A s \in Streams : Target(s) \in Namespaces
           /\ setup.dest \in [Namespaces -> NamespaceStates]
BY SetupsAssumption DEF SetupsAssumption, Target, Namespaces

\* The namespaces, the types of a dism and the targets depend on the setup only.
LEMMA SameTypes ==
    ASSUME setup' = setup
    PROVE  Namespaces' = Namespaces /\ Disms' = Disms /\ \A s : Target(s)' = Target(s)
BY DEF Namespaces, Disms, Target

\* A reference is the place of a dism, or 0.
LEMMA RefFacts ==
    ASSUME Typed
    PROVE  /\ DOMAIN disms = 1..Len(disms) /\ Len(disms) \in Nat
           /\ \A i \in DOMAIN disms : disms[i] \in Disms
           /\ \A k \in DOMAIN dims :
                 /\ dims[k] \in Dims
                 /\ \A s \in Streams : /\ dims[k].ref[s] \in Nat
                                       /\ dims[k].ref[s] # 0 => dims[k].ref[s] \in DOMAIN disms
<1>1. DOMAIN disms = 1..Len(disms) /\ Len(disms) \in Nat
      /\ \A i \in DOMAIN disms : disms[i] \in Disms
  BY DEF Typed
<1>2. \A k \in DOMAIN dims : dims[k] \in Dims BY DEF Typed
<1>3. \A k \in DOMAIN dims, s \in Streams :
         dims[k].ref[s] \in Nat /\ dims[k].ref[s] <= Len(disms)
  BY <1>2 DEF Typed, Dims
<1> QED BY <1>1, <1>2, <1>3

\* A dim is written.
LEMMA WriteFacts ==
    ASSUME Typed, NEW k \in DOMAIN dims, NEW m \in Dims, Writes(k, m)
    PROVE  /\ dims' \in Seq(Dims) /\ DOMAIN dims' = DOMAIN dims /\ dims'[k] = m
           /\ \A j \in DOMAIN dims \ {k} : dims'[j] = dims[j]
BY DEF Typed, Writes

\* A dim is written, and what goes with it has its type.
LEMMA WriteTyped ==
    ASSUME Typed, NEW k \in DOMAIN dims, NEW m \in Dims, Writes(k, m), setup' = setup,
           disms' \in Seq(Disms), Len(disms) <= Len(disms'),
           \A s \in Streams : m.ref[s] <= Len(disms'),
           parent' \in Parents, world' \in Worlds, images' \subseteq Streams \X Namespaces,
           touched' \subseteq Streams, spent' \in [{"change", "fault"} -> Nat]
    PROVE  /\ Typed' /\ dims'[k] = m /\ DOMAIN dims' = DOMAIN dims
           /\ \A j \in DOMAIN dims \ {k} : dims'[j] = dims[j]
<1>1. /\ dims' \in Seq(Dims) /\ DOMAIN dims' = DOMAIN dims /\ dims'[k] = m
      /\ \A j \in DOMAIN dims \ {k} : dims'[j] = dims[j]
  BY WriteFacts
<1>2. \A j \in DOMAIN dims, s \in Streams : dims[j].ref[s] \in Nat /\ dims[j].ref[s] <= Len(disms)
  BY RefFacts DEF Typed
<1>3. Len(disms) \in Nat /\ Len(disms') \in Nat BY RefFacts
<1>4. \A j \in DOMAIN dims', s \in Streams : dims'[j].ref[s] <= Len(disms')
  BY <1>1, <1>2, <1>3
<1>5. Parents' = Parents /\ Worlds' = Worlds /\ Namespaces' = Namespaces /\ Disms' = Disms
  BY SameTypes DEF Parents, Worlds
<1> QED BY <1>1, <1>4, <1>5 DEF Typed

\* A pass that does not handle a failure finds the dim in the phase it handles,
\* without errors; nothing else of it is changed but the itinerary.
LEMMA TurnFacts ==
    ASSUME IInv, NEW k \in DOMAIN dims, NEW phase, phase # "MigrationFailed", DimTurn(k, phase)
    PROVE  /\ Handled(dims[k]) = [dims[k] EXCEPT !.itinerary = "PVC"]
           /\ dims[k].phase = phase /\ phase # "Completed" /\ phase \in DimPhases
           /\ dims[k].exists /\ ~dims[k].errors /\ ~dims[k].failed /\ ~dims[k].succeeded
<1>0. dims[k] \in Dims BY RefFacts DEF IInv
<1>1. ~dims[k].failed /\ ~dims[k].errors
  <2> SUFFICES ASSUME dims[k].failed \/ dims[k].errors PROVE FALSE
    BY <1>0 DEF Dims
  <2>1. DimItineraryOf(dims[k]) = "Failed" BY DEF DimItineraryOf
  <2>2. CASE dims[k].itinerary = "Failed"
    BY <1>0, <2>1, <2>2 DEF DimTurn, Handled, Dims, IInv, Sound, Judging
  <2>3. CASE dims[k].itinerary # "Failed"
    BY <1>0, <2>1, <2>3 DEF DimTurn, Handled, Dims, Steps, FailedItinerary
  <2> QED BY <2>2, <2>3
<1>2. DimItineraryOf(dims[k]) = "PVC" BY <1>1 DEF DimItineraryOf
<1>3. dims[k].phase = phase /\ Handled(dims[k]) = [dims[k] EXCEPT !.itinerary = "PVC"]
  <2>1. CASE dims[k].itinerary = "PVC"
    BY <1>0, <1>2, <2>1 DEF DimTurn, Handled, Dims
  <2>2. CASE dims[k].itinerary = ""
    <3> Steps("PVC")[1] = "Created" BY DEF Steps, DimItinerary
    <3> dims[k].phase = "Created" BY <2>2 DEF IInv, Sound, Judging
    <3> QED BY <1>0, <1>2, <2>2 DEF DimTurn, Handled, Dims
  <2>3. CASE dims[k].itinerary = "Failed"
    BY <1>1, <2>3 DEF IInv, Sound, Judging
  <2> QED BY <1>0, <2>1, <2>2, <2>3 DEF Dims
<1> QED BY <1>0, <1>1, <1>3 DEF DimTurn, IInv, Sound, Judging, Dims

\* A pass that handles a failure completes the dim.
LEMMA FailureFacts ==
    ASSUME IInv, NEW k \in DOMAIN dims, DimTurn(k, "MigrationFailed")
    PROVE  /\ Advanced(Handled(dims[k])) = [dims[k] EXCEPT !.itinerary = "Failed", !.phase = "Completed",
                                                    !.succeeded = FALSE]
           /\ dims[k].failed /\ dims[k].errors /\ ~dims[k].succeeded
<1>0. dims[k] \in Dims BY RefFacts DEF IInv
<1>1. dims[k].failed /\ dims[k].errors /\ ~dims[k].succeeded
  <2>1. ~dims[k].succeeded BY DEF DimTurn, IInv, Sound, Judging
  <2> SUFFICES ASSUME ~dims[k].failed PROVE FALSE
    BY <2>1 DEF IInv, Sound, Judging
  <2>2. DimItineraryOf(dims[k]) = "PVC" BY DEF DimItineraryOf, IInv, Sound, Judging
  <2>3. Steps("PVC")[1] = "Created" BY DEF Steps, DimItinerary
  <2>4. dims[k].phase # "MigrationFailed" BY DEF IInv, Sound, Judging
  <2> QED BY <1>0, <2>2, <2>3, <2>4 DEF DimTurn, Handled, Dims
<1>2. DimItineraryOf(dims[k]) = "Failed" BY <1>1 DEF DimItineraryOf
<1>3. Handled(dims[k]) = [dims[k] EXCEPT !.itinerary = "Failed", !.phase = "MigrationFailed"]
  <2> Steps("Failed")[1] = "MigrationFailed" BY DEF Steps, FailedItinerary
  <2> QED BY <1>0, <1>2 DEF DimTurn, Handled, Dims
<1>4. After(Steps("Failed"), "MigrationFailed") = "Completed"
  BY AfterFacts DEF Steps
<1> DEFINE h == Handled(dims[k])
<1>5. h.itinerary = "Failed" /\ h.phase = "MigrationFailed" /\ h.failed /\ ~h.succeeded
  BY <1>0, <1>1, <1>3 DEF Dims
<1>6. (h.succeeded \/ ("Completed" = "Completed" /\ ~h.failed)) = FALSE
  BY <1>5
<1>7. Advanced(h) = [h EXCEPT !.phase = "Completed", !.succeeded = FALSE]
  BY <1>4, <1>5, <1>6 DEF Advanced
<1> QED BY <1>0, <1>1, <1>3, <1>7 DEF Dims

\* A pass that has nothing in its way goes on to the next phase.
LEMMA AdvanceFacts ==
    ASSUME NEW m \in Dims, m.itinerary = "PVC", ~m.failed, ~m.succeeded,
           NEW next \in DimPhases, After(DimItinerary, m.phase) = next
    PROVE  Advanced(m) = [m EXCEPT !.phase = next, !.succeeded = (next = "Completed")]
BY DEF Advanced, Steps, Dims

\* A migration that does not stop at a phase goes on to the next one.
LEMMA GoesOn ==
    ASSUME IInv, NEW k \in DOMAIN dims, NEW phase, phase # "MigrationFailed", DimTurn(k, phase),
           NEW next \in DimPhases \ {"Completed"}, After(DimItinerary, phase) = next
    PROVE  /\ Advanced(Handled(dims[k])) =
                 [dims[k] EXCEPT !.itinerary = "PVC", !.phase = next, !.succeeded = FALSE]
           /\ dims[k].phase = phase /\ ~dims[k].errors /\ ~dims[k].failed /\ ~dims[k].succeeded
<1> DEFINE h == [dims[k] EXCEPT !.itinerary = "PVC"]
<1>0. dims[k] \in Dims BY RefFacts DEF IInv
<1>1. Handled(dims[k]) = h /\ dims[k].phase = phase /\ ~dims[k].errors /\ ~dims[k].failed /\ ~dims[k].succeeded
  BY TurnFacts
<1>2. h \in Dims /\ h.itinerary = "PVC" /\ ~h.failed /\ ~h.succeeded /\ h.phase = phase
  BY <1>0, <1>1 DEF Dims
<1>3. Advanced(h) = [h EXCEPT !.phase = next, !.succeeded = (next = "Completed")]
  BY ZenonT(60), <1>2, AdvanceFacts
<1> QED BY <1>0, <1>1, <1>3 DEF Dims

-----------------------------------------------------------------------------
(* Steps that leave alone what the invariant is about *)

SameLists(m, n) ==
    /\ m.new = n.new /\ m.successful = n.successful /\ m.deleted = n.deleted /\ m.bad = n.bad
    /\ m.notFound = n.notFound /\ m.ref = n.ref /\ m.listed = n.listed

\* The dim is as it was, or has failed in the phase it is in.
SameDim(m, n) ==
    /\ SameLists(m, n) /\ m.phase = n.phase /\ m.itinerary = n.itinerary
    /\ m.succeeded = n.succeeded
    /\ \/ m.errors = n.errors /\ m.failed = n.failed
       \/ n.errors /\ n.failed /\ m.phase # "Completed"

\* The dism's stay what they are, and what is copied; more of both may come.
Growing ==
    /\ DOMAIN disms \subseteq DOMAIN disms'
    /\ \A i \in DOMAIN disms :
          /\ disms'[i].stream = disms[i].stream
          /\ disms[i].phase = "Completed" => disms'[i].phase = "Completed"
    /\ \A s \in Streams : Safe(s) /\ There(s) => There(s)'

\* A dim that a step leaves alone.
LEMMA SoundKeeps ==
    ASSUME IInv, Typed', setup' = setup, touched \subseteq touched', Growing,
           NEW k \in DOMAIN dims, k \in DOMAIN dims', SameDim(dims[k], dims'[k])
    PROVE  Sound(k)'
<1>0. /\ dims[k] \in Dims
      /\ \A s \in Streams : dims[k].ref[s] # 0 => dims[k].ref[s] \in DOMAIN disms
  BY RefFacts DEF IInv
<1>1. dims'[k] \in Dims BY DEF Typed
<1>2. Sound(k) BY DEF IInv
<1>3. \A s : /\ Untouched(s)' => Untouched(s)
             /\ Safe(s)' => Safe(s)
  BY DEF Target, Untouched, Safe, Doomed
<1>4. Listed(k)' = Listed(k) BY DEF SameDim, Listed
<1>5. /\ dims'[k].ref = dims[k].ref /\ dims'[k].notFound = dims[k].notFound
      /\ dims'[k].deleted = dims[k].deleted /\ dims'[k].successful = dims[k].successful
      /\ dims'[k].listed = dims[k].listed
  BY DEF SameDim, SameLists
<1>6. Judging(k)' BY <1>0, <1>1, <1>2 DEF Sound, Judging, SameDim, Dims, SameLists
<1>7. Listing(k)' BY <1>2, <1>4 DEF Sound, Listing, SameDim, SameLists
<1>8. Keeping(k)' BY <1>2, <1>3, <1>4, <1>5 DEF Sound, Keeping
<1>9. Following(k)'
  <2> SUFFICES ASSUME NEW s \in Streams
      PROVE  /\ dims[k].ref[s] # 0 => /\ disms'[dims[k].ref[s]].stream = s
                                      /\ Listed(k) => s \in dims[k].listed
                                      /\ s \notin dims[k].notFound \cup dims[k].deleted
             /\ s \in dims[k].successful =>
                   /\ dims[k].ref[s] # 0 /\ disms'[dims[k].ref[s]].phase = "Completed"
                   /\ Safe(s)' => There(s)'
    BY <1>4, <1>5 DEF Following
  <2>1. Following(k) BY <1>2 DEF Sound
  <2>2. dims[k].ref[s] # 0 => /\ disms'[dims[k].ref[s]].stream = disms[dims[k].ref[s]].stream
                              /\ disms[dims[k].ref[s]].phase = "Completed" =>
                                      disms'[dims[k].ref[s]].phase = "Completed"
    BY <1>0 DEF Growing
  <2>3. Safe(s)' /\ There(s) => There(s)' BY <1>3 DEF Growing
  <2> QED BY <1>3, <2>1, <2>2, <2>3 DEF Following
<1> QED BY <1>6, <1>7, <1>8, <1>9 DEF Sound

\* A step of one dim, after which that is sound.
LEMMA StepKeeps ==
    ASSUME IInv, Typed', UNCHANGED <<setup, parent, touched>>, Growing, Around', Copying',
           NEW k \in DOMAIN dims, DOMAIN dims' = DOMAIN dims,
           \A j \in DOMAIN dims \ {k} : dims'[j] = dims[j], ~dims[k].succeeded, Sound(k)'
    PROVE  IInv'
<1>1. ASSUME NEW j \in DOMAIN dims, j # k PROVE Sound(j)'
  <2> SameDim(dims[j], dims'[j]) BY <1>1 DEF SameDim, SameLists
  <2> QED BY SoundKeeps
<1>2. Going' BY DEF IInv, Going
<1> QED BY <1>1, <1>2 DEF IInv

\* What stays the same with the image streams and what is copied.
LEMMA SameStreams ==
    ASSUME setup' = setup, touched' = touched
    PROVE  /\ \A s : Target(s)' = Target(s) /\ Untouched(s)' = Untouched(s)
                     /\ Safe(s)' = Safe(s)
           /\ images' = images => \A s : There(s)' = There(s)
BY DEF Target, Untouched, Safe, There, Doomed

\* So does what is around them, when no namespace starts to go.
LEMMA AroundKeeps ==
    ASSUME IInv, setup' = setup, touched' = touched, world'.uid = world.uid,
           \A n \in Namespaces : world'.dest[n] = "terminating" => world.dest[n] = "terminating"
    PROVE  Around'
<1>1. \A s \in Streams : Target(s) \in Namespaces BY SetupFacts DEF IInv, Typed
<1> QED BY <1>1, SameStreams DEF IInv, Around

\* A step that neither moves a dim nor a dism, and takes nothing away.
LEMMA FrameKeeps ==
    ASSUME IInv, Typed', setup' = setup, touched' = touched, DOMAIN dims' = DOMAIN dims,
           \A k \in DOMAIN dims : SameDim(dims[k], dims'[k]),
           DOMAIN disms' = DOMAIN disms,
           \A i \in DOMAIN disms :
              /\ disms'[i].stream = disms[i].stream /\ disms'[i].dest = disms[i].dest
              /\ disms'[i].phase = disms[i].phase /\ disms'[i].errors = disms[i].errors,
           world'.uid = world.uid, images' = images,
           \A n \in Namespaces : world'.dest[n] = "terminating" => world.dest[n] = "terminating",
           Going'
    PROVE  IInv'
<1>1. \A s : Target(s)' = Target(s) /\ Safe(s)' = Safe(s) /\ There(s)' = There(s)
  BY SameStreams
<1>2. Growing BY <1>1 DEF Growing
<1>3. Around' BY AroundKeeps
<1>4. \A i \in DOMAIN disms : disms[i].stream \in Streams BY RefFacts DEF IInv, Disms
<1>5. Copying' BY <1>1, <1>4 DEF IInv, Copying
<1>6. \A k \in DOMAIN dims : Sound(k)' BY <1>2, SoundKeeps
<1> QED BY <1>3, <1>5, <1>6 DEF IInv

\* A dim goes on before it has listed anything, or ends after a failure.
LEMMA AdvanceKeeps ==
    ASSUME IInv, Typed', UNCHANGED <<setup, parent, disms, images, touched>>,
           NEW k \in DOMAIN dims, DOMAIN dims' = DOMAIN dims,
           \A j \in DOMAIN dims \ {k} : dims'[j] = dims[j],
           SameLists(dims[k], dims'[k]), ~dims[k].succeeded, ~dims'[k].succeeded,
           dims'[k].errors = dims[k].errors /\ dims'[k].failed = dims[k].failed,
           \/ /\ dims[k].phase \in Early /\ dims'[k].phase \in Early /\ ~dims[k].failed
              /\ dims'[k].itinerary = "PVC"
           \/ /\ dims[k].failed /\ dims'[k].phase = "Completed"
              /\ dims'[k].itinerary = "Failed",
           world'.uid = world.uid,
           \A n \in Namespaces : world'.dest[n] = "terminating" => world.dest[n] = "terminating"
    PROVE  IInv'
<1>1. dims[k] \in Dims /\ dims'[k] \in Dims BY DEF IInv, Typed
<1>2. \A s : Target(s)' = Target(s) /\ Untouched(s)' = Untouched(s) /\ Safe(s)' = Safe(s)
           /\ There(s)' = There(s)
  BY SameStreams
<1>3. ~Listed(k)' BY DEF Listed, Early, Making, Waiting
<1>4. Judging(k)' BY <1>1 DEF IInv, Sound, Judging, Dims, Early
<1>5. Listing(k)' BY <1>3 DEF IInv, Sound, Listing, SameLists, Early
<1>6. Keeping(k)' BY <1>2, <1>3 DEF IInv, Sound, Keeping, SameLists
<1>7. Following(k)' BY <1>2, <1>3 DEF IInv, Sound, Following, SameLists
<1>8. Growing BY <1>2 DEF Growing
<1>9. Around' BY AroundKeeps
<1>10. Copying' BY <1>2 DEF IInv, Copying
<1>11. Sound(k)' BY <1>4, <1>5, <1>6, <1>7 DEF Sound
<1> QED BY <1>8, <1>9, <1>10, <1>11, StepKeeps

-----------------------------------------------------------------------------
(* The steps of the dims *)

\* What a step keeps that changes nothing but a dim.
LEMMA StillTyped ==
    ASSUME Typed, NEW k \in DOMAIN dims, NEW m \in Dims, Writes(k, m), m.ref = dims[k].ref,
           UNCHANGED <<setup, parent, disms, images, touched>>, world' \in Worlds,
           spent' \in [{"change", "fault"} -> Nat]
    PROVE  /\ Typed' /\ dims'[k] = m /\ DOMAIN dims' = DOMAIN dims
           /\ \A j \in DOMAIN dims \ {k} : dims'[j] = dims[j]
<1>1. /\ disms' \in Seq(Disms) /\ Len(disms) <= Len(disms') /\ parent' \in Parents
      /\ images' \subseteq Streams \X Namespaces /\ touched' \subseteq Streams
  BY RefFacts DEF Typed
<1>2. \A s \in Streams : m.ref[s] <= Len(disms') BY DEF Typed
<1> QED BY <1>1, <1>2, WriteTyped

\* A step of the itinerary that does no more than that keeps the invariant.
LEMMA DimAdvancesKeeps ==
    ASSUME IInv, NEW k \in DOMAIN dims, DimAdvances(k)
    PROVE  IInv'
<1>0. Typed /\ dims[k] \in Dims BY RefFacts DEF IInv
<1>1. UNCHANGED <<setup, parent, disms, world, images, touched, spent>> BY DEF DimAdvances
<1>2. world' \in Worlds /\ spent' \in [{"change", "fault"} -> Nat] BY <1>0, <1>1 DEF Typed
<1>3. CASE DimTurn(k, "MigrationFailed")
  <2>1. PICK m : m = [dims[k] EXCEPT !.itinerary = "Failed", !.phase = "Completed",
                                     !.succeeded = FALSE]
    OBVIOUS
  <2>2. Writes(k, m) /\ dims[k].failed /\ ~dims[k].succeeded
    BY <1>3, <2>1, FailureFacts DEF DimAdvances
  <2>3. m \in Dims /\ m.ref = dims[k].ref BY <1>0, <2>1 DEF Dims, DimPhases
  <2>4. /\ Typed' /\ dims'[k] = m /\ DOMAIN dims' = DOMAIN dims
        /\ \A j \in DOMAIN dims \ {k} : dims'[j] = dims[j]
    BY <1>0, <1>1, <1>2, <2>2, <2>3, StillTyped
  <2>5. /\ SameLists(dims[k], m) /\ ~m.succeeded /\ m.phase = "Completed"
        /\ m.errors = dims[k].errors /\ m.failed = dims[k].failed /\ m.itinerary = "Failed"
    BY <1>0, <2>1 DEF SameLists, Dims
  <2> QED BY <1>1, <2>2, <2>4, <2>5, AdvanceKeeps
<1>4. CASE \E phase \in {"Created", "Started", "Prepare"} : DimTurn(k, phase)
  <2>1. PICK phase \in {"Created", "Started", "Prepare"} : DimTurn(k, phase) BY <1>4
  <2>2. PICK next \in Early : After(DimItinerary, phase) = next BY <2>1, AfterFacts DEF Early
  <2>3. next \in DimPhases \ {"Completed"} BY DEF DimPhases, Early
  <2>4. PICK m : m = [dims[k] EXCEPT !.itinerary = "PVC", !.phase = next, !.succeeded = FALSE]
    OBVIOUS
  <2>5. Writes(k, m) /\ dims[k].phase = phase /\ ~dims[k].failed /\ ~dims[k].succeeded
    BY <2>1, <2>2, <2>3, <2>4, GoesOn DEF DimAdvances
  <2>6. m \in Dims /\ m.ref = dims[k].ref BY <1>0, <2>3, <2>4 DEF Dims
  <2>7. /\ Typed' /\ dims'[k] = m /\ DOMAIN dims' = DOMAIN dims
        /\ \A j \in DOMAIN dims \ {k} : dims'[j] = dims[j]
    BY <1>0, <1>1, <1>2, <2>5, <2>6, StillTyped
  <2>8. /\ SameLists(dims[k], m) /\ ~m.succeeded /\ m.phase \in Early
        /\ m.errors = dims[k].errors /\ m.failed = dims[k].failed /\ m.itinerary = "PVC"
    BY <1>0, <2>4 DEF SameLists, Dims
  <2>9. dims[k].phase \in Early BY <2>1, <2>5 DEF Early
  <2> QED BY <1>1, <2>5, <2>7, <2>8, <2>9, AdvanceKeeps
<1> QED BY <1>3, <1>4 DEF DimAdvances

\* Namespaces are made from what is absent.
LEMMA NamespacesFacts ==
    ASSUME Typed, setup' = setup, NEW N \in SUBSET NamespacesToCreate,
           world' = [world EXCEPT !.dest =
                        [n \in DOMAIN @ |-> IF n \in N THEN "present" ELSE @[n]]]
    PROVE  /\ world' \in Worlds /\ world'.uid = world.uid
           /\ \A n \in Namespaces : world'.dest[n] = "terminating" =>
                                            world.dest[n] = "terminating"
BY DEF Typed, Worlds, NamespaceStates

\* Creating the destination namespaces keeps the invariant.
LEMMA EnsureNamespacesKeeps ==
    ASSUME IInv, NEW k \in DOMAIN dims, EnsureDestinationNamespaces(k)
    PROVE  IInv'
<1>0. Typed /\ dims[k] \in Dims BY RefFacts DEF IInv
<1>1. UNCHANGED <<setup, parent, disms, images, touched, spent>>
      /\ spent' \in [{"change", "fault"} -> Nat]
  BY <1>0 DEF EnsureDestinationNamespaces, Typed
<1>2. PICK m : m = [dims[k] EXCEPT !.itinerary = "PVC", !.phase = "ListImageStreams",
                                   !.succeeded = FALSE]
  OBVIOUS
<1>3. /\ Writes(k, m) /\ dims[k].phase = "CreateDestinationNamespaces"
      /\ ~dims[k].failed /\ ~dims[k].succeeded
  <2>1. "ListImageStreams" \in DimPhases \ {"Completed"} BY DEF DimPhases, Early
  <2>2. /\ Advanced(Handled(dims[k])) = [dims[k] EXCEPT !.itinerary = "PVC",
                                                 !.phase = "ListImageStreams",
                                                 !.succeeded = FALSE]
        /\ dims[k].phase = "CreateDestinationNamespaces"
        /\ ~dims[k].failed /\ ~dims[k].succeeded
    BY <2>1, AfterFacts, GoesOn DEF EnsureDestinationNamespaces
  <2> QED BY <1>2, <2>2 DEF EnsureDestinationNamespaces
<1>4. /\ world' \in Worlds /\ world'.uid = world.uid
      /\ \A n \in Namespaces : world'.dest[n] = "terminating" => world.dest[n] = "terminating"
  BY <1>0, <1>1, NamespacesFacts DEF EnsureDestinationNamespaces
<1>5. m \in Dims /\ m.ref = dims[k].ref BY <1>0, <1>2 DEF Dims, DimPhases, Early
<1>6. /\ Typed' /\ dims'[k] = m /\ DOMAIN dims' = DOMAIN dims
      /\ \A j \in DOMAIN dims \ {k} : dims'[j] = dims[j]
  BY <1>0, <1>1, <1>3, <1>4, <1>5, StillTyped
<1>7. /\ SameLists(dims[k], m) /\ ~m.succeeded /\ m.phase \in Early
      /\ m.errors = dims[k].errors /\ m.failed = dims[k].failed /\ m.itinerary = "PVC"
  BY <1>0, <1>2 DEF SameLists, Dims, Early
<1>8. dims[k].phase \in Early BY <1>3 DEF Early
<1> QED BY <1>1, <1>3, <1>4, <1>6, <1>7, <1>8, AdvanceKeeps

\* A pass that is cut leaves the dim as it was, or failed.
LEMMA CutFacts ==
    ASSUME IInv, UNCHANGED <<setup, parent, disms, images, touched>>, world' \in Worlds,
           spent' \in [{"change", "fault"} -> Nat], NEW k \in DOMAIN dims,
           dims[k].phase # "Completed", UNCHANGED dims \/ Writes(k, Failed(dims[k]))
    PROVE  /\ Typed' /\ DOMAIN dims' = DOMAIN dims /\ Going'
           /\ \A j \in DOMAIN dims : SameDim(dims[j], dims'[j])
<1>0. Typed /\ dims[k] \in Dims BY RefFacts DEF IInv
<1>1. PICK m \in {dims[k], Failed(dims[k])} : Writes(k, m)
  <2>1. dims = [dims EXCEPT ![k] = dims[k]] BY <1>0 DEF Typed
  <2> QED BY <2>1 DEF Writes
<1>2. m \in Dims /\ m.ref = dims[k].ref /\ SameDim(dims[k], m)
  BY <1>0 DEF Dims, Failed, SameDim, SameLists
<1>3. /\ Typed' /\ dims'[k] = m /\ DOMAIN dims' = DOMAIN dims
      /\ \A j \in DOMAIN dims \ {k} : dims'[j] = dims[j]
  BY <1>0, <1>1, <1>2, StillTyped
<1>4. \A j \in DOMAIN dims : SameDim(dims[j], dims'[j])
  BY <1>2, <1>3 DEF SameDim, SameLists
<1>5. Going' BY <1>3, <1>4 DEF IInv, Going, SameDim
<1> QED BY <1>3, <1>4, <1>5

\* An error while they are created keeps it.
LEMMA CutNamespacesKeeps ==
    ASSUME IInv, NEW k \in DOMAIN dims, CutNamespaces(k)
    PROVE  IInv'
<1>0. Typed BY DEF IInv
<1>1. UNCHANGED <<setup, parent, disms, images, touched>> /\ dims[k].phase # "Completed"
      /\ spent' \in [{"change", "fault"} -> Nat]
  BY <1>0 DEF CutNamespaces, DimTurn, Spend, Typed
<1>2. /\ world' \in Worlds /\ world'.uid = world.uid
      /\ \A n \in Namespaces : world'.dest[n] = "terminating" => world.dest[n] = "terminating"
  BY <1>0, <1>1, NamespacesFacts DEF CutNamespaces
<1>3. /\ Typed' /\ DOMAIN dims' = DOMAIN dims /\ Going'
      /\ \A j \in DOMAIN dims : SameDim(dims[j], dims'[j])
  BY <1>1, <1>2, CutFacts DEF CutNamespaces
<1> QED BY <1>1, <1>2, <1>3, FrameKeeps

\* An error while the image streams are listed leaves the lists as they are.
LEMMA CutListKeeps ==
    ASSUME IInv, NEW k \in DOMAIN dims, CutList(k)
    PROVE  IInv'
<1>0. Typed BY DEF IInv
<1>1. UNCHANGED <<setup, parent, disms, world, images, touched>> /\ dims[k].phase # "Completed"
      /\ spent' \in [{"change", "fault"} -> Nat] /\ world' \in Worlds
  BY <1>0 DEF CutList, DimTurn, Spend, Typed
<1>2. /\ Typed' /\ DOMAIN dims' = DOMAIN dims /\ Going'
      /\ \A j \in DOMAIN dims : SameDim(dims[j], dims'[j])
  BY <1>1, CutFacts DEF CutList
<1> QED BY <1>1, <1>2, FrameKeeps

\* The list of a pass is the image streams of the source at that moment.
LEMMA ListKeeps ==
    ASSUME IInv, NEW k \in DOMAIN dims, ListImageStreams(k)
    PROVE  IInv'
<1>0. Typed /\ dims[k] \in Dims /\ setup \in Setups BY RefFacts DEF IInv, Typed
<1>1. UNCHANGED <<setup, parent, disms, world, images, touched, spent>> /\ world' \in Worlds
      /\ spent' \in [{"change", "fault"} -> Nat]
  BY <1>0 DEF ListImageStreams, Typed
<1>2. PICK m : m = [dims[k] EXCEPT !.itinerary = "PVC", !.phase = Making, !.succeeded = FALSE,
                                   !.new = ImageStreams, !.listed = ImageStreams]
  OBVIOUS
<1>3. /\ Writes(k, m) /\ dims[k].phase = "ListImageStreams" /\ ~dims[k].errors
      /\ ~dims[k].failed /\ ~dims[k].succeeded
  <2>1. Making \in DimPhases \ {"Completed"} BY DEF DimPhases, Making
  <2>2. /\ Advanced(Handled(dims[k])) =
              [dims[k] EXCEPT !.itinerary = "PVC", !.phase = Making, !.succeeded = FALSE]
        /\ dims[k].phase = "ListImageStreams" /\ ~dims[k].errors /\ ~dims[k].failed
        /\ ~dims[k].succeeded
    BY <2>1, AfterFacts, GoesOn DEF ListImageStreams
  <2> QED BY <1>2, <2>2 DEF ListImageStreams
<1>4. ImageStreams \subseteq Streams BY <1>0, SetupFacts DEF ImageStreams
<1>5. /\ dims[k].new \cup dims[k].successful \cup dims[k].deleted \cup dims[k].bad
             \cup dims[k].notFound = {}
      /\ \A s \in Streams : dims[k].ref[s] = 0
  BY <1>3 DEF IInv, Sound, Listing, Early
<1>6. /\ m \in Dims /\ m.phase = Making /\ ~m.errors /\ ~m.failed /\ ~m.succeeded
      /\ m.itinerary = "PVC" /\ m.new = ImageStreams /\ m.successful = {} /\ m.deleted = {}
      /\ m.bad = {} /\ m.notFound = {} /\ m.ref = dims[k].ref /\ m.listed = ImageStreams
  BY <1>0, <1>2, <1>3, <1>4, <1>5 DEF Dims, DimPhases
<1>7. /\ Typed' /\ dims'[k] = m /\ DOMAIN dims' = DOMAIN dims
      /\ \A j \in DOMAIN dims \ {k} : dims'[j] = dims[j]
  BY <1>0, <1>1, <1>3, <1>6, StillTyped
<1>8. Judging(k)' BY <1>6, <1>7 DEF Judging, Making, Dims
<1>9. Listing(k)' BY <1>6, <1>7 DEF Listing, Making, Early
<1>10. \A s : /\ Untouched(s)' = Untouched(s) /\ Safe(s)' = Safe(s)
              /\ Target(s)' = Target(s) /\ There(s)' = There(s)
  BY <1>1, SameStreams
<1>11. Keeping(k)'
  <2>1. \A s \in Streams : Untouched(s) => s \in ImageStreams
    BY DEF IInv, Around, Untouched, ImageStreams
  <2> QED BY <2>1, <1>6, <1>7, <1>10 DEF Keeping
<1>12. Following(k)' BY <1>5, <1>6, <1>7 DEF Following
<1>13. Sound(k)' BY <1>8, <1>9, <1>11, <1>12 DEF Sound
<1>14. Growing BY <1>1, <1>10 DEF Growing
<1>15. Around' BY <1>1, AroundKeeps
<1>16. Copying' BY <1>1, <1>10 DEF IInv, Copying
<1> QED BY <1>1, <1>3, <1>7, <1>13, <1>14, <1>15, <1>16, StepKeeps

\* The dism's that are made come after those that are there.
LEMMA CreatedFacts ==
    ASSUME Typed, NEW k \in DOMAIN dims, NEW list \in SetToSeqs(DismsToCreate(k)),
           NEW n \in 0..Cardinality(DismsToCreate(k)), setup' = setup
    PROVE  /\ Created(k, list, n) \in Seq(Disms) /\ Len(Created(k, list, n)) = Len(disms) + n
           /\ n \in Nat
           /\ \A i \in DOMAIN disms : Created(k, list, n)[i] = disms[i]
           /\ \A i \in 1..n : /\ list[i] \in DismsToCreate(k)
                             /\ Created(k, list, n)[Len(disms) + i] = Dism(k, list[i])
           /\ \A i \in DOMAIN Created(k, list, n) :
                 i \in DOMAIN disms \/ \E j \in 1..n : i = Len(disms) + j
<1>1. dims[k] \in Dims /\ dims[k].new \in SUBSET Streams /\ k \in Nat
  <2>1. k \in Nat BY DEF Typed
  <2>2. dims[k] \in Dims BY RefFacts
  <2> QED BY <2>1, <2>2 DEF Dims
<1>2. DismsToCreate(k) \in SUBSET Streams BY <1>1 DEF DismsToCreate
<1>3. Cardinality(DismsToCreate(k)) \in Nat
  BY <1>2, FS_Subset, FS_CardinalityType, SetupsAssumption DEF SetupsAssumption
<1>4. n \in Nat BY <1>3
<1>5. \A i \in 1..n : list[i] \in DismsToCreate(k) BY <1>3 DEF SetToSeqs
<1>6. \A s \in DismsToCreate(k) : Dism(k, s) \in Disms
  BY <1>1, <1>2, SetupFacts DEF Dism, Disms, Typed, Worlds, DismPhases
<1> DEFINE new == [i \in 1..n |-> Dism(k, list[i])]
<1>7. new \in Seq(Disms) /\ Len(new) = n /\ \A i \in 1..n : new[i] = Dism(k, list[i])
  BY <1>4, <1>5, <1>6
<1>8. disms \in Seq(Disms) BY DEF Typed
<1>9. Created(k, list, n) = disms \o new BY DEF Created
<1> HIDE DEF new
<1>10. /\ disms \o new \in Seq(Disms) /\ Len(disms \o new) = Len(disms) + n
       /\ \A i \in 1..(Len(disms) + n) :
             (disms \o new)[i] = IF i <= Len(disms) THEN disms[i] ELSE new[i - Len(disms)]
  BY <1>7, <1>8, ConcatProperties
<1>11. Len(disms) \in Nat /\ DOMAIN disms = 1..Len(disms) BY <1>8
<1>12. \A i \in 1..n : (disms \o new)[Len(disms) + i] = Dism(k, list[i])
  <2> TAKE i \in 1..n
  <2> Len(disms) + i \in 1..(Len(disms) + n) /\ ~(Len(disms) + i <= Len(disms))
      /\ (Len(disms) + i) - Len(disms) = i
    BY <1>4, <1>11
  <2> QED BY <1>7, <1>10
<1>13. \A i \in DOMAIN (disms \o new) :
          i \in DOMAIN disms \/ \E j \in 1..n : i = Len(disms) + j
  <2> TAKE i \in DOMAIN (disms \o new)
  <2> i \in 1..(Len(disms) + n) BY <1>10
  <2> SUFFICES ASSUME i > Len(disms) PROVE \E j \in 1..n : i = Len(disms) + j
    BY <1>4, <1>11
  <2> i - Len(disms) \in 1..n /\ i = Len(disms) + (i - Len(disms)) BY <1>4, <1>11
  <2> QED OBVIOUS
<1>14. \A i \in DOMAIN disms : (disms \o new)[i] = disms[i]
  BY <1>4, <1>10, <1>11
<1> QED BY <1>4, <1>5, <1>9, <1>10, <1>12, <1>13, <1>14

\* What is noted of them: a reference to a new dism is to that of the image stream.
WellNoted(k, m, list, n, c) ==
    /\ c = [m EXCEPT !.notFound = c.notFound, !.ref = c.ref]
    /\ c \in Dims /\ c.notFound \subseteq dims[k].new
    /\ \A s \in c.notFound : world.uid[s] = 0
    /\ \A s \in Streams : c.ref[s] # 0 => s \notin c.notFound
    /\ \A s \in Streams : c.ref[s] = dims[k].ref[s] \/
          \E i \in 1..n : c.ref[s] = Len(disms) + i /\ list[i] = s /\ s \in DismsToCreate(k)

\* The notes are well made.
LEMMA NotedFacts ==
    ASSUME Typed, NEW k \in DOMAIN dims, NEW list \in SetToSeqs(DismsToCreate(k)), NEW m \in Dims,
           NEW n \in 0..Cardinality(DismsToCreate(k)), SameLists(m, dims[k]), setup' = setup,
           NEW c, c = Noted(m, list, n)
    PROVE  WellNoted(k, m, list, n, c)
<1> DEFINE ref == [s \in Streams |-> IF \E i \in 1..n : list[i] = s
                    THEN Len(disms) + (CHOOSE i \in 1..n : list[i] = s) ELSE m.ref[s]]
           none == {s \in m.new : m.ref[s] = 0 /\ world.uid[s] = 0}
<1>0. Len(disms) \in Nat BY RefFacts
<1>1. n \in Nat /\ \A i \in 1..n : list[i] \in DismsToCreate(k) BY CreatedFacts
<1>2. c = [m EXCEPT !.notFound = none, !.ref = ref]
  BY DEF Noted, Dims
<1>3. \A s \in Streams : ref[s] = m.ref[s] \/
         \E i \in 1..n : ref[s] = Len(disms) + i /\ list[i] = s /\ s \in DismsToCreate(k)
  <2> TAKE s \in Streams
  <2>1. CASE \E i \in 1..n : list[i] = s
    <3> DEFINE i == CHOOSE i \in 1..n : list[i] = s
    <3> i \in 1..n /\ list[i] = s BY <2>1
    <3> ref[s] = Len(disms) + i BY <2>1
    <3> HIDE DEF i
    <3> QED BY <1>1
  <2>2. CASE ~\E i \in 1..n : list[i] = s BY <2>2
  <2> QED BY <2>1, <2>2
<1>4. \A s \in Streams : m.ref[s] \in Nat /\ ref[s] \in Nat
  <2> TAKE s \in Streams
  <2>1. m.ref[s] \in Nat BY DEF Dims
  <2>2. ref[s] = m.ref[s] \/ \E i \in 1..n : ref[s] = Len(disms) + i BY <1>3
  <2> HIDE DEF ref
  <2> QED BY <1>0, <1>1, <2>1, <2>2
<1>5. ref \in [Streams -> Nat] BY <1>4
<1>6. none \subseteq Streams BY DEF Dims
<1>7. m.ref = dims[k].ref /\ m.new = dims[k].new BY DEF SameLists
<1>8. \A s \in Streams : ref[s] # 0 => s \notin none
  BY <1>3, <1>7 DEF DismsToCreate, Creates
<1> HIDE DEF ref, none
<1>9. c \in Dims /\ c.notFound = none /\ c.ref = ref
  BY <1>2, <1>5, <1>6 DEF Dims
<1> QED BY <1>2, <1>3, <1>7, <1>8, <1>9 DEF none, WellNoted

\* The dism's are made, and noted or not.
LEMMA MakingKeeps ==
    ASSUME IInv, UNCHANGED <<setup, parent, world, images, touched>>,
           spent' \in [{"change", "fault"} -> Nat], NEW k \in DOMAIN dims, dims[k].phase = Making,
           NEW list \in SetToSeqs(DismsToCreate(k)), NEW n \in 0..Cardinality(DismsToCreate(k)),
           disms' = Created(k, list, n), NEW m \in Dims, Writes(k, m), Judging(k)',
           m.phase \in {Making, Waiting}, ~m.succeeded,
           /\ m.new = dims[k].new /\ m.successful = dims[k].successful
           /\ m.deleted = dims[k].deleted /\ m.bad = dims[k].bad /\ m.listed = dims[k].listed,
           \A s \in m.notFound : s \in dims[k].notFound \/ world.uid[s] = 0,
           \A s \in Streams : m.ref[s] # 0 => s \notin m.notFound,
           \A s \in Streams : m.ref[s] = dims[k].ref[s] \/
              \E i \in 1..n : m.ref[s] = Len(disms) + i /\ list[i] = s /\ s \in DismsToCreate(k)
    PROVE  IInv'
<1>0. Typed /\ dims[k] \in Dims /\ Sound(k) BY RefFacts DEF IInv
<1>1. /\ disms' \in Seq(Disms) /\ Len(disms') = Len(disms) + n /\ n \in Nat
      /\ Len(disms) \in Nat /\ DOMAIN disms = 1..Len(disms)
      /\ \A i \in DOMAIN disms : disms'[i] = disms[i]
      /\ \A i \in 1..n : /\ list[i] \in DismsToCreate(k)
                         /\ disms'[Len(disms) + i] = Dism(k, list[i])
      /\ \A i \in DOMAIN disms' : i \in DOMAIN disms \/ \E j \in 1..n : i = Len(disms) + j
  <2>1. Len(disms) \in Nat /\ DOMAIN disms = 1..Len(disms) BY <1>0, RefFacts
  <2>2. setup' = setup OBVIOUS
  <2> QED BY <1>0, <2>1, <2>2, CreatedFacts
<1>2. \A s \in Streams : m.ref[s] <= Len(disms')
  <2> TAKE s \in Streams
  <2> dims[k].ref[s] \in Nat /\ dims[k].ref[s] <= Len(disms) BY <1>0, RefFacts DEF Typed
  <2> QED BY <1>1
<1>3. /\ Typed' /\ dims'[k] = m /\ DOMAIN dims' = DOMAIN dims
      /\ \A j \in DOMAIN dims \ {k} : dims'[j] = dims[j]
  <2>1. /\ parent' \in Parents /\ world' \in Worlds /\ images' \subseteq Streams \X Namespaces
        /\ touched' \subseteq Streams /\ Len(disms) <= Len(disms')
    BY <1>0, <1>1 DEF Typed
  <2> QED BY <2>1, <1>0, <1>1, <1>2, WriteTyped
<1>4. Listing(k)' BY <1>0, <1>3 DEF Sound, Listing, Making, Waiting, Early, Listed
<1>5. Listed(k) BY DEF Listed
<1>6. \A s : /\ Untouched(s)' = Untouched(s) /\ Safe(s)' = Safe(s)
             /\ Target(s)' = Target(s) /\ There(s)' = There(s)
  BY SameStreams
<1>7. m.notFound \subseteq Streams /\ dims[k].notFound \subseteq Streams
      /\ DismsToCreate(k) \subseteq dims[k].new /\ dims[k].new \subseteq Streams
  BY <1>0 DEF Dims, DismsToCreate
<1>8. Keeping(k)' BY <1>0, <1>3, <1>5, <1>6, <1>7 DEF IInv, Around, Sound, Keeping
<1>9. \A s \in DismsToCreate(k) : /\ Dism(k, s).stream = s /\ Dism(k, s).dest = Target(s)
                                  /\ Dism(k, s).phase = "Created"
  BY DEF Dism
<1>10. ASSUME NEW i \in DOMAIN disms'
       PROVE  /\ disms'[i].dest = Target(disms'[i].stream)
              /\ disms'[i].phase = "Completed" /\ ~disms'[i].errors /\ Safe(disms'[i].stream)
                    => There(disms'[i].stream)
  <2>1. CASE i \in DOMAIN disms BY <2>1, <1>1 DEF IInv, Copying
  <2>2. CASE \E j \in 1..n : i = Len(disms) + j
    <3>1. PICK s \in DismsToCreate(k) : disms'[i] = Dism(k, s) BY <2>2, <1>1
    <3> QED BY <3>1, <1>9
  <2> QED BY <2>1, <2>2, <1>1
<1>11. ASSUME NEW s \in Streams, m.ref[s] # 0
       PROVE  /\ disms'[m.ref[s]].stream = s /\ s \in dims[k].listed
              /\ s \notin m.notFound \cup m.deleted
  <2>1. CASE m.ref[s] = dims[k].ref[s]
    <3> dims[k].ref[s] \in DOMAIN disms BY <2>1, <1>0, <1>11, RefFacts
    <3> QED BY <2>1, <1>0, <1>1, <1>5, <1>11 DEF Sound, Following
  <2>2. CASE \E i \in 1..n : m.ref[s] = Len(disms) + i /\ list[i] = s
                             /\ s \in DismsToCreate(k)
    <3>1. s \in dims[k].new BY <2>2, <1>7
    <3>2. s \in dims[k].listed /\ s \notin dims[k].deleted
      BY <3>1, <1>0, <1>5 DEF Sound, Listing
    <3> QED BY <2>2, <3>2, <1>1, <1>9, <1>11
  <2> QED BY <2>1, <2>2
<1>12. ASSUME NEW s \in Streams, s \in m.successful
       PROVE  /\ m.ref[s] # 0 /\ disms'[m.ref[s]].phase = "Completed"
              /\ Safe(s) => There(s)
  <2>1. /\ dims[k].ref[s] # 0 /\ disms[dims[k].ref[s]].phase = "Completed"
        /\ Safe(s) => There(s)
    BY <1>0, <1>12 DEF Sound, Following
  <2>2. s \notin DismsToCreate(k) BY <2>1 DEF DismsToCreate
  <2>3. m.ref[s] = dims[k].ref[s] BY <2>2
  <2> QED BY <2>1, <2>3, <1>0, <1>1, RefFacts
<1>13. Following(k)' BY <1>3, <1>6, <1>11, <1>12 DEF Following
<1>14. Sound(k)' BY <1>4, <1>8, <1>13 DEF Sound
<1>15. Growing BY <1>1, <1>6 DEF Growing
<1>16. Around' BY AroundKeeps
<1>17. Copying' BY <1>6, <1>10 DEF Copying
<1>18. ~dims[k].succeeded BY <1>0 DEF Sound, Judging, Making
<1> QED BY <1>3, <1>14, <1>15, <1>16, <1>17, <1>18, StepKeeps

\* The migrations of the streams are created, one for each of the list.
LEMMA CreateKeeps ==
    ASSUME IInv, NEW k \in DOMAIN dims, CreateDirectImageStreamMigrations(k)
    PROVE  IInv'
<1>0. Typed /\ dims[k] \in Dims BY RefFacts DEF IInv
<1>1. UNCHANGED <<setup, parent, world, images, touched, spent>> /\ DimTurn(k, Making)
      /\ spent' \in [{"change", "fault"} -> Nat]
  BY <1>0 DEF CreateDirectImageStreamMigrations, Making, Typed
<1>2. PICK n : n = Cardinality(DismsToCreate(k)) OBVIOUS
<1>3. PICK h : h = [dims[k] EXCEPT !.itinerary = "PVC"] OBVIOUS
<1>4. PICK list \in SetToSeqs(DismsToCreate(k)) :
         /\ disms' = Created(k, list, n)
         /\ Writes(k, Advanced(Noted(Handled(dims[k]), list, n)))
  BY <1>2 DEF CreateDirectImageStreamMigrations
<1>5. /\ Handled(dims[k]) = h /\ dims[k].phase = Making /\ ~dims[k].errors
      /\ ~dims[k].failed /\ ~dims[k].succeeded
  BY <1>1, <1>3, TurnFacts DEF Making
<1>6. n \in 0..Cardinality(DismsToCreate(k))
  <2> DismsToCreate(k) \subseteq Streams BY <1>0 DEF DismsToCreate, Dims
  <2> n \in Nat
    BY <1>2, FS_Subset, FS_CardinalityType, SetupsAssumption DEF SetupsAssumption
  <2> QED BY <1>2
<1>7. h \in Dims /\ SameLists(h, dims[k]) BY <1>0, <1>3 DEF Dims, SameLists
<1>8. PICK c : c = Noted(h, list, n) OBVIOUS
<1>9. WellNoted(k, h, list, n, c)
  <2> setup' = setup BY <1>1
  <2> QED BY <1>0, <1>6, <1>7, <1>8, NotedFacts
<1>10. /\ c.itinerary = "PVC" /\ c.phase = Making /\ ~c.errors /\ ~c.failed /\ ~c.succeeded
       /\ c.new = dims[k].new /\ c.successful = dims[k].successful
       /\ c.deleted = dims[k].deleted /\ c.bad = dims[k].bad /\ c.listed = dims[k].listed
       /\ c \in Dims
  <2>1. c = [h EXCEPT !.notFound = c.notFound, !.ref = c.ref] /\ c \in Dims
    BY <1>9 DEF WellNoted
  <2> QED BY ZenonT(60), <2>1, <1>0, <1>3, <1>5, <1>7 DEF Dims
<1>11. Waiting \in DimPhases /\ Waiting # "Completed" BY DEF DimPhases, Waiting
<1>12. PICK m : m = [c EXCEPT !.phase = Waiting, !.succeeded = FALSE] OBVIOUS
<1>13. Writes(k, m)
  <2>1. After(DimItinerary, c.phase) = Waiting BY <1>10, AfterFacts
  <2>2. Advanced(c) = [c EXCEPT !.phase = Waiting, !.succeeded = (Waiting = "Completed")]
    BY <2>1, <1>10, <1>11, AdvanceFacts
  <2> QED BY <2>2, <1>4, <1>5, <1>8, <1>11, <1>12
<1>14. /\ m \in Dims /\ m.phase = Waiting /\ ~m.succeeded /\ ~m.errors /\ ~m.failed
       /\ m.itinerary = "PVC" /\ m.new = dims[k].new /\ m.successful = dims[k].successful
       /\ m.deleted = dims[k].deleted /\ m.bad = dims[k].bad /\ m.listed = dims[k].listed
       /\ m.notFound = c.notFound /\ m.ref = c.ref
  BY <1>10, <1>11, <1>12 DEF Dims
<1>15. Judging(k)'
  <2> dims'[k] = m BY <1>0, <1>13, <1>14, WriteFacts
  <2> QED BY <1>14 DEF Judging, Dims, Waiting
<1>16. /\ \A s \in m.notFound : s \in dims[k].notFound \/ world.uid[s] = 0
       /\ \A s \in Streams : m.ref[s] # 0 => s \notin m.notFound
       /\ \A s \in Streams : m.ref[s] = dims[k].ref[s] \/
             \E i \in 1..n : m.ref[s] = Len(disms) + i /\ list[i] = s /\ s \in DismsToCreate(k)
  BY <1>9, <1>14 DEF WellNoted
<1> QED BY <1>1, <1>4, <1>5, <1>6, <1>13, <1>14, <1>15, <1>16, MakingKeeps

\* An error on the way leaves some of them created, and they are found again.
LEMMA CutCreateKeeps ==
    ASSUME IInv, NEW k \in DOMAIN dims, CutCreate(k)
    PROVE  IInv'
<1>0. Typed /\ dims[k] \in Dims /\ Sound(k) BY RefFacts DEF IInv
<1>1. UNCHANGED <<setup, parent, world, images, touched>>
      /\ DimTurn(k, Making) /\ spent' \in [{"change", "fault"} -> Nat]
  BY <1>0 DEF CutCreate, Making, Spend, Typed
<1>2. PICK list \in SetToSeqs(DismsToCreate(k)), n \in 0..Cardinality(DismsToCreate(k)) :
         /\ disms' = Created(k, list, n)
         /\ UNCHANGED dims \/ Writes(k, Failed(Noted(dims[k], list, n)))
  BY DEF CutCreate
<1>3. dims[k].phase = Making /\ ~dims[k].succeeded BY <1>1, TurnFacts DEF Making
<1>4. CASE UNCHANGED dims
  <2>1. Judging(k)' BY <1>0, <1>4 DEF Sound, Judging
  <2>2. \A s \in Streams : dims[k].ref[s] # 0 => s \notin dims[k].notFound
    BY <1>0 DEF Sound, Following
  <2>3. Writes(k, dims[k]) BY <1>0, <1>4 DEF Writes, Typed
  <2> QED BY <1>0, <1>1, <1>2, <1>3, <2>1, <2>2, <2>3, MakingKeeps
<1>5. CASE Writes(k, Failed(Noted(dims[k], list, n)))
  <2>1. PICK c : c = Noted(dims[k], list, n) OBVIOUS
  <2>2. SameLists(dims[k], dims[k]) /\ setup' = setup BY <1>1 DEF SameLists
  <2>3. WellNoted(k, dims[k], list, n, c) BY <1>0, <2>1, <2>2, NotedFacts
  <2>4. /\ c.phase = dims[k].phase /\ c.itinerary = dims[k].itinerary
        /\ c.succeeded = dims[k].succeeded
        /\ c.new = dims[k].new /\ c.successful = dims[k].successful
        /\ c.deleted = dims[k].deleted /\ c.bad = dims[k].bad
        /\ c.listed = dims[k].listed /\ c \in Dims
    BY <1>0, <2>3 DEF Dims, WellNoted
  <2>5. PICK m : m = [c EXCEPT !.errors = TRUE, !.failed = TRUE] OBVIOUS
  <2>6. /\ m.phase = dims[k].phase /\ m.itinerary = dims[k].itinerary
        /\ m.succeeded = dims[k].succeeded /\ m.errors /\ m.failed
        /\ m.new = dims[k].new /\ m.successful = dims[k].successful
        /\ m.deleted = dims[k].deleted /\ m.bad = dims[k].bad /\ m \in Dims
        /\ m.listed = dims[k].listed /\ m.notFound = c.notFound /\ m.ref = c.ref
    BY <2>4, <2>5 DEF Dims
  <2>7. Writes(k, m) BY <1>5, <2>1, <2>5 DEF Failed
  <2>8. Judging(k)'
    <3> dims'[k] = m BY <1>0, <2>6, <2>7, WriteFacts
    <3> QED BY <1>0, <1>3, <2>6 DEF Sound, Judging, Making, Dims
  <2>9. /\ \A s \in m.notFound : s \in dims[k].notFound \/ world.uid[s] = 0
        /\ \A s \in Streams : m.ref[s] # 0 => s \notin m.notFound
        /\ \A s \in Streams : m.ref[s] = dims[k].ref[s] \/
              \E i \in 1..n : m.ref[s] = Len(disms) + i /\ list[i] = s
                             /\ s \in DismsToCreate(k)
    BY <2>3, <2>6 DEF WellNoted
  <2>10. m.phase \in {Making, Waiting} /\ ~m.succeeded BY <1>3, <2>6
  <2> QED BY <1>1, <1>2, <1>3, <2>6, <2>7, <2>8, <2>9, <2>10, MakingKeeps
<1> QED BY <1>2, <1>4, <1>5

\* What a pass that waits makes of the lists.
WellChecked(k, m, c) ==
    /\ c \in Dims
    /\ c.phase = m.phase /\ c.itinerary = m.itinerary /\ c.errors = m.errors
    /\ c.failed = m.failed /\ c.succeeded = m.succeeded
    /\ c.notFound = m.notFound /\ c.ref = m.ref /\ c.listed = m.listed
    /\ c.new \cap (c.successful \cup c.deleted \cup c.bad) = {}
    /\ c.successful \cap (c.deleted \cup c.bad) = {} /\ c.deleted \cap c.bad = {}
    /\ c.new \cup c.successful \cup c.deleted \cup c.bad =
          m.new \cup m.successful \cup m.deleted \cup m.bad
    /\ c.deleted \subseteq m.deleted \cup m.notFound
    /\ \A s \in c.successful : s \in m.successful \/
          (s \in Streams /\ dims[k].ref[s] # 0 /\ DismOf(k, s).phase = "Completed"
                         /\ ~DismOf(k, s).errors)

\* An image stream goes from one list to one other.
LEMMA CheckedFacts ==
    ASSUME Typed, NEW k \in DOMAIN dims, Listing(k), ~Panics(k), NEW m \in Dims, SameLists(m, dims[k]), NEW S,
           NEW c, c = Checked(k, m, S)
    PROVE  WellChecked(k, m, c)
<1> DEFINE found == m.new \ m.notFound
           lost == {s \in found : ~Retrieved(k, s) \/ s \in S}
           done == {s \in found \ lost : HasCompleted(k, s)}
           good == {s \in done : ~DismOf(k, s).errors}
           worse == {s \in done : DismOf(k, s).errors}
<1>1. c = [m EXCEPT !.successful = @ \cup good, !.bad = @ \cup lost \cup worse,
                    !.deleted = @ \cup (m.new \cap m.notFound),
                    !.new = found \ (lost \cup done)]
  BY DEF Checked
<1>2. /\ good \subseteq m.new /\ worse \subseteq m.new /\ lost \subseteq m.new
      /\ good \cap (worse \cup lost) = {} /\ worse \cap lost = {} /\ good \cup worse = done
      /\ good \cup worse \cup lost \subseteq found /\ done \subseteq found
  OBVIOUS
<1>3. \A s \in good : s \in Streams /\ dims[k].ref[s] # 0 /\ DismOf(k, s).phase = "Completed"
                        /\ ~DismOf(k, s).errors
  BY DEF Dims, Panics, SameLists, HasCompleted
<1>4. /\ m.new \cap (m.successful \cup m.deleted \cup m.bad) = {}
      /\ m.successful \cap (m.deleted \cup m.bad) = {} /\ m.deleted \cap m.bad = {}
  BY DEF Listing, SameLists
<1>5. /\ m.new \subseteq Streams /\ m.successful \subseteq Streams
      /\ m.deleted \subseteq Streams /\ m.bad \subseteq Streams
  BY DEF Dims
<1> HIDE DEF good, worse, lost, done
<1>6. /\ c.successful = m.successful \cup good /\ c.bad = m.bad \cup lost \cup worse
      /\ c.deleted = m.deleted \cup (m.new \cap m.notFound)
      /\ c.new = found \ (lost \cup done)
      /\ c.phase = m.phase /\ c.itinerary = m.itinerary /\ c.errors = m.errors
      /\ c.failed = m.failed /\ c.succeeded = m.succeeded
      /\ c.notFound = m.notFound /\ c.ref = m.ref /\ c.listed = m.listed
  BY <1>1 DEF Dims
<1>7. c \in Dims
  <2>1. c = [m EXCEPT !.successful = c.successful, !.bad = c.bad, !.deleted = c.deleted,
                      !.new = c.new]
    BY <1>1, <1>6
  <2>2. /\ c.successful \subseteq Streams /\ c.bad \subseteq Streams
        /\ c.deleted \subseteq Streams /\ c.new \subseteq Streams
    BY <1>2, <1>5, <1>6
  <2> QED BY <2>1, <2>2 DEF Dims
<1>8. /\ c.new \cap (c.successful \cup c.deleted \cup c.bad) = {}
      /\ c.successful \cap (c.deleted \cup c.bad) = {} /\ c.deleted \cap c.bad = {}
  BY <1>2, <1>4, <1>6
<1>9. c.new \cup c.successful \cup c.deleted \cup c.bad =
         m.new \cup m.successful \cup m.deleted \cup m.bad
  BY <1>2, <1>6
<1> QED BY <1>3, <1>6, <1>7, <1>8, <1>9 DEF WellChecked

\* A pass that waits, and cannot read the dism's of S.
LEMMA CheckKeeps ==
    ASSUME IInv, UNCHANGED <<setup, parent, disms, world, images, touched>>,
           NEW k \in DOMAIN dims, ~Panics(k), spent' \in [{"change", "fault"} -> Nat],
           DimTurn(k, Waiting), NEW S, Writes(k, Judged(Checked(k, Handled(dims[k]), S)))
    PROVE  IInv'
<1>0. Typed /\ dims[k] \in Dims /\ Sound(k) BY RefFacts DEF IInv
<1>1. PICK h : h = [dims[k] EXCEPT !.itinerary = "PVC"] OBVIOUS
<1>2. /\ Handled(dims[k]) = h /\ dims[k].phase = Waiting /\ ~dims[k].errors
      /\ ~dims[k].failed /\ ~dims[k].succeeded
  BY <1>1, TurnFacts DEF Waiting
<1>3. h \in Dims /\ SameLists(h, dims[k]) /\ h.phase = Waiting /\ ~h.errors /\ ~h.failed
      /\ ~h.succeeded /\ h.itinerary = "PVC"
  BY <1>0, <1>1, <1>2 DEF Dims, SameLists
<1>4. PICK c : c = Checked(k, h, S) OBVIOUS
<1>5. WellChecked(k, h, c) /\ Writes(k, Judged(c))
  <2>1. Listing(k) BY <1>0 DEF Sound
  <2> QED BY <2>1, <1>0, <1>2, <1>3, <1>4, CheckedFacts
<1>6. c \in Dims /\ c.phase = Waiting /\ ~c.errors /\ ~c.failed /\ ~c.succeeded
      /\ c.itinerary = "PVC" /\ c.ref = dims[k].ref /\ c.notFound = dims[k].notFound
      /\ c.listed = dims[k].listed
  BY <1>3, <1>5 DEF WellChecked, SameLists
<1>7. PICK m : m = Judged(c) OBVIOUS
<1>8. /\ m \in Dims /\ SameLists(m, c)
      /\ \/ m.phase = Waiting /\ ~m.succeeded /\ ~m.errors /\ ~m.failed
         \/ m.phase = "MigrationFailed" /\ ~m.succeeded /\ m.errors /\ m.failed
         \/ m.phase = "Completed" /\ m.succeeded /\ ~m.errors /\ ~m.failed
            /\ m.bad = {} /\ m.new = {}
      /\ m.itinerary = "PVC"
  <2>1. CASE c.new # {}
    <3> m = c BY <2>1, <1>7 DEF Judged
    <3> QED BY <1>6 DEF SameLists
  <2>2. CASE c.new = {} /\ c.bad # {}
    <3>1. m = [c EXCEPT !.errors = TRUE, !.failed = TRUE, !.phase = "MigrationFailed"]
      BY <2>2, <1>7 DEF Judged, Failed
    <3> QED BY <3>1, <1>6 DEF Dims, DimPhases, SameLists
  <2>3. CASE c.new = {} /\ c.bad = {}
    <3>1. After(DimItinerary, c.phase) = "Completed" /\ "Completed" \in DimPhases
      BY <1>6, AfterFacts DEF DimPhases
    <3>2. m = [c EXCEPT !.phase = "Completed", !.succeeded = TRUE]
      BY <3>1, <2>3, <1>6, <1>7, AdvanceFacts DEF Judged
    <3>3. /\ m \in Dims /\ SameLists(m, c) /\ m.phase = "Completed"
          /\ ~m.errors /\ ~m.failed /\ m.succeeded /\ m.itinerary = "PVC"
      BY <3>1, <3>2, <1>6 DEF Dims, SameLists
    <3> QED BY <3>3, <2>3 DEF SameLists
  <2> QED BY <2>1, <2>2, <2>3
<1>9. Listed(k) BY <1>2 DEF Listed
<1>10. m.ref = dims[k].ref /\ m.notFound = dims[k].notFound /\ m.listed = dims[k].listed
  BY <1>6, <1>8 DEF SameLists
<1>11. /\ Typed' /\ dims'[k] = m /\ DOMAIN dims' = DOMAIN dims
       /\ \A j \in DOMAIN dims \ {k} : dims'[j] = dims[j]
  <2> world' \in Worlds BY <1>0 DEF Typed
  <2> QED BY <1>0, <1>5, <1>7, <1>8, <1>10, StillTyped
<1>12. Judging(k)' BY <1>8, <1>11 DEF Judging, Dims, Waiting
<1>13. Listing(k)'
  <2>1. m.phase \notin Early BY <1>8 DEF Early, Waiting
  <2>2. h.new \cup h.successful \cup h.deleted \cup h.bad = dims[k].listed
    BY <1>0, <1>3, <1>9 DEF Sound, Listing, SameLists
  <2> QED BY <2>1, <2>2, <1>5, <1>8, <1>10, <1>11 DEF Listing, WellChecked, SameLists
<1>14. \A s : /\ Untouched(s)' = Untouched(s) /\ Safe(s)' = Safe(s)
              /\ Target(s)' = Target(s) /\ There(s)' = There(s)
  BY SameStreams
<1>15. m.deleted \subseteq dims[k].deleted \cup dims[k].notFound
  BY <1>3, <1>5, <1>8 DEF WellChecked, SameLists
<1>16. Keeping(k)' BY <1>0, <1>9, <1>10, <1>11, <1>14, <1>15 DEF Sound, Keeping
<1>17. ASSUME NEW s \in Streams, s \in m.successful
       PROVE  /\ dims[k].ref[s] # 0 /\ disms[dims[k].ref[s]].phase = "Completed"
              /\ Safe(s) => There(s)
  <2>1. CASE s \in dims[k].successful BY <2>1, <1>0 DEF Sound, Following
  <2>2. CASE dims[k].ref[s] # 0 /\ DismOf(k, s).phase = "Completed" /\ ~DismOf(k, s).errors
    <3>1. dims[k].ref[s] \in DOMAIN disms BY <2>2, <1>0, RefFacts
    <3>2. disms[dims[k].ref[s]].stream = s BY <2>2, <1>0 DEF Sound, Following
    <3> QED BY <2>2, <3>1, <3>2 DEF IInv, Copying, DismOf
  <2> QED BY <2>1, <2>2, <1>3, <1>5, <1>8, <1>17 DEF WellChecked, SameLists
<1>18. Following(k)'
  BY <1>0, <1>9, <1>10, <1>11, <1>14, <1>15, <1>17 DEF Sound, Following
<1>19. Sound(k)' BY <1>12, <1>13, <1>16, <1>18 DEF Sound
<1>20. Growing BY <1>14 DEF Growing
<1>21. Around' BY AroundKeeps
<1>22. Copying' BY <1>14 DEF IInv, Copying
<1> QED BY <1>2, <1>11, <1>19, <1>20, <1>21, <1>22, StepKeeps

\* The completion of the streams is told to the parent.
LEMMA CompletionKeeps ==
    ASSUME IInv, NEW k \in DOMAIN dims, CheckDISMCompletion(k)
    PROVE  IInv'
<1>1. /\ UNCHANGED <<setup, parent, disms, world, images, touched>> /\ ~Panics(k)
      /\ spent' \in [{"change", "fault"} -> Nat] /\ DimTurn(k, Waiting)
      /\ Writes(k, Judged(Checked(k, Handled(dims[k]), {})))
  BY DEF CheckDISMCompletion, IInv, Typed
<1> QED BY <1>1, CheckKeeps

\* An error while they are looked at records those seen so far.
LEMMA CutCheckKeeps ==
    ASSUME IInv, NEW k \in DOMAIN dims, CutCheck(k)
    PROVE  IInv'
<1>1. /\ UNCHANGED <<setup, parent, disms, world, images, touched>> /\ ~Panics(k)
      /\ spent' \in [{"change", "fault"} -> Nat] /\ DimTurn(k, Waiting)
  BY DEF CutCheck, IInv, Typed, Spend
<1>2. CASE \E S \in (SUBSET dims[k].new) \ {{}} :
              Writes(k, Judged(Checked(k, Handled(dims[k]), S)))
  BY <1>1, <1>2, CheckKeeps
<1>3. CASE UNCHANGED dims
  <2>1. world' \in Worlds /\ dims[k].phase # "Completed" BY <1>1 DEF IInv, Typed, DimTurn
  <2>2. /\ Typed' /\ DOMAIN dims' = DOMAIN dims /\ Going'
        /\ \A j \in DOMAIN dims : SameDim(dims[j], dims'[j])
    BY <1>1, <1>3, <2>1, CutFacts
  <2> QED BY <1>1, <2>2, FrameKeeps
<1> QED BY <1>2, <1>3 DEF CutCheck

-----------------------------------------------------------------------------
(* The steps of the dism's *)

\* A dism is replaced.
LEMMA ReplaceFacts ==
    ASSUME Typed, NEW i \in DOMAIN disms, NEW d \in Disms
    PROVE  /\ [disms EXCEPT ![i] = d] \in Seq(Disms)
           /\ Len([disms EXCEPT ![i] = d]) = Len(disms)
           /\ DOMAIN [disms EXCEPT ![i] = d] = DOMAIN disms
           /\ [disms EXCEPT ![i] = d][i] = d
           /\ \A j \in DOMAIN disms \ {i} : [disms EXCEPT ![i] = d][j] = disms[j]
BY DEF Typed

\* What a step keeps that leaves the dims alone.
LEMMA AsideTyped ==
    ASSUME Typed, UNCHANGED <<setup, dims>>, disms' \in Seq(Disms), Len(disms') = Len(disms),
           parent' \in Parents, world' \in Worlds, images' \subseteq Streams \X Namespaces,
           touched' \subseteq Streams, spent' \in [{"change", "fault"} -> Nat]
    PROVE  Typed' /\ \A k \in DOMAIN dims : SameDim(dims[k], dims'[k])
<1>1. Parents' = Parents /\ Worlds' = Worlds /\ Namespaces' = Namespaces /\ Disms' = Disms
  BY SameTypes DEF Parents, Worlds
<1> QED BY <1>1 DEF Typed, SameDim, SameLists

\* A dism is seen, or goes; the dims take no notice.
LEMMA SeenKeeps ==
    ASSUME IInv, UNCHANGED <<setup, parent, dims, world, images, touched>>,
           spent' \in [{"change", "fault"} -> Nat], NEW i \in DOMAIN disms,
           \/ disms' = [disms EXCEPT ![i].seen = TRUE]
           \/ disms' = [disms EXCEPT ![i].kept = FALSE]
    PROVE  IInv'
<1>0. Typed /\ disms[i] \in Disms BY RefFacts DEF IInv
<1>1. PICK d \in Disms : /\ disms' = [disms EXCEPT ![i] = d]
                         /\ d.stream = disms[i].stream /\ d.dest = disms[i].dest
                         /\ d.phase = disms[i].phase /\ d.errors = disms[i].errors
  <2>1. [disms[i] EXCEPT !.seen = TRUE] \in Disms /\ [disms[i] EXCEPT !.kept = FALSE] \in Disms
    BY <1>0 DEF Disms
  <2> QED BY <2>1, <1>0 DEF Disms
<1>2. /\ disms' \in Seq(Disms) /\ Len(disms') = Len(disms) /\ DOMAIN disms' = DOMAIN disms
      /\ disms'[i] = d /\ \A j \in DOMAIN disms \ {i} : disms'[j] = disms[j]
  BY <1>0, <1>1, ReplaceFacts
<1>3. Typed' /\ \A k \in DOMAIN dims : SameDim(dims[k], dims'[k])
  <2> /\ parent' \in Parents /\ world' \in Worlds /\ images' \subseteq Streams \X Namespaces
      /\ touched' \subseteq Streams
    BY <1>0 DEF Typed
  <2> QED BY <1>0, <1>2, AsideTyped
<1>4. Going' BY DEF IInv, Going
<1>5. \A j \in DOMAIN disms :
         /\ disms'[j].stream = disms[j].stream /\ disms'[j].dest = disms[j].dest
         /\ disms'[j].phase = disms[j].phase /\ disms'[j].errors = disms[j].errors
  BY <1>1, <1>2
<1> QED BY <1>2, <1>3, <1>4, <1>5, FrameKeeps

\* A dism that has not completed goes on; it completes without errors only
\* when its images are there.
LEMMA DismKeeps ==
    ASSUME IInv, UNCHANGED <<setup, parent, dims, world, touched>>,
           spent' \in [{"change", "fault"} -> Nat], NEW i \in DOMAIN disms, NEW d \in Disms,
           disms' = [disms EXCEPT ![i] = d], disms[i].phase # "Completed",
           d.stream = disms[i].stream /\ d.dest = disms[i].dest,
           images \subseteq images', images' \subseteq images \cup {<<d.stream, d.dest>>},
           d.phase = "Completed" /\ ~d.errors => <<d.stream, d.dest>> \in images'
    PROVE  IInv'
<1>0. Typed /\ disms[i] \in Disms /\ DOMAIN disms = 1..Len(disms)
  BY RefFacts DEF IInv
<1>1. /\ disms' \in Seq(Disms) /\ Len(disms') = Len(disms) /\ DOMAIN disms' = DOMAIN disms
      /\ disms'[i] = d /\ \A j \in DOMAIN disms \ {i} : disms'[j] = disms[j]
  BY <1>0, ReplaceFacts
<1>2. images' \subseteq Streams \X Namespaces
  <2> <<d.stream, d.dest>> \in Streams \X Namespaces BY DEF Disms
  <2> QED BY <1>0 DEF Typed
<1>3. Typed' /\ \A k \in DOMAIN dims : SameDim(dims[k], dims'[k])
  <2> parent' \in Parents /\ world' \in Worlds /\ touched' \subseteq Streams BY <1>0 DEF Typed
  <2> QED BY <1>0, <1>1, <1>2, AsideTyped
<1>4. \A s : /\ Untouched(s)' = Untouched(s) /\ Safe(s)' = Safe(s) /\ Target(s)' = Target(s)
             /\ There(s) => There(s)'
  BY SameStreams DEF There, Target
<1>5. Growing BY <1>1, <1>4 DEF Growing
<1>6. Around' BY AroundKeeps
<1>7. ASSUME NEW j \in DOMAIN disms'
      PROVE  /\ disms'[j].dest = Target(disms'[j].stream)
             /\ disms'[j].phase = "Completed" /\ ~disms'[j].errors /\ Safe(disms'[j].stream)
                   => <<disms'[j].stream, disms'[j].dest>> \in images'
  <2>1. CASE j = i
    <3> d.dest = Target(d.stream) BY DEF IInv, Copying
    <3> QED BY <2>1, <1>1
  <2>2. CASE j # i
    <3>1. disms'[j] = disms[j] /\ j \in DOMAIN disms BY <2>2, <1>1
    <3> QED BY <3>1 DEF IInv, Copying, There
  <2> QED BY <2>1, <2>2
<1>8. Copying'
  <2>1. \A j \in DOMAIN disms' :
           /\ disms'[j].dest = Target(disms'[j].stream)
           /\ disms'[j].phase = "Completed" /\ ~disms'[j].errors /\ Safe(disms'[j].stream)
                 => <<disms'[j].stream, Target(disms'[j].stream)>> \in images'
    BY <1>7
  <2>2. \A s : There(s)' <=> <<s, Target(s)>> \in images' BY <1>4 DEF There
  <2> QED BY ZenonT(60), <2>1, <2>2, <1>4 DEF Copying
<1>9. \A k \in DOMAIN dims : Sound(k)' BY <1>3, <1>5, SoundKeeps
<1>10. Going' BY DEF IInv, Going
<1> QED BY <1>3, <1>6, <1>8, <1>9, <1>10 DEF IInv

\* A pass of a stream migration that only advances keeps the invariant.
LEMMA AdvancingKeeps ==
    ASSUME IInv, NEW i \in DOMAIN disms, DismAdvances(i)
    PROVE  IInv'
<1>0. Typed /\ disms[i] \in Disms BY RefFacts DEF IInv
<1>1. PICK phase \in {"Created", "Started", "Prepare"} :
         DismTurn(i, phase) /\ disms' = [disms EXCEPT ![i].phase = After(DismItinerary, phase)]
  BY DEF DismAdvances
<1>2. PICK next \in DismPhases : next # "Completed" /\ After(DismItinerary, phase) = next
  BY <1>1, AfterFacts DEF DismPhases
<1>3. PICK d : d = [disms[i] EXCEPT !.phase = next] OBVIOUS
<1>4. /\ d \in Disms /\ d.stream = disms[i].stream /\ d.dest = disms[i].dest
      /\ d.phase # "Completed"
  BY <1>0, <1>2, <1>3 DEF Disms
<1>5. disms' = [disms EXCEPT ![i] = d] BY <1>1, <1>2, <1>3
<1>6. disms[i].phase # "Completed" BY <1>1 DEF DismTurn
<1>7. UNCHANGED <<setup, parent, dims, world, images, touched>>
      /\ spent' \in [{"change", "fault"} -> Nat]
  BY <1>0 DEF DismAdvances, Typed
<1> QED BY <1>4, <1>5, <1>6, <1>7, DismKeeps

\* The result of a copy.
LEMMA ResultFacts ==
    ASSUME NEW d \in Disms, NEW e \in BOOLEAN, d.phase = "MigrateImageStream"
    PROVE  /\ MigrateResult(d, e) \in Disms /\ MigrateResult(d, e).phase = "Completed"
           /\ MigrateResult(d, e).errors = e
           /\ MigrateResult(d, e).stream = d.stream /\ MigrateResult(d, e).dest = d.dest
<1>1. After(DismItinerary, IF e THEN "MigrationFailed" ELSE d.phase) = "Completed"
  BY AfterFacts
<1>2. MigrateResult(d, e) = [d EXCEPT !.errors = e, !.phase = "Completed"]
  BY <1>1 DEF MigrateResult
<1> QED BY <1>2 DEF Disms, DismPhases

\* Copying a stream keeps the invariant.
LEMMA MigrateKeeps ==
    ASSUME IInv, NEW i \in DOMAIN disms, MigrateImageStream(i)
    PROVE  IInv'
<1>0. Typed /\ disms[i] \in Disms /\ disms[i].phase = "MigrateImageStream"
  BY RefFacts DEF IInv, MigrateImageStream, DismTurn
<1>1. PICK d : d = MigrateResult(disms[i], FALSE) OBVIOUS
<1>2. d \in Disms /\ d.stream = disms[i].stream /\ d.dest = disms[i].dest
  BY <1>0, <1>1, ResultFacts
<1>3. disms' = [disms EXCEPT ![i] = d] BY <1>1 DEF MigrateImageStream
<1>4. images' = images \cup {<<d.stream, d.dest>>} BY <1>2 DEF MigrateImageStream, Copied
<1>5. UNCHANGED <<setup, parent, dims, world, touched>> /\ spent' \in [{"change", "fault"} -> Nat]
  BY <1>0 DEF MigrateImageStream, Typed
<1> QED BY <1>0, <1>2, <1>3, <1>4, <1>5, DismKeeps

\* So does an error while it is copied.
LEMMA CutMigrateKeeps ==
    ASSUME IInv, NEW i \in DOMAIN disms, CutMigrate(i)
    PROVE  IInv'
<1>0. Typed /\ disms[i] \in Disms /\ disms[i].phase = "MigrateImageStream"
  BY RefFacts DEF IInv, CutMigrate, DismTurn
<1>1. UNCHANGED <<setup, parent, dims, world, touched>> /\ spent' \in [{"change", "fault"} -> Nat]
  BY <1>0 DEF CutMigrate, Typed, Spend
<1>2. CASE disms' = [disms EXCEPT ![i] = MigrateResult(@, TRUE)] /\ UNCHANGED images
  <2>1. PICK d : d = MigrateResult(disms[i], TRUE) OBVIOUS
  <2>2. d \in Disms /\ d.stream = disms[i].stream /\ d.dest = disms[i].dest /\ d.errors = TRUE
    BY <1>0, <2>1, ResultFacts
  <2>3. disms' = [disms EXCEPT ![i] = d] BY <1>2, <2>1
  <2> QED BY <1>0, <1>1, <1>2, <2>2, <2>3, DismKeeps
<1>3. CASE images' = Copied(disms[i]) /\ UNCHANGED disms
  <2>1. disms' = [disms EXCEPT ![i] = disms[i]] BY <1>0, <1>3 DEF Typed
  <2>2. images' = images \cup {<<disms[i].stream, disms[i].dest>>} BY <1>3 DEF Copied
  <2> QED BY <1>0, <1>1, <2>1, <2>2, DismKeeps
<1> QED BY <1>2, <1>3 DEF CutMigrate

-----------------------------------------------------------------------------
(* The migration, and what happens around *)

\* A step of the migration or of a cluster, a restart, and a dim that the cache
\* shows or that goes: the lists stay.
LEMMA AsideKeeps ==
    ASSUME IInv, UNCHANGED <<setup, disms, images, touched>>, dims' \in Seq(Dims),
           DOMAIN dims' = DOMAIN dims,
           \A k \in DOMAIN dims : SameDim(dims[k], dims'[k]),
           parent' \in Parents, world' \in Worlds,
           world'.uid = world.uid, world'.dest = world.dest,
           spent' \in [{"change", "fault"} -> Nat], Going'
    PROVE  IInv'
<1>0. Typed BY DEF IInv
<1>1. Parents' = Parents /\ Worlds' = Worlds /\ Namespaces' = Namespaces /\ Disms' = Disms
  BY SameTypes DEF Parents, Worlds
<1>2. \A k \in DOMAIN dims' : dims'[k].ref = dims[k].ref BY DEF SameDim, SameLists
<1>3. Typed' BY <1>0, <1>1, <1>2 DEF Typed
<1> QED BY <1>3, FrameKeeps

\* A dim that the cache shows, or that goes, is the same for the rest.
LEMMA ShownFacts ==
    ASSUME IInv, UNCHANGED parent, NEW k \in DOMAIN dims,
           \/ Writes(k, [dims[k] EXCEPT !.seen = TRUE])
           \/ Writes(k, [dims[k] EXCEPT !.exists = FALSE])
    PROVE  /\ dims' \in Seq(Dims) /\ DOMAIN dims' = DOMAIN dims
           /\ \A j \in DOMAIN dims : SameDim(dims[j], dims'[j])
           /\ Going'
<1>0. Typed /\ dims[k] \in Dims BY RefFacts DEF IInv
<1>1. PICK m \in {[dims[k] EXCEPT !.seen = TRUE], [dims[k] EXCEPT !.exists = FALSE]} :
         Writes(k, m)
  OBVIOUS
<1>2. m \in Dims /\ SameDim(dims[k], m) BY <1>0, <1>1 DEF Dims, SameDim, SameLists
<1>3. /\ dims' \in Seq(Dims) /\ DOMAIN dims' = DOMAIN dims /\ dims'[k] = m
      /\ \A j \in DOMAIN dims \ {k} : dims'[j] = dims[j]
  BY <1>0, <1>1, <1>2, WriteFacts
<1>4. \A j \in DOMAIN dims : SameDim(dims[j], dims'[j])
  BY <1>2, <1>3 DEF SameDim, SameLists
<1>5. Going' BY <1>3, <1>4 DEF IInv, Going, SameDim
<1> QED BY <1>3, <1>4, <1>5

\* A step that leaves the dims alone.
LEMMA SameDims ==
    ASSUME IInv, UNCHANGED dims
    PROVE  /\ dims' \in Seq(Dims) /\ DOMAIN dims' = DOMAIN dims
           /\ \A j \in DOMAIN dims : SameDim(dims[j], dims'[j])
           /\ UNCHANGED parent => Going'
BY DEF IInv, Typed, SameDim, SameLists, Going

\* What the migration may spend.
LEMMA SpentFacts ==
    ASSUME Typed, UNCHANGED spent \/ \E kind \in {"change", "fault"} : Spend(kind)
    PROVE  spent' \in [{"change", "fault"} -> Nat]
<1>1. spent \in [{"change", "fault"} -> Nat] BY DEF Typed
<1>2. CASE UNCHANGED spent BY <1>1, <1>2
<1>3. ASSUME NEW kind \in {"change", "fault"}, Spend(kind)
      PROVE  spent' \in [{"change", "fault"} -> Nat]
  <2>1. spent' = [spent EXCEPT ![kind] = spent[kind] + 1] BY <1>3 DEF Spend
  <2>2. spent[kind] + 1 \in Nat BY <1>1
  <2> QED BY <1>1, <2>1, <2>2
<1> QED BY <1>2, <1>3

\* A new dim has no lists yet.
LEMMA AppendKeeps ==
    ASSUME IInv, UNCHANGED <<setup, disms, world, images, touched>>, dims' = Append(dims, Dim),
           parent' = parent \/ parent' = [parent EXCEPT !.phase = "wait"],
           spent' \in [{"change", "fault"} -> Nat]
    PROVE  IInv'
<1>0. Typed BY DEF IInv
<1>1. Dim \in Dims /\ \A s \in Streams : Dim.ref[s] = 0 BY DEF Dim, Dims, DimPhases, Early
<1>2. PICK n \in Nat : n = Len(dims) /\ DOMAIN dims = 1..n BY <1>0 DEF Typed
<1>3. /\ dims' \in Seq(Dims) /\ DOMAIN dims' = 1..(n + 1) /\ dims'[n + 1] = Dim
      /\ \A k \in DOMAIN dims : dims'[k] = dims[k]
  BY <1>0, <1>1, <1>2 DEF Typed
<1>4. parent' \in Parents
  BY <1>0 DEF Typed, Parents
<1>5. Typed'
  <2>1. Parents' = Parents /\ Worlds' = Worlds /\ Namespaces' = Namespaces /\ Disms' = Disms
    BY SameTypes DEF Parents, Worlds
  <2>2. Len(disms) \in Nat BY <1>0, RefFacts
  <2>3. \A k \in DOMAIN dims', s \in Streams : dims'[k].ref[s] <= Len(disms')
    <3> TAKE k \in DOMAIN dims', s \in Streams
    <3>1. CASE k \in DOMAIN dims BY <3>1, <1>0, <1>3 DEF Typed
    <3>2. CASE k = n + 1 BY <3>2, <1>1, <1>3, <2>2
    <3> QED BY <3>1, <3>2, <1>2, <1>3
  <2> QED BY <1>0, <1>3, <1>4, <2>1, <2>3 DEF Typed
<1>6. \A s : Target(s)' = Target(s) /\ Safe(s)' = Safe(s) /\ There(s)' = There(s)
  BY SameStreams
<1>7. Growing BY <1>6 DEF Growing
<1>8. ASSUME NEW k \in DOMAIN dims PROVE Sound(k)'
  <2> k \in DOMAIN dims' /\ SameDim(dims[k], dims'[k]) BY <1>2, <1>3 DEF SameDim, SameLists
  <2> QED BY <1>5, <1>7, SoundKeeps
<1>9. Sound(n + 1)'
  <2>1. /\ Dim.phase = "Created" /\ ~Dim.errors /\ ~Dim.failed /\ ~Dim.succeeded
        /\ Dim.itinerary = "" /\ Dim.new = {} /\ Dim.successful = {} /\ Dim.deleted = {}
        /\ Dim.bad = {} /\ Dim.notFound = {} /\ Dim.errors = Dim.failed
    BY DEF Dim
  <2>2. ~Listed(n + 1)' BY <2>1, <1>3 DEF Listed, Making, Waiting
  <2>3. Judging(n + 1)' BY <2>1, <1>3 DEF Judging
  <2>4. Listing(n + 1)' BY <2>1, <2>2, <1>1, <1>3 DEF Listing
  <2>5. Keeping(n + 1)' BY <2>1, <2>2, <1>3 DEF Keeping
  <2>6. Following(n + 1)' BY <2>1, <1>1, <1>3 DEF Following
  <2> QED BY <2>3, <2>4, <2>5, <2>6 DEF Sound
<1>10. \A k \in DOMAIN dims' : Sound(k)' BY <1>2, <1>3, <1>8, <1>9
<1>11. Around' BY AroundKeeps
<1>12. Copying' BY <1>6 DEF IInv, Copying
<1>13. Going'
  <2>1. CASE parent' = parent BY <2>1, <1>2, <1>3 DEF IInv, Going
  <2>2. CASE parent' = [parent EXCEPT !.phase = "wait"]
    <3> parent'.phase # "done" BY <2>2, <1>0 DEF Typed, Parents
    <3> QED BY DEF Going
  <2> QED BY <2>1, <2>2
<1> QED BY <1>5, <1>10, <1>11, <1>12, <1>13 DEF IInv

\* A migration that goes to a phase but the last has not gone on.
LEMMA PhaseFacts ==
    ASSUME Typed, NEW phase \in {"wait", "failed", "cancel", "cancelled"},
           parent' = [parent EXCEPT !.phase = phase]
    PROVE  parent' \in Parents /\ Going'
<1>1. parent' \in Parents /\ parent'.phase = phase BY DEF Typed, Parents
<1> QED BY <1>1 DEF Going

\* What the migration that owns the dims does keeps the invariant.
LEMMA MigrationKeeps ==
    ASSUME IInv,
           CreateDirectImageMigration \/ WaitForDirectImageMigration
             \/ DeleteDirectImageMigration \/ Cancel \/ DeleteDim
             \/ \E k \in DOMAIN dims : SyncDim(k)
    PROVE  IInv'
<1>0. Typed /\ parent \in Parents BY DEF IInv, Typed
<1>1. /\ UNCHANGED <<setup, disms, world, images, touched>>
      /\ UNCHANGED spent \/ \E kind \in {"change", "fault"} : Spend(kind)
  BY DEF CreateDirectImageMigration, WaitForDirectImageMigration, DeleteDirectImageMigration,
         Cancel, DeleteDim, SyncDim, MayChange
<1>2. /\ spent' \in [{"change", "fault"} -> Nat] /\ world' \in Worlds
      /\ world'.uid = world.uid /\ world'.dest = world.dest
  BY <1>0, <1>1, SpentFacts DEF Typed
<1>3. CASE CreateDirectImageMigration
  <2>1. CASE dims' = Append(dims, Dim)
    BY <1>1, <1>2, <1>3, <2>1, AppendKeeps DEF CreateDirectImageMigration
  <2>2. CASE dims' = dims
    <3>1. parent' \in Parents /\ Going'
      <4>1. CASE UNCHANGED parent BY <4>1, <2>2, <1>0, SameDims
      <4>2. CASE parent' = [parent EXCEPT !.phase = "wait"] BY <4>2, <1>0, PhaseFacts
      <4> QED BY <1>3, <4>1, <4>2 DEF CreateDirectImageMigration
    <3> QED BY <1>1, <1>2, <2>2, <3>1, SameDims, AsideKeeps
  <2> QED BY <1>3, <2>1, <2>2 DEF CreateDirectImageMigration
<1>4. CASE WaitForDirectImageMigration
  <2>1. UNCHANGED dims BY <1>4 DEF WaitForDirectImageMigration
  <2>2. parent' \in Parents /\ Going'
    <3>1. CASE parent' = [parent EXCEPT !.phase = "failed"] BY <3>1, <1>0, PhaseFacts
    <3>2. ASSUME NEW k \in Shown, dims[k].phase = "Completed",
                 parent' = [phase |-> "done", warned |-> Warns(dims[k]), of |-> k]
          PROVE  parent' \in Parents /\ Going'
      <4>1. k \in DOMAIN dims BY DEF Shown
      <4>2. k \in Nat BY <4>1, <1>0 DEF Typed
      <4>3. dims[k].errors \in BOOLEAN /\ dims[k].succeeded \in BOOLEAN
        BY <4>1, <1>0, RefFacts DEF Dims
      <4>4. dims[k].succeeded # dims[k].errors BY <3>2, <4>1 DEF IInv, Sound, Judging
      <4>5. parent'.warned = dims[k].errors /\ parent'.of = k BY <3>2 DEF Warns
      <4> QED BY <2>1, <3>2, <4>1, <4>2, <4>3, <4>4, <4>5 DEF Going, Parents, Warns
    <3> QED BY <1>4, <3>1, <3>2 DEF WaitForDirectImageMigration
  <2> QED BY <1>1, <1>2, <2>1, <2>2, SameDims, AsideKeeps
<1>5. CASE DeleteDirectImageMigration
  <2>1. /\ dims' \in Seq(Dims) /\ DOMAIN dims' = DOMAIN dims
        /\ \A j \in DOMAIN dims : SameDim(dims[j], dims'[j])
        /\ UNCHANGED parent => Going'
    <3>1. CASE UNCHANGED dims BY <3>1, SameDims
    <3>2. ASSUME NEW k \in Shown, Gone(k)
          PROVE  /\ dims' \in Seq(Dims) /\ DOMAIN dims' = DOMAIN dims
                 /\ \A j \in DOMAIN dims : SameDim(dims[j], dims'[j])
                 /\ UNCHANGED parent => Going'
      <4>1. k \in DOMAIN dims /\ dims[k] \in Dims BY <1>0, RefFacts DEF Shown
      <4>2. PICK m : m = [dims[k] EXCEPT !.exists = FALSE] OBVIOUS
      <4>3. m \in Dims /\ SameDim(dims[k], m) BY <4>1, <4>2 DEF Dims, SameDim, SameLists
      <4>4. /\ dims' \in Seq(Dims) /\ DOMAIN dims' = DOMAIN dims /\ dims'[k] = m
            /\ \A j \in DOMAIN dims \ {k} : dims'[j] = dims[j]
        BY <1>0, <3>2, <4>1, <4>2, <4>3, WriteFacts DEF Gone
      <4>5. \A j \in DOMAIN dims : SameDim(dims[j], dims'[j])
        BY <4>3, <4>4 DEF SameDim, SameLists
      <4>6. UNCHANGED parent => Going' BY <4>4, <4>5 DEF IInv, Going, SameDim
      <4> QED BY <4>4, <4>5, <4>6
    <3> QED BY <1>5, <3>1, <3>2 DEF DeleteDirectImageMigration
  <2>2. parent' \in Parents /\ Going'
    <3>1. CASE UNCHANGED parent BY <3>1, <2>1, <1>0
    <3>2. CASE parent' = [parent EXCEPT !.phase = "cancelled"] BY <3>2, <1>0, PhaseFacts
    <3> QED BY <1>5, <3>1, <3>2 DEF DeleteDirectImageMigration
  <2> QED BY <1>1, <1>2, <2>1, <2>2, AsideKeeps
<1>6. CASE Cancel
  <2>1. UNCHANGED dims /\ parent' = [parent EXCEPT !.phase = "cancel"] BY <1>6 DEF Cancel
  <2>2. parent' \in Parents /\ Going' BY <1>0, <2>1, PhaseFacts
  <2> QED BY <1>1, <1>2, <2>1, <2>2, SameDims, AsideKeeps
<1>7. ASSUME NEW k \in DOMAIN dims, UNCHANGED parent,
             \/ Writes(k, [dims[k] EXCEPT !.seen = TRUE])
             \/ Writes(k, [dims[k] EXCEPT !.exists = FALSE])
      PROVE  IInv'
  BY <1>0, <1>1, <1>2, <1>7, ShownFacts, AsideKeeps
<1>8. CASE DeleteDim \/ \E k \in DOMAIN dims : SyncDim(k)
  BY <1>7, <1>8 DEF DeleteDim, SyncDim, Gone
<1> QED BY <1>3, <1>4, <1>5, <1>6, <1>8

\* A restart of the controller or a change of a cluster keeps the invariant.
LEMMA RestartKeeps == IInv /\ (Restart \/ ChangeCluster) => IInv'
<1> SUFFICES ASSUME IInv, Restart \/ ChangeCluster PROVE IInv' OBVIOUS
<1>0. Typed BY DEF IInv
<1>1. UNCHANGED <<setup, parent, dims, disms, images, touched>>
      /\ spent' \in [{"change", "fault"} -> Nat]
  BY <1>0, SpentFacts DEF Restart, ChangeCluster, MayChange
<1>2. world' \in Worlds /\ world'.uid = world.uid /\ world'.dest = world.dest
  BY SMTT(60), <1>0 DEF Restart, ChangeCluster, Typed, Worlds
<1>3. parent' \in Parents BY <1>0, <1>1 DEF Typed
<1> QED BY <1>1, <1>2, <1>3, SameDims, AsideKeeps

\* Image streams and namespaces are changed, and remembered as touched.
LEMMA TouchKeeps ==
    ASSUME IInv, UNCHANGED <<setup, parent, dims, disms, images>>,
           spent' \in [{"change", "fault"} -> Nat],
           touched \subseteq touched', touched' \subseteq Streams, world' \in Worlds,
           \A s \in Streams \ touched' :
              /\ world'.uid[s] = world.uid[s]
              /\ world'.dest[Target(s)] = world.dest[Target(s)]
    PROVE  IInv'
<1>0. Typed BY DEF IInv
<1>1. Typed' /\ \A k \in DOMAIN dims : SameDim(dims[k], dims'[k])
  <2> /\ parent' \in Parents /\ images' \subseteq Streams \X Namespaces
      /\ disms' \in Seq(Disms) /\ Len(disms') = Len(disms)
    BY <1>0 DEF Typed
  <2> QED BY <1>0, AsideTyped
<1>2. \A s : /\ Target(s)' = Target(s) /\ There(s)' = There(s)
             /\ Untouched(s)' => Untouched(s) /\ s \notin touched'
             /\ Safe(s)' => Safe(s)
  BY DEF Target, Untouched, Safe, There, Doomed
<1>3. Around'
  <2> SUFFICES ASSUME NEW s \in Streams
               PROVE  /\ Untouched(s)' => world'.uid[s] # 0
                      /\ Safe(s)' => world'.dest[Target(s)] # "terminating"
    BY <1>2 DEF Around
  <2>1. Safe(s)' => Untouched(s)' BY DEF Safe, Untouched
  <2> QED BY <1>2, <2>1 DEF IInv, Around
<1>4. Growing BY <1>2 DEF Growing
<1>5. \A k \in DOMAIN dims : Sound(k)' BY <1>1, <1>4, SoundKeeps
<1>6. Copying' BY <1>2 DEF IInv, Copying
<1>7. Going' BY DEF IInv, Going
<1> QED BY <1>1, <1>3, <1>5, <1>6, <1>7 DEF IInv

\* A stream that changes on the source keeps it.
LEMMA ChangeStreamKeeps == IInv /\ ChangeStream => IInv'
<1> SUFFICES ASSUME IInv, ChangeStream PROVE IInv' OBVIOUS
<1>0. Typed BY DEF IInv
<1>1. UNCHANGED <<setup, parent, dims, disms, images>> /\ spent.change \in Nat
      /\ spent' \in [{"change", "fault"} -> Nat]
  BY <1>0, SpentFacts DEF ChangeStream, MayChange, Typed
<1>2. PICK s \in Streams :
         /\ world' = [world EXCEPT !.uid[s] = IF @ = 0 THEN spent["change"] + 2 ELSE 0]
         /\ touched' = touched \cup {s}
  BY <1>0, SetupFacts DEF ChangeStream, Typed
<1>3. /\ world' \in Worlds /\ world'.dest = world.dest
      /\ \A r \in Streams \ {s} : world'.uid[r] = world.uid[r]
  <2>1. world \in Worlds /\ world.uid \in [Streams -> Nat] BY <1>0 DEF Typed, Worlds
  <2>2. PICK u \in Nat : world'.uid = [world.uid EXCEPT ![s] = u]
    <3>1. spent.change + 2 \in Nat BY <1>1
    <3>2. world'.uid = [world.uid EXCEPT ![s] =
                           IF world.uid[s] = 0 THEN spent["change"] + 2 ELSE 0]
      BY <1>2, <2>1 DEF Worlds
    <3> QED BY <3>1, <3>2
  <2>3. world' = [world EXCEPT !.uid = world'.uid] BY <1>2, <2>1 DEF Worlds
  <2>4. world'.uid \in [Streams -> Nat] BY <2>1, <2>2
  <2>5. \A r \in Streams \ {s} : world'.uid[r] = world.uid[r] BY <2>1, <2>2
  <2> QED BY <2>1, <2>3, <2>4, <2>5 DEF Worlds
<1>4. touched' \subseteq Streams BY <1>0, <1>2 DEF Typed
<1> QED BY <1>1, <1>2, <1>3, <1>4, TouchKeeps

\* So does a namespace deleted on the destination.
LEMMA DeleteNamespaceKeeps == IInv /\ DeleteNamespace => IInv'
<1> SUFFICES ASSUME IInv, DeleteNamespace PROVE IInv' OBVIOUS
<1>0. Typed BY DEF IInv
<1>1. UNCHANGED <<setup, parent, dims, disms, images>>
      /\ spent' \in [{"change", "fault"} -> Nat]
  BY <1>0, SpentFacts DEF DeleteNamespace, MayChange
<1>2. PICK n \in Namespaces :
         /\ world' = [world EXCEPT !.dest[n] = "terminating"]
         /\ touched' = touched \cup StreamsTo(n)
  BY DEF DeleteNamespace
<1>3. /\ world' \in Worlds /\ world'.uid = world.uid
      /\ \A r \in Namespaces \ {n} : world'.dest[r] = world.dest[r]
  BY <1>0, <1>2 DEF Typed, Worlds, NamespaceStates
<1>4. touched' \subseteq Streams BY <1>0, <1>2 DEF Typed, StreamsTo
<1>5. \A s \in Streams \ touched' : Target(s) \in Namespaces \ {n}
  BY <1>0, <1>2, SetupFacts DEF StreamsTo, Typed
<1> QED BY <1>1, <1>2, <1>3, <1>4, <1>5, TouchKeeps

\* So does one deleted on the source.
LEMMA DeleteSourceKeeps == IInv /\ DeleteSourceNamespace => IInv'
<1> SUFFICES ASSUME IInv, DeleteSourceNamespace PROVE IInv' OBVIOUS
<1>0. Typed BY DEF IInv
<1>1. UNCHANGED <<setup, parent, dims, disms, images>>
      /\ spent' \in [{"change", "fault"} -> Nat]
  BY <1>0, SpentFacts DEF DeleteSourceNamespace, MayChange
<1>2. PICK n \in world.source, gone \in SUBSET Streams :
         /\ world' = [world EXCEPT !.source = @ \ {n},
                                   !.uid = [s \in Streams |-> IF s \in gone THEN 0 ELSE @[s]]]
         /\ touched' = touched \cup gone
  BY DEF DeleteSourceNamespace
<1>3. world \in Worlds BY <1>0 DEF Typed
<1>4. /\ world'.uid = [s \in Streams |-> IF s \in gone THEN 0 ELSE world.uid[s]]
      /\ world'.source = world.source \ {n} /\ world'.dest = world.dest
      /\ world' = [world EXCEPT !.uid = world'.uid, !.source = world'.source]
  BY <1>2, <1>3 DEF Worlds
<1>5. world'.uid \in [Streams -> Nat]
  <2>1. 0 \in Nat /\ world.uid \in [Streams -> Nat] BY <1>3 DEF Worlds
  <2> QED BY ZenonT(60), <2>1, <1>4
<1>6. world' \in Worlds
  <2> world'.source \subseteq DOMAIN setup.mapping BY <1>3, <1>4 DEF Worlds
  <2> QED BY <1>3, <1>4, <1>5 DEF Worlds
<1>7. \A s \in Streams \ touched' : world'.uid[s] = world.uid[s]
  <2> TAKE s \in Streams \ touched'
  <2> s \notin gone BY <1>2
  <2> QED BY <1>4
<1>8. touched' \subseteq Streams BY <1>0, <1>2 DEF Typed
<1> QED BY <1>1, <1>2, <1>4, <1>6, <1>7, <1>8, TouchKeeps

\* A namespace that is being deleted goes, and what is in it.
LEMMA GoneKeeps == IInv /\ NamespaceGone => IInv'
<1> SUFFICES ASSUME IInv, NamespaceGone PROVE IInv' OBVIOUS
<1>0. Typed BY DEF IInv
<1>1. UNCHANGED <<setup, parent, dims, disms, touched, spent>> BY DEF NamespaceGone
<1>2. PICK n \in Namespaces :
         /\ world.dest[n] = "terminating" /\ world' = [world EXCEPT !.dest[n] = "absent"]
         /\ images' = {m \in images : m[2] # n}
  BY DEF NamespaceGone
<1>3. /\ world' \in Worlds /\ world'.uid = world.uid
      /\ \A r \in Namespaces : world'.dest[r] = "terminating" => world.dest[r] = "terminating"
  BY <1>0, <1>2 DEF Typed, Worlds, NamespaceStates
<1>4. images' \subseteq Streams \X Namespaces BY <1>0, <1>2 DEF Typed
<1>5. Typed' /\ \A k \in DOMAIN dims : SameDim(dims[k], dims'[k])
  <2> /\ parent' \in Parents /\ touched' \subseteq Streams /\ disms' \in Seq(Disms)
      /\ Len(disms') = Len(disms) /\ spent' \in [{"change", "fault"} -> Nat]
    BY <1>0, <1>1 DEF Typed
  <2> QED BY <1>0, <1>1, <1>3, <1>4, AsideTyped
<1>6. \A s : /\ Target(s)' = Target(s) /\ Untouched(s)' = Untouched(s) /\ Safe(s)' = Safe(s)
  BY <1>1, SameStreams
<1>7. ASSUME NEW s \in Streams, Safe(s), There(s)
      PROVE  There(s)'
  <2> Target(s) # n BY <1>2, <1>7 DEF IInv, Around
  <2> QED BY <1>2, <1>6, <1>7 DEF There
<1>8. Growing BY <1>1, <1>7 DEF Growing
<1>9. \A k \in DOMAIN dims : Sound(k)' BY <1>1, <1>5, <1>8, SoundKeeps
<1>10. Around' BY <1>1, <1>3, AroundKeeps
<1>11. \A i \in DOMAIN disms : disms[i].stream \in Streams BY <1>0, RefFacts DEF Disms
<1>12. Copying' BY <1>1, <1>6, <1>7, <1>11 DEF IInv, Copying
<1>13. Going' BY <1>1 DEF IInv, Going
<1> QED BY <1>1, <1>5, <1>9, <1>10, <1>12, <1>13 DEF IInv

-----------------------------------------------------------------------------
(* The invariant, and what it says *)

\* At first nothing has been made.
LEMMA IInvInit == Init => IInv
<1> SUFFICES ASSUME Init PROVE IInv OBVIOUS
<1>1. setup \in Setups BY DEF Init
<1>2. /\ setup.dest \in [Namespaces -> NamespaceStates] /\ setup.there \subseteq Streams
      /\ \A s \in Streams : Target(s) \in Namespaces
  BY <1>1, SetupFacts
<1>3. /\ world.uid = [s \in Streams |-> IF s \in setup.there THEN 1 ELSE 0]
      /\ world.dest = setup.dest /\ disms = <<>> /\ dims = <<>> /\ images = {}
      /\ world \in Worlds
  BY <1>2 DEF Init, Worlds, Sides
<1>4. dims \in Seq(Dims) /\ disms \in Seq(Disms) /\ DOMAIN dims = {} /\ DOMAIN disms = {}
  BY <1>3
<1>5. Typed
  BY <1>1, <1>3, <1>4 DEF Init, Typed, Bound, Parents
<1>6. Going BY DEF Init, Going
<1>7. Around BY <1>2, <1>3 DEF Around, Untouched, Safe, Doomed
<1>8. Copying BY <1>4 DEF Copying
<1> QED BY <1>4, <1>5, <1>6, <1>7, <1>8 DEF IInv

\* Every step keeps the invariant.
LEMMA IInvNext == IInv /\ [Next]_vars => IInv'
<1> SUFFICES ASSUME IInv, [Next]_vars PROVE IInv' OBVIOUS
<1>0. Typed BY DEF IInv
<1>1. ASSUME NEW k \in DOMAIN dims, DimPass(k) PROVE IInv'
  BY <1>1, DimAdvancesKeeps, EnsureNamespacesKeeps, ListKeeps, CreateKeeps, CompletionKeeps
     DEF DimPass
<1>2. ASSUME NEW k \in DOMAIN dims, DimCut(k) PROVE IInv'
  BY <1>2, CutNamespacesKeeps, CutListKeeps, CutCreateKeeps, CutCheckKeeps DEF DimCut
<1>3. CASE NamespaceGone BY <1>3, GoneKeeps
<1>4. CASE CreateDirectImageMigration \/ WaitForDirectImageMigration
           \/ DeleteDirectImageMigration \/ Cancel \/ DeleteDim
           \/ \E k \in DOMAIN dims : SyncDim(k)
  BY <1>4, MigrationKeeps
<1>5. ASSUME NEW i \in DOMAIN disms, Sync(i) \/ Collect(i) PROVE IInv'
  <2>1. UNCHANGED <<setup, parent, dims, world, images, touched>>
        /\ spent' \in [{"change", "fault"} -> Nat]
    BY <1>0, <1>5 DEF Sync, Collect, Typed
  <2>2. \/ disms' = [disms EXCEPT ![i].seen = TRUE]
        \/ disms' = [disms EXCEPT ![i].kept = FALSE]
    BY <1>5 DEF Sync, Collect
  <2> QED BY <2>1, <2>2, SeenKeeps
<1>6. ASSUME NEW i \in DOMAIN disms, DismAdvances(i) \/ MigrateImageStream(i) \/ CutMigrate(i)
      PROVE  IInv'
  BY <1>6, AdvancingKeeps, MigrateKeeps, CutMigrateKeeps
<1>7. CASE DeleteDism
  <2>1. UNCHANGED <<setup, parent, dims, world, images, touched>>
        /\ spent' \in [{"change", "fault"} -> Nat]
    BY <1>0, <1>7, SpentFacts DEF DeleteDism, MayChange
  <2>2. PICK i \in DOMAIN disms : disms' = [disms EXCEPT ![i].kept = FALSE]
    BY <1>7 DEF DeleteDism
  <2> QED BY <2>1, <2>2, SeenKeeps
<1>8. CASE Restart \/ ChangeCluster BY <1>8, RestartKeeps
<1>9. CASE ChangeStream \/ DeleteNamespace \/ DeleteSourceNamespace
  BY <1>9, ChangeStreamKeeps, DeleteNamespaceKeeps, DeleteSourceKeeps
<1>10. CASE UNCHANGED vars
  <2>1. UNCHANGED <<setup, parent, dims, disms, world, images, touched, spent>>
    BY <1>10 DEF vars
  <2>2. /\ parent' \in Parents /\ world' \in Worlds /\ world'.uid = world.uid
        /\ world'.dest = world.dest /\ spent' \in [{"change", "fault"} -> Nat]
    BY <1>0, <2>1 DEF Typed
  <2> QED BY <2>1, <2>2, SameDims, AsideKeeps
<1> QED
  BY <1>1, <1>2, <1>3, <1>4, <1>5, <1>6, <1>7, <1>8, <1>9, <1>10 DEF Next, Progress

\* The invariant holds in every state.
LEMMA IInvHolds == Spec => []IInv
<1> QED BY IInvInit, IInvNext, PTL DEF Spec

\* Two sets apart.
LEMMA TwoParts ==
    ASSUME NEW A, IsFiniteSet(A), NEW B, IsFiniteSet(B), A \cap B = {}
    PROVE  /\ IsFiniteSet(A \cup B)
           /\ Cardinality(A \cup B) = Cardinality(A) + Cardinality(B)
<1>1. /\ IsFiniteSet(A \cup B)
      /\ Cardinality(A \cup B) = Cardinality(A) + Cardinality(B) - Cardinality(A \cap B)
  BY FS_Union
<1>2. Cardinality(A \cap B) = 0 BY FS_EmptySet
<1>3. Cardinality(A) \in Nat /\ Cardinality(B) \in Nat BY FS_CardinalityType
<1> QED BY <1>1, <1>2, <1>3

\* Four parts of a finite set.
LEMMA FourParts ==
    ASSUME NEW L, IsFiniteSet(L), NEW A, NEW B, NEW C, NEW D, A \cup B \cup C \cup D = L,
           A \cap (B \cup C \cup D) = {}, B \cap (C \cup D) = {}, C \cap D = {}
    PROVE  Cardinality(A) + Cardinality(B) + Cardinality(C) + Cardinality(D) = Cardinality(L)
<1>0. A \subseteq L /\ B \subseteq L /\ C \subseteq L /\ D \subseteq L OBVIOUS
<1>1. /\ IsFiniteSet(A) /\ IsFiniteSet(B) /\ IsFiniteSet(C) /\ IsFiniteSet(D)
  BY <1>0, FS_Subset
<1>2. /\ Cardinality(A) \in Nat /\ Cardinality(B) \in Nat /\ Cardinality(C) \in Nat
      /\ Cardinality(D) \in Nat
  BY <1>1, FS_CardinalityType
<1>3. IsFiniteSet(C \cup D) /\ Cardinality(C \cup D) = Cardinality(C) + Cardinality(D)
  BY <1>1, TwoParts
<1>4. PICK E : E = B \cup (C \cup D) OBVIOUS
<1>5. IsFiniteSet(E) /\ Cardinality(E) = Cardinality(B) + Cardinality(C \cup D)
  BY <1>1, <1>3, <1>4, TwoParts
<1>7. A \cap E = {} /\ A \cup E = L BY <1>4
<1>8. Cardinality(L) = Cardinality(A) + Cardinality(E) BY <1>1, <1>5, <1>7, TwoParts
<1> QED BY <1>2, <1>3, <1>5, <1>8

\* ImagesAccounted: whatever is deleted, cut or repeated, each image stream that
\* a dim has listed is in exactly one of its lists, and a dim that has completed
\* has one verdict (imagestream.go:166-208, migrate.go:67-80).
THEOREM ImagesAccounted == Spec => []AllAccounted
<1>1. IInv => AllAccounted
  <2> SUFFICES ASSUME IInv, NEW k \in DOMAIN dims
               PROVE  Accounted(dims[k]) /\ OneVerdict(dims[k])
    BY DEF AllAccounted
  <2>0. Sound(k) /\ dims[k] \in Dims BY RefFacts DEF IInv
  <2>1. Accounted(dims[k])
    <3> SUFFICES ASSUME Listed(k)
                 PROVE  /\ dims[k].new \cup dims[k].successful \cup dims[k].deleted
                               \cup dims[k].bad = dims[k].listed
                        /\ Cardinality(dims[k].new) + Cardinality(dims[k].successful)
                             + Cardinality(dims[k].deleted) + Cardinality(dims[k].bad)
                               = Cardinality(dims[k].listed)
      BY DEF Accounted, Listed, Making
    <3>1. dims[k].new \cup dims[k].successful \cup dims[k].deleted \cup dims[k].bad
             = dims[k].listed
      BY <2>0 DEF Sound, Listing
    <3>2. IsFiniteSet(dims[k].listed)
      <4> dims[k].listed \subseteq Streams BY <2>0 DEF Dims
      <4> QED BY FS_Subset, SetupsAssumption DEF SetupsAssumption
    <3>3. /\ dims[k].new \cap (dims[k].successful \cup dims[k].deleted \cup dims[k].bad) = {}
          /\ dims[k].successful \cap (dims[k].deleted \cup dims[k].bad) = {}
          /\ dims[k].deleted \cap dims[k].bad = {}
      BY <2>0 DEF Sound, Listing
    <3> QED BY <3>1, <3>2, <3>3, FourParts
  <2>2. OneVerdict(dims[k]) BY <2>0 DEF Sound, Judging, OneVerdict
  <2> QED BY <2>1, <2>2
<1> QED BY <1>1, IInvHolds, PTL

\* ImagesDone: when the migration has gone on without a warning, the images of
\* every image stream nobody touched are in the registry of the destination, and
\* of the dim it waited for nothing copies any more but a dism that dim does not
\* know (task.go:489-517), however many dims the migration has made.
THEOREM ImagesDone == Spec => []Done
<1>1. IInv => Done
  <2> SUFFICES ASSUME IInv, parent.phase = "done", ~parent.warned
               PROVE  /\ \A s \in setup.picked \cap setup.there :
                            s \in touched \/ Doomed(s) \/ <<s, Target(s)>> \in images
                      /\ \A i \in DOMAIN disms : disms[i].kept =>
                            disms[i].phase = "Completed" \/ Stray(i) \/ OfAnother(i)
    BY DEF Done, SuccessMeansCopied, QuietAfter
  <2>0. PICK k \in DOMAIN dims : k = parent.of /\ dims[k].succeeded BY DEF IInv, Going
  <2>1. Listed(k) /\ Sound(k) BY <2>0 DEF IInv, Listed
  <2>2. /\ dims[k].new = {} /\ dims[k].bad = {}
        /\ dims[k].successful \cup dims[k].deleted = dims[k].listed
    BY <2>0, <2>1 DEF Sound, Judging, Listing
  <2>3. ASSUME NEW s \in setup.picked \cap setup.there, s \notin touched, ~Doomed(s)
        PROVE  <<s, Target(s)>> \in images
    <3>1. Untouched(s) /\ Safe(s) BY <2>3 DEF Untouched, Safe
    <3>2. s \in Streams BY SetupFacts DEF IInv, Typed
    <3>3. s \in dims[k].successful BY <2>1, <2>2, <3>1, <3>2 DEF Sound, Keeping
    <3> QED BY <2>1, <3>1, <3>2, <3>3 DEF Sound, Following, There
  <2>4. ASSUME NEW i \in DOMAIN disms, ~Stray(i), ~OfAnother(i)
        PROVE  disms[i].phase = "Completed"
    <3>1. PICK s \in Streams : dims[k].ref[s] = i BY <2>0, <2>4 DEF Stray, OfAnother
    <3>2. i # 0 BY RefFacts DEF IInv
    <3>3. s \in dims[k].successful BY <2>1, <2>2, <3>1, <3>2 DEF Sound, Following
    <3> QED BY <2>1, <3>1, <3>3 DEF Sound, Following
  <2> QED BY <2>3, <2>4
<1> QED BY <1>1, IInvHolds, PTL
================================================================================
