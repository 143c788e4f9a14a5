---------------------------- MODULE TestFlowProofs ----------------------------
(***************************************************************************)
(* Proofs about the regression runner and the image cache: its exit status *)
(* is the truth about the suites asked for, and the image a kernel runs on *)
(* is the one asked for, for any suites, sources, launch masks, arguments  *)
(* and editing.                                                            *)
(***************************************************************************)
EXTENDS TestFlow, TLAPS

USE SuitesAssumption, FilesAssumption

-----------------------------------------------------------------------------
(* The exit status. *)

RunProperty == RunInv /\ VerdictIsTrue

LEMMA RunInit == Init => RunProperty
BY DEF Init, RunProperty, RunInv, VerdictIsTrue, AtSuite, Idle

\* A step that leaves the runner where it is, with the results it has.
LEMMA RunStays ==
    RunProperty /\ UNCHANGED <<progress, at, results>> => RunProperty'
BY DEF RunProperty, RunInv, VerdictIsTrue, AtSuite, Idle, progress, NoVerdict, Suite

\* The compute suite is under way: kernels come and go, with no verdict yet.
LEMMA RunComputes ==
    ASSUME RunProperty, UNCHANGED progress,
           at \in {"compute", "elaborate", "kernel"},
           at' \in {"compute", "elaborate", "kernel"}
    PROVE  RunProperty'
BY DEF RunProperty, RunInv, VerdictIsTrue, AtSuite, Idle, progress

\* A new invocation starts from nothing.
LEMMA RunInvoke ==
    ASSUME NEW args \in REQUESTS, Invoke(args)
    PROVE  RunProperty'
<1>1. wanted' \in Seq(STRING) /\ pos' = 1 /\ pos' \in 1 .. Len(wanted') + 1
  BY DEF Invoke
<1>2. /\ failures' = {} /\ infra_errors' = {} /\ ran' = {} /\ passed' = {}
      /\ at' = "next" \/ (at' = "exit" /\ code' = 2)
  BY DEF Invoke
<1>3. at' = "exit" => ~(1 .. Len(wanted') \subseteq passed')
  <2> SUFFICES ASSUME at' = "exit" PROVE ~(1 .. Len(wanted') \subseteq passed')
    OBVIOUS
  <2>1. ~(ToSet(args) \subseteq ToSet(SUITES))
    BY DEF Invoke
  <2>2. args # <<>> /\ wanted' = args
    BY <2>1 DEF Invoke, ToSet
  <2>3. Len(wanted') >= 1
    BY <1>1, <2>2
  <2> QED
    BY <1>1, <1>2, <2>3
<1> QED
  BY <1>1, <1>2, <1>3 DEF RunProperty, RunInv, VerdictIsTrue, AtSuite, Idle

LEMMA RunOpens ==
    ASSUME RunProperty, OpenSuite \/ OpenCompute
    PROVE  RunProperty'
<1>1. CASE OpenSuite
  BY <1>1 DEF OpenSuite, RunProperty, RunInv, VerdictIsTrue, AtSuite, Idle, progress,
              Done, Suite, ResultsRemoved, Without
<1>2. CASE OpenCompute
  BY <1>2 DEF OpenCompute, RunProperty, RunInv, VerdictIsTrue, AtSuite, Idle, progress,
              Done, Suite, disk
<1> QED
  BY <1>1, <1>2

LEMMA RunRaises ==
    ASSUME RunProperty, SuiteRaises
    PROVE  RunProperty'
BY DEF SuiteRaises, RunProperty, RunInv, VerdictIsTrue, AtSuite, Idle

\* The simulation leaves a results file, an empty one, or none.
LEMMA RunSimulates ==
    ASSUME RunProperty, SimulationEnds
    PROVE  RunProperty'
<1>1. /\ at = "test" /\ at' = "check" /\ UNCHANGED <<wanted, pos, failures, infra_errors>>
      /\ Suite' = Suite /\ Suite \notin DOMAIN results
      /\ pos \notin ran /\ pos \notin passed /\ pos \notin failures /\ pos \notin infra_errors
  BY DEF SimulationEnds, RunProperty, RunInv, Suite
<1> DEFINE Written == /\ ran \subseteq ran' /\ ran' \subseteq ran \union {pos}
                      /\ passed \subseteq passed' /\ passed' \subseteq passed \union {pos}
                      /\ pos \in ran' <=> ~NoVerdict'
                      /\ pos \in passed' <=> (~NoVerdict' /\ ~(results'[Suite'].bad > 0))
<1>2. Written
  <2>1. CASE UNCHANGED <<results, ran, passed>>
    BY <1>1, <2>1 DEF NoVerdict
  <2>2. ASSUME NEW n \in 0 .. 1, NEW bad \in 0 .. 1, bad <= n,
               results' = With(results, Suite, [cases |-> n, bad |-> bad]),
               ran' = IF n > 0 THEN ran \union {pos} ELSE ran,
               passed' = IF n > 0 /\ bad = 0 THEN passed \union {pos} ELSE passed
        PROVE  Written
    <3>1. Suite \in DOMAIN results' /\ results'[Suite] = [cases |-> n, bad |-> bad]
      BY <2>2 DEF With
    <3>2. /\ Suite' \in DOMAIN results' /\ results'[Suite'].cases = n
          /\ results'[Suite'].bad = bad
      BY <1>1, <3>1
    <3> QED
      BY <1>1, <2>2, <3>2 DEF NoVerdict
  <2> QED
    BY <2>1, <2>2 DEF SimulationEnds
<1> QED
  BY <1>1, <1>2 DEF RunProperty, RunInv, VerdictIsTrue, AtSuite, Idle

LEMMA RunChecks ==
    ASSUME RunProperty, check_results
    PROVE  RunProperty'
<1>1. /\ at = "check" /\ at' = "next" /\ pos' = pos + 1
      /\ UNCHANGED <<wanted, ran, passed>>
      /\ infra_errors' = IF NoVerdict THEN infra_errors \union {pos} ELSE infra_errors
      /\ failures' = IF ~NoVerdict /\ results[Suite].bad > 0
                     THEN failures \union {pos} ELSE failures
  BY DEF check_results
<1>2. /\ pos \in ran <=> ~NoVerdict
      /\ pos \in passed <=> (~NoVerdict /\ ~(results[Suite].bad > 0))
  BY <1>1 DEF RunProperty, RunInv
<1> DEFINE bad == results[Suite].bad > 0
<1>3. CASE NoVerdict
  BY <1>1, <1>2, <1>3 DEF RunProperty, RunInv, VerdictIsTrue, AtSuite, Idle
<1>4. CASE ~NoVerdict /\ bad
  BY <1>1, <1>2, <1>4 DEF RunProperty, RunInv, VerdictIsTrue, AtSuite, Idle
<1>5. CASE ~NoVerdict /\ ~bad
  BY <1>1, <1>2, <1>5 DEF RunProperty, RunInv, VerdictIsTrue, AtSuite, Idle
<1> QED
  BY <1>3, <1>4, <1>5

LEMMA RunEndsCompute ==
    ASSUME RunProperty, ComputeEnds
    PROVE  RunProperty'
<1>1. /\ at = "compute" /\ at' = "next" /\ pos' = pos + 1
      /\ UNCHANGED <<wanted, infra_errors>> /\ ran' = ran \union {pos}
  BY DEF ComputeEnds
<1>2. CASE kernels_failed
  BY <1>1, <1>2 DEF ComputeEnds, RunProperty, RunInv, VerdictIsTrue, AtSuite, Idle
<1>3. CASE ~kernels_failed
  BY <1>1, <1>3 DEF ComputeEnds, RunProperty, RunInv, VerdictIsTrue, AtSuite, Idle
<1> QED
  BY <1>2, <1>3

\* Every position has an outcome, so none has failed exactly if all have passed.
LEMMA RunExits ==
    ASSUME RunProperty, Exit
    PROVE  RunProperty'
<1>1. /\ at = "next" /\ at' = "exit" /\ pos = Len(wanted) + 1
      /\ UNCHANGED <<wanted, pos, failures, infra_errors, ran, passed, results>>
      /\ code' = IF failures \union infra_errors # {} THEN 1 ELSE 0
  BY DEF Exit, Done, disk, RunProperty, RunInv
<1>2. code' = 0 <=> failures \union infra_errors = {}
  BY <1>1
<1>3. /\ 1 .. Len(wanted) \subseteq passed \union failures \union infra_errors
      /\ failures \union infra_errors \subseteq 1 .. Len(wanted)
      /\ infra_errors \intersect passed = {} /\ failures \intersect passed = {}
  BY <1>1 DEF RunProperty, RunInv, Idle
<1>4. failures \union infra_errors = {} <=> 1 .. Len(wanted) \subseteq passed
  BY <1>3
<1>5. VerdictIsTrue'
  BY <1>1, <1>2, <1>4 DEF VerdictIsTrue, RunProperty, RunInv
<1> QED
  BY <1>1, <1>5 DEF RunProperty, RunInv, AtSuite, Idle

LEMMA RunInterrupted ==
    ASSUME Interrupt
    PROVE  RunProperty'
BY DEF Interrupt, RunProperty, RunInv, VerdictIsTrue, AtSuite, Idle

LEMMA RunStep == RunProperty /\ [Next]_vars => RunProperty'
<1> SUFFICES ASSUME RunProperty, [Next]_vars PROVE RunProperty'
  OBVIOUS
<1> USE DEF disk, compute, clock
<1>1. CASE Tick \/ \E f \in FILES : Edit(f) \/ Delete(f)
  BY <1>1, RunStays DEF Tick, Edit, Delete
<1>2. CASE \E e \in Environments : SwitchEnvironment(e)
  BY <1>2, RunStays DEF SwitchEnvironment
<1>3. CASE \E mask \in ToSet(MASKS) : Reuse(mask) \/ Elaborate(mask)
  BY <1>3, RunComputes DEF Reuse, Elaborate
<1>4. CASE Elaborated \/ ElaborationFails \/ KernelRuns
  BY <1>4, RunComputes DEF Elaborated, ElaborationFails, KernelRuns
<1>5. CASE \E args \in REQUESTS : Invoke(args)
  BY <1>5, RunInvoke
<1>6. CASE OpenSuite \/ OpenCompute
  BY <1>6, RunOpens
<1>7. CASE SuiteRaises \/ SimulationEnds \/ check_results
  BY <1>7, RunRaises, RunSimulates, RunChecks
<1>8. CASE ComputeEnds \/ Exit \/ Interrupt
  BY <1>8, RunEndsCompute, RunExits, RunInterrupted
<1>9. CASE UNCHANGED vars
  BY <1>9, RunStays DEF vars
<1> QED
  BY <1>1, <1>2, <1>3, <1>4, <1>5, <1>6, <1>7, <1>8, <1>9 DEF Next

\* How the loop over the suites asked for keeps its books: each position behind it
\* failed, never ran, or passed, and results that are read were written in this run.
THEOREM RunInvariant == Spec => [](RunInv /\ VerdictIsTrue)
<1>1. Init => RunProperty
  BY RunInit
<1>2. RunProperty /\ [Next]_vars => RunProperty'
  BY RunStep
<1>3. RunProperty => RunInv /\ VerdictIsTrue
  BY DEF RunProperty
<1> QED
  BY <1>1, <1>2, <1>3, PTL DEF Spec

\* main() exits with status 0 exactly if every suite asked for ran in this very
\* invocation and passed, and what it reports as never run gave no verdict.
THEOREM ExitStatusIsTrue == Spec => []VerdictIsTrue
BY RunInvariant, PTL

-----------------------------------------------------------------------------
(* The image cache. *)

LEMMA NamesFit ==
    ASSUME env \in Environments, NEW mask
    PROVE  Configured(mask) = Named(_sim_path(mask))
BY DEF Environments, Configured, Named, _sim_path

LEMMA ImageInit == Init => ImageInv
BY DEF Init, ImageInv, StampsArePast, ImagesAreNamed, ElaborationFits,
       ImageIsTheOneAsked, Environments, ToSet

\* The image invariant as far as sources, images and time stamps go.
CacheInv == StampsArePast /\ ImagesAreNamed

LEMMA CacheStays ==
    CacheInv /\ UNCHANGED <<now, src, images, unsafe>> => CacheInv'
BY DEF CacheInv, StampsArePast, ImagesAreNamed, UpToDate, Revisions

LEMMA CacheTicks ==
    ASSUME CacheInv, Tick
    PROVE  CacheInv'
<1>1. now' = now + 1 /\ UNCHANGED <<src, images, unsafe>>
  BY DEF Tick, disk, compute
<1>2. StampsArePast'
  BY <1>1 DEF CacheInv, StampsArePast
<1>3. ImagesAreNamed'
  BY <1>1 DEF CacheInv, ImagesAreNamed, UpToDate, Revisions
<1> QED
  BY <1>2, <1>3 DEF CacheInv

\* The edited source is newer than every image, but those of this very tick, which
\* no stamp vouches for any more.
LEMMA CacheEdited ==
    ASSUME CacheInv, NEW f \in FILES, Edit(f)
    PROVE  CacheInv'
<1>1. /\ src' = With(src, f, [rev |-> edits + 1, mtime |-> now])
      /\ unsafe' = unsafe \union {k \in DOMAIN images : images[k].mtime = now}
      /\ UNCHANGED <<now, images>>
  BY DEF Edit
<1>2. /\ f \in DOMAIN src' /\ src'[f].mtime = now
      /\ DOMAIN src' = DOMAIN src \union {f}
      /\ \A g \in DOMAIN src : g # f => src'[g] = src[g]
  BY <1>1 DEF With
<1>3. StampsArePast'
  BY <1>1, <1>2 DEF CacheInv, StampsArePast
<1>4. ASSUME NEW path \in DOMAIN images, path \notin unsafe'
      PROVE  images[path].sound /\ ~UpToDate(images[path])'
  <2>1. path \notin unsafe /\ images[path].mtime \in 0 .. now /\ images[path].mtime # now
    BY <1>1, <1>4 DEF CacheInv, StampsArePast
  <2>2. ~(images[path].mtime >= src'[f].mtime)
    BY <1>2, <2>1 DEF CacheInv, StampsArePast
  <2> QED
    BY <1>1, <1>2, <2>1, <2>2 DEF CacheInv, ImagesAreNamed, UpToDate
<1>5. ImagesAreNamed'
  BY <1>1, <1>4 DEF CacheInv, ImagesAreNamed, UpToDate
<1> QED
  BY <1>3, <1>5 DEF CacheInv

LEMMA CacheDeleted ==
    ASSUME CacheInv, NEW f \in FILES, Delete(f)
    PROVE  CacheInv'
<1>1. /\ src' = Without(src, f) /\ unsafe' = unsafe \union DOMAIN images
      /\ UNCHANGED <<now, images>>
  BY DEF Delete
<1>2. StampsArePast'
  BY <1>1 DEF CacheInv, StampsArePast, Without
<1>3. ImagesAreNamed'
  BY <1>1 DEF CacheInv, ImagesAreNamed
<1> QED
  BY <1>2, <1>3 DEF CacheInv

\* An image written now, under its name, vouched for only if it is sound and up to date.
LEMMA CacheWritten ==
    ASSUME CacheInv, NEW path, NEW image,
           images' = With(images, path, image), UNCHANGED <<now, src>>,
           image.of = Named(path), image.mtime = now,
           unsafe \ {path} \subseteq unsafe',
           path \notin unsafe' => image.sound /\ image.built = Revisions
    PROVE  CacheInv'
<1>1. /\ DOMAIN images' = DOMAIN images \union {path} /\ images'[path] = image
      /\ \A p \in DOMAIN images : p # path => images'[p] = images[p]
  BY DEF With
<1>2. StampsArePast'
  BY <1>1 DEF CacheInv, StampsArePast
<1>3. ASSUME NEW p \in DOMAIN images'
      PROVE  /\ images'[p].of = Named(p)
             /\ p \notin unsafe' =>
                   /\ images'[p].sound
                   /\ UpToDate(images[p])' => images'[p].built = Revisions'
  <2>0. Revisions' = Revisions
    BY DEF Revisions
  <2>1. CASE p = path
    BY <1>1, <2>0, <2>1
  <2>2. CASE p # path
    <3>1. p \in DOMAIN images /\ images'[p] = images[p] /\ (p \notin unsafe' => p \notin unsafe)
      BY <1>1, <2>2
    <3>2. UpToDate(images[p])' <=> UpToDate(images[p])
      BY <3>1 DEF UpToDate
    <3> QED
      BY <2>0, <3>1, <3>2 DEF CacheInv, ImagesAreNamed
  <2> QED
    BY <2>1, <2>2
<1> QED
  BY <1>2, <1>3 DEF CacheInv, ImagesAreNamed

\* What the rest of the runner leaves alone.
LEMMA ImageStays ==
    ASSUME ImageInv, UNCHANGED <<now, src, images, unsafe, env>>,
           returned' = returned \/ returned' = <<>>,
           at' = "elaborate" => at = "elaborate" /\ elab' = elab
    PROVE  ImageInv'
<1>1. StampsArePast' /\ ImagesAreNamed'
  BY CacheStays DEF ImageInv, CacheInv
<1>2. ElaborationFits'
  BY DEF ImageInv, ElaborationFits
<1>3. ImageIsTheOneAsked'
  BY DEF ImageInv, ImageIsTheOneAsked, ToSet
<1> QED
  BY <1>1, <1>2, <1>3 DEF ImageInv

LEMMA ImageEdited ==
    ASSUME ImageInv, Tick \/ \E f \in FILES : Edit(f) \/ Delete(f)
    PROVE  ImageInv'
<1>1. CacheInv'
  BY CacheTicks, CacheEdited, CacheDeleted DEF ImageInv, CacheInv
<1>2. UNCHANGED <<env, elab, returned, at>>
  BY DEF Tick, Edit, Delete, disk, compute
<1> QED
  BY <1>1, <1>2 DEF ImageInv, CacheInv, ElaborationFits, ImageIsTheOneAsked

LEMMA ReturnFits ==
    ASSUME NEW want, NEW image, NEW vouched, Return(want, image, vouched),
           image.of = want, vouched => image.built = Revisions /\ image.sound
    PROVE  ImageIsTheOneAsked'
<1> DEFINE x == [want |-> want, image |-> image, now |-> Revisions, vouched |-> vouched]
<1>1. ToSet(returned') = {x}
  BY DEF Return, ToSet
<1> QED
  BY <1>1 DEF ImageIsTheOneAsked

\* The image on disk has the name of the one asked for, and is as new as the sources.
LEMMA ImageReused ==
    ASSUME ImageInv, NEW mask, Reuse(mask)
    PROVE  ImageInv'
<1> DEFINE path == _sim_path(mask)
<1>1. /\ path \in DOMAIN images /\ UpToDate(images[path])
      /\ Return(Configured(mask), images[path], path \notin unsafe)
      /\ at' = "kernel" /\ UNCHANGED <<now, src, images, unsafe, env>>
  BY DEF Reuse, Reusable, disk, clock
<1>2. images[path].of = Configured(mask)
  BY <1>1, NamesFit DEF ImageInv, ImagesAreNamed, ElaborationFits
<1>3. path \notin unsafe => images[path].built = Revisions /\ images[path].sound
  BY <1>1 DEF ImageInv, ImagesAreNamed
<1>4. ImageIsTheOneAsked'
  <2> HIDE DEF path
  <2> QED BY <1>1, <1>2, <1>3, ReturnFits
<1>5. StampsArePast' /\ ImagesAreNamed'
  BY <1>1, CacheStays DEF ImageInv, CacheInv
<1> QED
  BY <1>1, <1>4, <1>5 DEF ImageInv, ElaborationFits

LEMMA ImageElaborates ==
    ASSUME ImageInv, NEW mask, Elaborate(mask)
    PROVE  ImageInv'
<1>1. /\ elab' = <<[path |-> _sim_path(mask), of |-> Configured(mask), built |-> Revisions]>>
      /\ UNCHANGED <<now, src, images, unsafe, env, returned>>
  BY DEF Elaborate, disk, clock
<1>2. elab'[1].path = _sim_path(mask) /\ elab'[1].of = Configured(mask)
  BY <1>1
<1>3. ElaborationFits'
  BY <1>1, <1>2, NamesFit DEF ImageInv, ElaborationFits
<1>4. StampsArePast' /\ ImagesAreNamed'
  BY <1>1, CacheStays DEF ImageInv, CacheInv
<1> QED
  BY <1>1, <1>3, <1>4 DEF ImageInv, ImageIsTheOneAsked

LEMMA ImageElaborated ==
    ASSUME ImageInv, Elaborated
    PROVE  ImageInv'
<1> DEFINE path == elab[1].path
           stale == elab[1].built # Revisions
<1>1. /\ at = "elaborate" /\ at' = "kernel"
      /\ images' = With(images, path, Image(TRUE))
      /\ unsafe' = IF stale THEN unsafe \union {path} ELSE unsafe \ {path}
      /\ Return(elab[1].of, Image(TRUE), ~stale)
      /\ UNCHANGED <<now, src, env>>
  BY DEF Elaborated, clock
<1>2. /\ Image(TRUE).of = elab[1].of /\ Image(TRUE).built = elab[1].built
      /\ Image(TRUE).mtime = now /\ Image(TRUE).sound
      /\ elab[1].of = Named(path)
  BY <1>1 DEF Image, ImageInv, ElaborationFits
<1>3. ImageIsTheOneAsked'
  BY <1>1, <1>2, ReturnFits
<1>4. CacheInv'
  <2> HIDE DEF path
  <2>1. unsafe \ {path} \subseteq unsafe' /\ (path \notin unsafe' => ~stale)
    BY <1>1
  <2> QED BY <1>1, <1>2, <2>1, CacheWritten DEF ImageInv, CacheInv
<1> QED
  BY <1>1, <1>3, <1>4 DEF ImageInv, CacheInv, ElaborationFits

\* What an elaboration that was killed or rejected leaves is not vouched for.
LEMMA CacheSpoiled ==
    ASSUME ImageInv, at = "elaborate", UNCHANGED <<now, src>>,
           images' = With(images, elab[1].path, Image(FALSE)),
           unsafe' = unsafe \union {elab[1].path}
    PROVE  CacheInv'
<1>1. /\ Image(FALSE).of = Named(elab[1].path) /\ Image(FALSE).mtime = now
  BY DEF Image, ImageInv, ElaborationFits
<1> QED
  BY <1>1, CacheWritten DEF ImageInv, CacheInv

LEMMA ImageFails ==
    ASSUME ImageInv, ElaborationFails \/ Interrupt
    PROVE  ImageInv'
<1>1. /\ at' # "elaborate" /\ UNCHANGED <<now, src, env>>
      /\ returned' = returned \/ returned' = <<>>
  BY DEF ElaborationFails, Interrupt, clock
<1>2. \/ UNCHANGED <<images, unsafe>>
      \/ /\ at = "elaborate"
         /\ images' = With(images, elab[1].path, Image(FALSE))
         /\ unsafe' = unsafe \union {elab[1].path}
  BY DEF ElaborationFails, Interrupt
<1>3. CacheInv'
  BY <1>1, <1>2, CacheStays, CacheSpoiled DEF ImageInv, CacheInv
<1>4. ImageIsTheOneAsked'
  BY <1>1 DEF ImageInv, ImageIsTheOneAsked, ToSet
<1> QED
  BY <1>1, <1>3, <1>4 DEF ImageInv, CacheInv, ElaborationFits

LEMMA ImageSwitched ==
    ASSUME ImageInv, NEW e \in Environments, SwitchEnvironment(e)
    PROVE  ImageInv'
<1>1. /\ env' = e /\ at # "elaborate"
      /\ UNCHANGED <<now, src, images, unsafe, elab, returned, at>>
  BY DEF SwitchEnvironment, Idle, compute, clock
<1>2. StampsArePast' /\ ImagesAreNamed'
  BY <1>1, CacheStays DEF ImageInv, CacheInv
<1> QED
  BY <1>1, <1>2 DEF ImageInv, ElaborationFits, ImageIsTheOneAsked

LEMMA ImageStep == ImageInv /\ [Next]_vars => ImageInv'
<1> SUFFICES ASSUME ImageInv, [Next]_vars PROVE ImageInv'
  OBVIOUS
<1> USE DEF disk, compute, clock
<1>1. CASE Tick \/ \E f \in FILES : Edit(f) \/ Delete(f)
  BY <1>1, ImageEdited
<1>2. CASE \E e \in Environments : SwitchEnvironment(e)
  BY <1>2, ImageSwitched
<1>3. CASE \E mask \in ToSet(MASKS) : Reuse(mask) \/ Elaborate(mask)
  BY <1>3, ImageReused, ImageElaborates
<1>4. CASE Elaborated \/ ElaborationFails \/ Interrupt
  BY <1>4, ImageElaborated, ImageFails
<1>5. CASE KernelRuns \/ \E args \in REQUESTS : Invoke(args)
  BY <1>5, ImageStays DEF KernelRuns, Invoke
<1>6. CASE OpenSuite \/ OpenCompute \/ SuiteRaises
  BY <1>6, ImageStays DEF OpenSuite, OpenCompute, SuiteRaises
<1>7. CASE SimulationEnds \/ check_results
  BY <1>7, ImageStays DEF SimulationEnds, check_results
<1>8. CASE ComputeEnds \/ Exit
  BY <1>8, ImageStays DEF ComputeEnds, Exit
<1>9. CASE UNCHANGED vars
  BY <1>9, ImageStays DEF vars
<1> QED
  BY <1>1, <1>2, <1>3, <1>4, <1>5, <1>6, <1>7, <1>8, <1>9 DEF Next

\* What the images on disk are: what their names say, and what the sources say as long
\* as no source is newer, but for those that a time stamp cannot vouch for.
THEOREM ImageInvariant == Spec => []ImageInv
BY ImageInit, ImageStep, PTL DEF Spec

\* build() hands a kernel the image for the switches and the launch mask in force,
\* whatever was built, switched, edited or interrupted before; and one that a time
\* stamp vouches for was built from the sources as they are.
THEOREM NoStaleImage == Spec => []ImageIsTheOneAsked
<1>1. ImageInv => ImageIsTheOneAsked
  BY DEF ImageInv
<1> QED
  BY <1>1, ImageInvariant, PTL

=============================================================================
