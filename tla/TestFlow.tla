------------------------------- MODULE TestFlow -------------------------------
(***************************************************************************)
(* The regression runner (tb/run_regression.py) and the whole-GPU image    *)
(* cache its compute suite relies on (tb/compute_runner.py), beside an     *)
(* editor who changes the sources and the environment switches and may     *)
(* interrupt a run anywhere.                                               *)
(*                                                                         *)
(* A clock tick is the resolution of a file's modification time.  What a   *)
(* simulation finds is a nondeterministic choice.                          *)
(***************************************************************************)
EXTENDS Naturals, Sequences, FiniteSets, SequencesExt

CONSTANTS
    FILES,          \* Verilog sources
    MASKS,          \* launch masks of the compute kernels, in their order
    SUITES,         \* all suites in their order; "compute" is the pytest one
    REQUESTS,       \* argument lists of the runner
    MAX_TIME, MAX_EDITS, MAX_RUNS   \* bounds: ticks, edits, invocations

ASSUME SuitesAssumption == SUITES \in Seq(STRING) /\ REQUESTS \subseteq Seq(STRING)

ASSUME FilesAssumption == FILES # {} /\ MASKS \in Seq(Nat)

VARIABLES
    now, edits,     \* clock, and number of edits so far
    src,            \* source present -> its revision and modification time
    env,            \* TITAN_SM and TITAN_ICACHE
    images,         \* path -> elaborated image
    elab,           \* the elaboration under way, if any
    returned,       \* the image a kernel is about to run on, and what there was to build
    results,        \* suite -> its results file
    at,             \* where the runner is
    runs, wanted,   \* of main(): invocations, suites of this one
    pos,            \* position in wanted of the suite at hand
    failures, infra_errors,     \* positions that failed, or gave no verdict
    pending,        \* masks the compute suite has yet to run
    kernels_failed,
    code,           \* exit status
    unsafe,         \* history: paths whose image a time stamp does not vouch for
    ran, passed     \* history: positions that produced a verdict, a good one

disk == <<src, images, results, env>>
progress == <<runs, wanted, pos, failures, infra_errors, code, ran, passed>>
compute == <<elab, returned, pending, kernels_failed, unsafe>>
clock == <<now, edits>>
vars == <<disk, progress, compute, clock, at>>

Without(f, x) == [y \in DOMAIN f \ {x} |-> f[y]]
With(f, x, v) == [y \in DOMAIN f \union {x} |-> IF y = x THEN v ELSE f[y]]
Environments == [sm : {"x5", "x7"}, icache : BOOLEAN]

Init ==
    /\ now = 0 /\ edits = 0
    /\ src = [f \in FILES |-> [rev |-> 0, mtime |-> 0]]
    /\ env = [sm |-> "x5", icache |-> FALSE]          \* neither variable set
    /\ images = <<>> /\ results = <<>> /\ elab = <<>> /\ returned = <<>>
    /\ at = "idle" /\ runs = 0 /\ wanted = <<>> /\ pos = 1
    /\ failures = {} /\ infra_errors = {} /\ pending = <<>> /\ kernels_failed = FALSE
    /\ code = 0 /\ unsafe = {} /\ ran = {} /\ passed = {}

-----------------------------------------------------------------------------
(* The editor. *)

Revisions == [f \in DOMAIN src |-> src[f].rev]

Tick ==
    /\ now < MAX_TIME /\ now' = now + 1
    /\ UNCHANGED <<disk, progress, compute, edits, at>>

\* An image written in the tick of the edit looks as new as the source.
Edit(f) ==
    /\ edits < MAX_EDITS /\ edits' = edits + 1
    /\ src' = With(src, f, [rev |-> edits + 1, mtime |-> now])
    /\ unsafe' = unsafe \union {k \in DOMAIN images : images[k].mtime = now}
    /\ UNCHANGED <<images, results, env, progress, elab, returned, pending, kernels_failed, now, at>>

\* What is gone leaves no time stamp.
Delete(f) ==
    /\ edits < MAX_EDITS /\ edits' = edits + 1
    /\ f \in DOMAIN src /\ DOMAIN src # {f}
    /\ src' = Without(src, f)
    /\ unsafe' = unsafe \union DOMAIN images
    /\ UNCHANGED <<images, results, env, progress, elab, returned, pending, kernels_failed, now, at>>

Idle == at \in {"idle", "exit"}

SwitchEnvironment(e) ==
    /\ Idle /\ env' = e
    /\ UNCHANGED <<src, images, results, progress, compute, clock, at>>

-----------------------------------------------------------------------------
(* build(): an image for the current switches and a launch mask. *)

\* Mutant: the SM flavour is not part of the image's name.
PathWithoutFlavour(mask) == <<env.icache, mask>>

_sim_path(mask) == <<env.sm, env.icache, mask>>

\* As new as the newest source.
UpToDate(image) == \A f \in DOMAIN src : image.mtime >= src[f].mtime

Reusable(path) == path \in DOMAIN images /\ UpToDate(images[path])

Return(want, image, vouched) ==
    returned' = <<[want |-> want, image |-> image, now |-> Revisions, vouched |-> vouched]>>

Configured(mask) == [env |-> env, mask |-> mask]

\* Requests for a mask are served from the image on disk ...
Reuse(mask) ==
    /\ at = "compute" /\ pending # <<>> /\ mask = Head(pending) /\ Reusable(_sim_path(mask))
    /\ Return(Configured(mask), images[_sim_path(mask)], _sim_path(mask) \notin unsafe)
    /\ pending' = Tail(pending) /\ at' = "kernel"
    /\ UNCHANGED <<disk, progress, clock, elab, kernels_failed, unsafe>>

\* ... or by iverilog, which reads the sources and takes its time to write the image.
Elaborate(mask) ==
    /\ at = "compute" /\ pending # <<>> /\ mask = Head(pending) /\ ~Reusable(_sim_path(mask))
    /\ elab' = <<[path |-> _sim_path(mask), of |-> Configured(mask), built |-> Revisions]>>
    /\ pending' = Tail(pending) /\ at' = "elaborate"
    /\ UNCHANGED <<disk, progress, clock, returned, kernels_failed, unsafe>>

Image(sound) ==
    [of |-> elab[1].of, built |-> elab[1].built, mtime |-> now, sound |-> sound]

Elaborated ==
    LET path == elab[1].path
        stale == elab[1].built # Revisions
    IN  /\ at = "elaborate"
        /\ images' = With(images, path, Image(TRUE))
        /\ unsafe' = IF stale THEN unsafe \union {path} ELSE unsafe \ {path}
        /\ Return(elab[1].of, Image(TRUE), ~stale)
        /\ elab' = <<>> /\ at' = "kernel"
        /\ UNCHANGED <<src, results, env, progress, clock, pending, kernels_failed>>

\* build() raises, with no image written, or with one that came with error lines.
ElaborationFails ==
    /\ at = "elaborate"
    /\ \/ UNCHANGED <<images, unsafe>>
       \/ /\ images' = With(images, elab[1].path, Image(FALSE))
          /\ unsafe' = unsafe \union {elab[1].path}
    /\ kernels_failed' = TRUE /\ elab' = <<>> /\ at' = "compute"
    /\ UNCHANGED <<src, results, env, progress, clock, returned, pending>>

\* run(): the verdict on one kernel.  A fresh directory holds its files, so a result
\* that is missing raises.
KernelRuns ==
    /\ at = "kernel" /\ at' = "compute"
    /\ kernels_failed' \in {kernels_failed, TRUE} /\ returned' = <<>>
    /\ UNCHANGED <<disk, progress, clock, elab, pending, unsafe>>

-----------------------------------------------------------------------------
(* main() *)

Invoke(args) ==
    /\ Idle /\ runs < MAX_RUNS /\ runs' = runs + 1
    /\ wanted' = IF args = <<>> THEN SUITES ELSE args
    /\ pos' = 1 /\ failures' = {} /\ infra_errors' = {} /\ ran' = {} /\ passed' = {}
    /\ IF ToSet(args) \subseteq ToSet(SUITES)
       THEN at' = "next" /\ code' = 0
       ELSE at' = "exit" /\ code' = 2
    /\ UNCHANGED <<disk, compute, clock>>

Suite == wanted[pos]

Done == pos > Len(wanted)

\* Mutant: the file is left for the simulation to overwrite.
ResultsKept(suite) == results

ResultsRemoved(suite) == Without(results, suite)

\* run_suite(): results of an earlier run are removed before anything can fail.
OpenSuite ==
    /\ at = "next" /\ ~Done /\ Suite # "compute"
    /\ results' = ResultsRemoved(Suite)
    /\ at' = "test"
    /\ UNCHANGED <<src, images, env, progress, compute, clock>>

OpenCompute ==
    /\ at = "next" /\ ~Done /\ Suite = "compute"
    /\ pending' = MASKS /\ kernels_failed' = FALSE /\ at' = "compute"
    /\ UNCHANGED <<disk, progress, clock, elab, returned, unsafe>>

\* runner.build or runner.test raises: a test failed, or the build did.
SuiteRaises ==
    /\ at = "test" /\ at' = "next" /\ pos' = pos + 1
    /\ failures' = failures \union {pos}
    /\ UNCHANGED <<disk, compute, clock, runs, wanted, infra_errors, code, ran, passed>>

\* The simulation ends, having written the verdicts of its test cases or not.
SimulationEnds ==
    /\ at = "test" /\ at' = "check"
    /\ \/ UNCHANGED <<results, ran, passed>>
       \/ \E n \in 0..1, bad \in 0..1 :
            /\ bad <= n
            /\ results' = With(results, Suite, [cases |-> n, bad |-> bad])
            /\ ran' = IF n > 0 THEN ran \union {pos} ELSE ran
            /\ passed' = IF n > 0 /\ bad = 0 THEN passed \union {pos} ELSE passed
    /\ UNCHANGED <<src, images, env, compute, clock, runs, wanted, pos, failures, infra_errors, code>>

NoVerdict == Suite \notin DOMAIN results \/ results[Suite].cases = 0

check_results ==
    /\ at = "check" /\ at' = "next" /\ pos' = pos + 1
    /\ infra_errors' = IF NoVerdict THEN infra_errors \union {pos} ELSE infra_errors
    /\ failures' = IF ~NoVerdict /\ results[Suite].bad > 0 THEN failures \union {pos} ELSE failures
    /\ UNCHANGED <<disk, compute, clock, runs, wanted, code, ran, passed>>

\* pytest's exit status is the suite's verdict.
ComputeEnds ==
    /\ at = "compute" /\ pending = <<>> /\ at' = "next" /\ pos' = pos + 1
    /\ failures' = IF kernels_failed THEN failures \union {pos} ELSE failures
    /\ ran' = ran \union {pos}
    /\ passed' = IF kernels_failed THEN passed ELSE passed \union {pos}
    /\ kernels_failed' = FALSE
    /\ UNCHANGED <<disk, elab, returned, pending, unsafe, clock, runs, wanted, infra_errors, code>>

Exit ==
    /\ at = "next" /\ Done /\ at' = "exit"
    /\ code' = IF failures \union infra_errors # {} THEN 1 ELSE 0
    /\ UNCHANGED <<disk, compute, clock, runs, wanted, pos, failures, infra_errors, ran, passed>>

\* The run is killed; an elaboration may leave half an image behind.
Interrupt ==
    /\ ~Idle /\ at' = "idle" /\ wanted' = <<>> /\ pos' = 1 /\ pending' = <<>> /\ elab' = <<>> /\ returned' = <<>>
    /\ failures' = {} /\ infra_errors' = {} /\ ran' = {} /\ passed' = {} /\ kernels_failed' = FALSE
    /\ \/ UNCHANGED <<images, unsafe>>
       \/ /\ at = "elaborate"
          /\ images' = With(images, elab[1].path, Image(FALSE))
          /\ unsafe' = unsafe \union {elab[1].path}
    /\ UNCHANGED <<src, results, env, clock, runs, code>>

Next ==
    \/ Tick
    \/ \E f \in FILES : Edit(f) \/ Delete(f)
    \/ \E e \in Environments : SwitchEnvironment(e)
    \/ \E mask \in ToSet(MASKS) : Reuse(mask) \/ Elaborate(mask)
    \/ Elaborated \/ ElaborationFails \/ KernelRuns
    \/ \E args \in REQUESTS : Invoke(args)
    \/ OpenSuite \/ OpenCompute \/ SuiteRaises \/ SimulationEnds \/ check_results
    \/ ComputeEnds \/ Exit \/ Interrupt

Spec == Init /\ [][Next]_vars

-----------------------------------------------------------------------------
(* Properties. *)

\* The image build() hands to a kernel was elaborated for the SM flavour, the cache
\* switch and the launch mask now in force, whatever was built and switched before;
\* and it is built from the sources as they are, unless they were edited while
\* iverilog ran or in the tick it finished in, a source was deleted, or the image was
\* left by an elaboration that was killed or rejected.
ImageIsTheOneAsked ==
    \A x \in ToSet(returned) :
        /\ x.image.of = x.want
        /\ x.vouched => x.image.built = x.now /\ x.image.sound

\* Exit status 0 is earned, and what has earned it gets it: it is given exactly if
\* every suite asked for, however often, ran in this very invocation, had at least
\* one test case and no bad one.  A suite reported as never run gave no verdict.
VerdictIsTrue ==
    at = "exit" =>
        /\ code = 0 <=> 1 .. Len(wanted) \subseteq passed
        /\ infra_errors \intersect ran = {}

-----------------------------------------------------------------------------
(* What every reachable state satisfies besides: with it the two properties *)
(* are inductive.                                                           *)

\* The states of the runner in which a suite is at hand.
AtSuite == at \in {"test", "check", "compute", "elaborate", "kernel"}

\* Each position before the one at hand has its outcome and only those have one; a
\* suite whose results are about to be read has written those that are there.
RunInv ==
    /\ wanted \in Seq(STRING) /\ pos \in 1 .. Len(wanted) + 1
    /\ at \in {"idle", "exit", "next"} \/ AtSuite
    /\ AtSuite => pos <= Len(wanted)
    /\ failures \union infra_errors \subseteq 1 .. pos - 1
    /\ passed \subseteq ran /\ ran \subseteq IF at = "check" THEN 1 .. pos ELSE 1 .. pos - 1
    /\ infra_errors \intersect ran = {} /\ failures \intersect passed = {}
    /\ ~Idle => 1 .. pos - 1 \subseteq passed \union failures \union infra_errors
    /\ at = "test" => Suite \notin DOMAIN results
    /\ at = "check" => /\ pos \in ran <=> ~NoVerdict
                       /\ pos \in passed <=> (~NoVerdict /\ ~(results[Suite].bad > 0))

\* What the name of an image says of it.
Named(path) == [env |-> [sm |-> path[1], icache |-> path[2]], mask |-> path[3]]

\* Nothing carries a later time stamp than now.
StampsArePast ==
    /\ now \in Nat
    /\ \A f \in DOMAIN src : src[f].mtime \in 0 .. now
    /\ \A path \in DOMAIN images : images[path].mtime \in 0 .. now

\* An image is what its name says; one that a time stamp vouches for is what its
\* sources say as long as none is newer.
ImagesAreNamed ==
    \A path \in DOMAIN images :
        /\ images[path].of = Named(path)
        /\ path \notin unsafe =>
              /\ images[path].sound
              /\ UpToDate(images[path]) => images[path].built = Revisions

\* The elaboration under way is for the image whose name it will write.
ElaborationFits ==
    /\ env \in Environments
    /\ at = "elaborate" => elab[1].of = Named(elab[1].path)

ImageInv == StampsArePast /\ ImagesAreNamed /\ ElaborationFits /\ ImageIsTheOneAsked

=============================================================================
