---------------------------- MODULE KernelChoice ----------------------------
(***************************************************************************)
(* Which kernel of simdjson.cpp runs a call: the one the program has       *)
(* assigned to active_implementation, or, as long as that points to the    *)
(* detector, one that the environment forces or that the host can run.     *)
(* There are two pointers of that name; the detector stores its choice in  *)
(* the one of namespace internal, which nothing reads.                     *)
(***************************************************************************)
EXTENDS Integers, Sequences, SequencesExt

CONSTANT Callers  \* the threads that parse

VARIABLE choice

-----------------------------------------------------------------------------
required_instruction_sets(kernel) ==
  CASE kernel = "haswell"  -> {"AVX2", "PCLMULQDQ", "BMI1", "BMI2"}
    [] kernel = "westmere" -> {"SSE42", "PCLMULQDQ"}
    [] kernel = "arm64"    -> {"NEON"}
    [] OTHER               -> {}

Detector    == "best_supported_detector"
Unsupported == "unsupported"
NoKernel    == "nullptr"

\* The kernels compiled in, best first, and the instruction sets of hosts.
Builds == {<<"haswell", "westmere", "fallback">>, <<"haswell", "westmere">>, <<"arm64", "fallback">>}

Hosts(build) ==
  IF build[1] = "arm64" THEN {{"NEON"}}
  ELSE {{}, {"SSE42"}, {"SSE42", "PCLMULQDQ"}, {"SSE42", "PCLMULQDQ", "AVX2", "BMI1"},
        {"SSE42", "PCLMULQDQ", "AVX2", "BMI1", "BMI2"}}

\* What cpuid tells, or what an ARM build was compiled for.
detect_supported_architectures(c) ==
  c.host \cap {"NEON", "AVX2", "BMI1", "BMI2", "SSE42", "PCLMULQDQ"}

\* Mutated detect_best_supported: a kernel fits a host that has one of its sets.
detect_any_supported(c) ==
  LET fits == {n \in DOMAIN c.build :
                 required_instruction_sets(c.build[n]) = {}
                 \/ required_instruction_sets(c.build[n])
                      \cap detect_supported_architectures(c) # {}}
  IN  IF fits = {} THEN Unsupported ELSE c.build[CHOOSE n \in fits : \A m \in fits : n <= m]

detect_best_supported(c) ==
  LET fits == {n \in DOMAIN c.build : required_instruction_sets(c.build[n])
                                        \subseteq detect_supported_architectures(c)}
  IN  IF fits = {} THEN Unsupported ELSE c.build[CHOOSE n \in fits : \A m \in fits : n <= m]

\* available_implementations[name]
Named(c, name) == IF name \in ToSet(c.build) THEN name ELSE NoKernel

set_best(c, kernel) == [c EXCEPT !.internal_active_implementation = kernel]

-----------------------------------------------------------------------------
NoChoice == choice = <<>>

\* Beside the kernel of a call, who has chosen it.
Idle == [at |-> "idle", kernel |-> NoKernel, by |-> "program"]

StartProgram ==
  /\ NoChoice
  /\ \E build \in Builds : \E host \in Hosts(build) :
       choice' = [build |-> build, host |-> host, force |-> "", killed |-> FALSE,
                  active_implementation |-> Detector,
                  internal_active_implementation |-> Detector,
                  calls |-> [t \in Callers |-> Idle]]

Running == ~NoChoice /\ ~choice.killed

\* The environment of the program, which any part of it may change.
SetForce ==
  /\ Running
  /\ \E name \in ToSet(choice.build) \cup {"", "typo"} : choice' = [choice EXCEPT !.force = name]

\* A kernel looked up by name, or the best one detected.
Assign ==
  /\ Running
  /\ \E kernel \in ({Named(choice, name) : name \in {"westmere", "fallback"}} \ {NoKernel})
                     \cup {detect_best_supported(choice)} :
       choice' = [choice EXCEPT !.active_implementation = kernel]

\* A call goes through the pointer, to a kernel or to the detector.
CallKernel ==
  /\ Running
  /\ \E t \in Callers :
       /\ choice.calls[t] = Idle
       /\ choice' = [choice EXCEPT !.calls[t].kernel = choice.active_implementation,
                       !.calls[t].at = IF choice.active_implementation = Detector
                                       THEN "detecting" ELSE "running"]

\* The detector hands the call on to the kernel it has stored.
Detect ==
  /\ Running
  /\ \E t \in Callers :
       LET forced == choice.force # ""
           kernel == IF forced THEN Named(choice, choice.force) ELSE detect_best_supported(choice)
       IN  /\ choice.calls[t].at = "detecting"
           /\ choice' = IF kernel = NoKernel THEN [choice EXCEPT !.killed = TRUE]
                        ELSE [set_best(choice, kernel) EXCEPT
                                !.calls[t] = [at |-> "running", kernel |-> kernel,
                                              by |-> IF forced THEN "environment"
                                                     ELSE "detector"]]

ReturnFromKernel ==
  /\ Running
  /\ \E t \in Callers :
       /\ choice.calls[t].at = "running"
       /\ choice' = [choice EXCEPT !.calls[t] = Idle]

ChoiceNext == StartProgram \/ SetForce \/ Assign \/ CallKernel \/ Detect \/ ReturnFromKernel

-----------------------------------------------------------------------------
\* However detections, assignments and changes of the environment cross, no call runs
\* in the detector, and one for which the detector has chosen a kernel by itself runs
\* one that the host can run, and the best of those compiled in
\* (simdjson.cpp:484-510, 565-592).
KernelRight ==
  ~NoChoice =>
    \A t \in Callers :
      LET call == choice.calls[t]
          runs(kernel) == required_instruction_sets(kernel) \subseteq choice.host
      IN  call.at = "running" =>
            /\ call.kernel # Detector
            /\ call.by = "detector" =>
                 /\ runs(call.kernel)
                 /\ \A n \in DOMAIN choice.build : runs(choice.build[n]) =>
                      \E k \in 1..n : choice.build[k] = call.kernel
=============================================================================
