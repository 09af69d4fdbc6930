------------------------------- MODULE MCLabs -------------------------------
(* The values of the constants of Labs.                                      *)
EXTENDS Labs, TLC

\* A lease that locks the patched path, one that locks only a look-alike of it,
\* and one that locks nothing.
MCRequests ==
    {[path |-> "jacket.color", operation |-> "SET_ATTRIBUTE",
      lease |-> [path |-> "jacket", category |-> "MUTABLE"]],
     [path |-> "jacket.color", operation |-> "SET_ATTRIBUTE",
      lease |-> [path |-> "jacket", category |-> "HARD_LOCK"]],
     [path |-> "jacketLining", operation |-> "TRANSFORM_ENTITY",
      lease |-> [path |-> "jacket", category |-> "HARD_LOCK"]]}

\* Ratings that favour either candidate, a preference and a tie.
MCScores == {[preservation |-> 0, usefulness |-> 2], [preservation |-> 2, usefulness |-> 1]}
MCChoices ==
    [preferences |-> {"A_BETTER", "TIE"},
     acceptances |-> {[RAW |-> TRUE, PRESERVED |-> FALSE], [RAW |-> FALSE, PRESERVED |-> TRUE]}]

\* Sizes on both sides of each limit of the provider.
MCGeometries ==
    {<<1024, 1024>>, <<4096, 1024>>, <<512, 512>>, <<3840, 1024>>, <<1000, 1024>>, <<3840, 2176>>}

\* Two versions of a blueprint and of a profile, and a rival of each first one.
At(version, hash) == [version |-> version, hash |-> hash]
MCBlueprints ==
    {[version |-> 1, hash |-> "b1", previous |-> "null"],
     [version |-> 1, hash |-> "b1x", previous |-> "null"],
     [version |-> 2, hash |-> "b2", previous |-> "b1"]}
MCProfiles ==
    {[version |-> 1, hash |-> "p1", previous |-> "null", blueprint |-> At(1, "b1")],
     [version |-> 1, hash |-> "p1x", previous |-> "null", blueprint |-> At(1, "b1")],
     [version |-> 2, hash |-> "p2", previous |-> "p1", blueprint |-> At(2, "b2")]}

\* Variables of the Precision Edit blueprint, and one, "tone", that is critical
\* though not required, as the schema allows.
Parameter(id, critical, required, default, allowed) ==
    [id |-> id, kind |-> "PARAMETERIZED", critical |-> critical, required |-> required,
     default |-> default, allowed |-> allowed]
MCVariables ==
    {Parameter("roi", TRUE, TRUE, "undefined", {"box"}),
     Parameter("topology", FALSE, FALSE, "LOCAL_INDEPENDENT", {"LOCAL_INDEPENDENT", "LOCAL_COUPLED"}),
     Parameter("coupledBand", FALSE, FALSE, "undefined", {"0.03"}),
     Parameter("tone", TRUE, FALSE, "undefined", {"warm"}),
     [id |-> "commitPolicy", kind |-> "FIXED", critical |-> TRUE, value |-> "ACCEPTED_ONLY"]}
MCConditionals ==
    {[when |-> "topology", equals |-> "LOCAL_COUPLED", target |-> "coupledBand",
      required |-> TRUE, default |-> "undefined"]}
MCPolicy ==
    [required |-> {"READ_SOURCE", "WRITE_CANDIDATE"}, optional |-> {"APPLY_PRESERVATION"},
     denied |-> {"COMMIT_CANONICAL"}]

\* One input that compiles, and one for each way not to.
Nothing == [id \in {} |-> id]
Complete ==
    [customer |-> [roi |-> "box", tone |-> "warm"], approved |-> Nothing, inferred |-> Nothing,
     runtime |-> {"READ_SOURCE", "WRITE_CANDIDATE", "APPLY_PRESERVATION"},
     requested |-> {"APPLY_PRESERVATION"}, wellFormed |-> TRUE, secret |-> FALSE,
     unknownInputPolicy |-> "REQUIRE_INPUT"]
Coupled == [roi |-> "box", tone |-> "warm", topology |-> "LOCAL_COUPLED"]
MCInputs ==
    {Complete,
     [Complete EXCEPT !.customer = [roi |-> "box"]],
     [Complete EXCEPT !.customer = [roi |-> "box"], !.inferred = [tone |-> "warm"]],
     [Complete EXCEPT !.customer = Coupled],
     [Complete EXCEPT !.customer = Coupled, !.approved = [coupledBand |-> "0.03"]],
     [Complete EXCEPT !.customer = [roi |-> "box", tone |-> "warm", commitPolicy |-> "ANYONE"]],
     [Complete EXCEPT !.requested = {"COMMIT_CANONICAL"}],
     [Complete EXCEPT !.inferred = [coupledBand |-> "7"]],
     [Complete EXCEPT !.runtime = {"READ_SOURCE"}]}

Symmetry == Permutations(Evaluators) \cup Permutations(People)
=============================================================================
