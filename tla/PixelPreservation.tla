-------------------------- MODULE PixelPreservation --------------------------
(* What the preservation engines do to pixels, and what is measured of it. An *)
(* image is one of its rows of grey pixels: rows and columns are treated      *)
(* alike, and so are the four channels. Region and band are given in eighths  *)
(* of the width, which the code's floating point represents exactly; weights  *)
(* are exact fractions <<numerator, denominator>>.                            *)
EXTENDS Integers, FiniteSets

CONSTANTS
    Width,          \* pixels of a row
    Greys,          \* what the provider paints
    SourceGreys,    \* what the source image shows
    Geometries      \* <<width, height>> of the source files offered

Eighths == 8
Columns == 0 .. Width - 1
Images == [Columns -> Greys \cup SourceGreys]
Strategies == {"P1", "P2", "P3"}
Candidates == [by: {"ENGINE"} \cup Strategies, pixels: [Columns -> 0..255]]
NoCandidate == [by |-> "NONE", pixels |-> [c \in Columns |-> 0]]
Policies == [x: 0..7, width: 1..8, band: 0..3]

VARIABLES
    phase,      \* how far the experiment is
    geometry,   \* of the source file
    policy,     \* coreRoi and coupledBand.size
    source, raw,
    candidate,  \* what the engine or the ladder made of them
    verdict     \* status of the machine verification

vars == <<phase, geometry, policy, source, raw, candidate, verdict>>

Init ==
    /\ phase = "START" /\ geometry \in Geometries /\ policy \in Policies
    /\ source \in [Columns -> SourceGreys] /\ raw = source
    /\ candidate = NoCandidate /\ verdict = "NONE"

\* validateOpenAIImageGeometry: the bounded gpt-image-2 contract.
Supported(size) ==
    LET w == size[1]
        h == size[2]
    IN  /\ w > 0 /\ h > 0 /\ w <= 3840 /\ h <= 3840
        /\ w % 16 = 0 /\ h % 16 = 0
        /\ w * h >= 655360 /\ w * h <= 8294400
        /\ w <= 3 * h /\ h <= 3 * w

Preflight ==
    /\ phase = "START"
    /\ phase' = IF Supported(geometry) THEN "READY" ELSE "REJECTED"
    /\ UNCHANGED <<geometry, policy, source, raw, candidate, verdict>>

\* The provider paints what it likes; an answer of another size is refused.
Execute ==
    /\ phase = "READY"
    /\ \/ phase' = "PAINTED" /\ raw' \in [Columns -> Greys]
       \/ phase' = "REJECTED" /\ UNCHANGED raw
    /\ UNCHANGED <<geometry, policy, source, candidate, verdict>>

\* PreservationPolicySchema
ValidPolicy(p) == p.x + p.width <= Eighths /\ 4 * p.band <= Eighths

Least(a, b) == IF a <= b THEN a ELSE b
Ceil(n, d) == (n + d - 1) \div d
Clamp(n) == Least(Width, IF n < 0 THEN 0 ELSE n)
Core(p) == [x0 |-> Clamp((p.x * Width) \div Eighths),
            x1 |-> Clamp(Ceil((p.x + p.width) * Width, Eighths))]
BandPixels(p) == Ceil(p.band * Width, Eighths)
Expanded(p) == [x0 |-> Clamp(Core(p).x0 - BandPixels(p)),
                x1 |-> Clamp(Core(p).x1 + BandPixels(p))]
Area(bounds) == bounds.x1 - bounds.x0
Counts(p) == [core |-> Area(Core(p)),
              coupled |-> Area(Expanded(p)) - Area(Core(p)),
              lockedOutside |-> Width - Area(Expanded(p))]

InBounds(c, bounds) == c >= bounds.x0 /\ c < bounds.x1
Classify(c, p) == IF InBounds(c, Core(p)) THEN "CORE"
                  ELSE IF InBounds(c, Expanded(p)) THEN "COUPLED" ELSE "LOCKED_OUTSIDE"
Zone(zone, p) == {c \in Columns : Classify(c, p) = zone}

\* coupledCandidateWeight: 1 - n^2 (3 - 2n) of the distance n from the centre of
\* the pixel to the core, in bands; both scaled by 2.
Distance(c, core) ==
    LET px == 2 * c + 1
    IN  IF px < 2 * core.x0 THEN 2 * core.x0 - px
        ELSE IF px > 2 * core.x1 THEN px - 2 * core.x1 ELSE 0
Weight(c, p) ==
    LET b == 2 * BandPixels(p)
        n == Least(Distance(c, Core(p)), b)
    IN  IF b = 0 THEN <<0, 1>> ELSE <<b * b * b - n * n * (3 * b - 2 * n), b * b * b>>

\* Math.round of the weighted mean
Blend(s, r, w) == (2 * (s * (w[2] - w[1]) + r * w[1]) + w[2]) \div (2 * w[2])

Composite ==
    [c \in Columns |->
        CASE Classify(c, policy) = "CORE" -> raw[c]
          [] Classify(c, policy) = "LOCKED_OUTSIDE" -> source[c]
          [] OTHER -> Blend(source[c], raw[c], Weight(c, policy))]

\* The weight of the raw pixel outside: 1 - outsideSourceWeight.
OutsideWeight(s) == CASE s = "P1" -> <<75, 100>> [] s = "P2" -> <<35, 100>> [] OTHER -> <<0, 100>>
LadderWeight(s, c) ==
    IF c >= Core(policy).x0 /\ c < Core(policy).x1 THEN <<1, 1>>
    ELSE IF c >= Expanded(policy).x0 /\ c < Expanded(policy).x1 THEN Weight(c, policy)
    ELSE OutsideWeight(s)
Ladder(s) == [c \in Columns |-> Blend(source[c], raw[c], LadderWeight(s, c))]

\* An invalid policy fails the preservation run.
Preserve ==
    /\ phase = "PAINTED"
    /\ IF ValidPolicy(policy)
       THEN phase' = "PRESERVED" /\ candidate' = [by |-> "ENGINE", pixels |-> Composite]
       ELSE phase' = "REJECTED" /\ UNCHANGED candidate
    /\ UNCHANGED <<geometry, policy, source, raw, verdict>>

Derive(s) ==
    /\ phase = "PAINTED" /\ ValidPolicy(policy)
    /\ phase' = "PRESERVED" /\ candidate' = [by |-> s, pixels |-> Ladder(s)]
    /\ UNCHANGED <<geometry, policy, source, raw, verdict>>

\* A difference counts from 0.01 of 255 on, and luma of a grey is the grey.
Changed(a, b) == 100 * (IF a <= b THEN b - a ELSE a - b) > 255
Evidence(zone, pixels) == Cardinality({c \in Zone(zone, policy) : Changed(source[c], pixels[c])})

\* calculateDiffMetrics rounds the region its own way: both ends down.
DiffRegion ==
    LET x0 == (policy.x * Width) \div Eighths
    IN  {c \in Columns : c >= x0 /\ c < x0 + (policy.width * Width) \div Eighths}
ChangedInside == {c \in DiffRegion : Changed(source[c], raw[c])}

\* Mutant: the verification trusts the metric of the locked zone.
LockedOutsideUnchanged == Evidence("LOCKED_OUTSIDE", candidate.pixels) = 0

LockedOutsideEqualsSource == \A c \in Zone("LOCKED_OUTSIDE", policy) : candidate.pixels[c] = source[c]

\* The assertions of stored rows (immutable source, provenance, dimensions)
\* hold here; the edit region has changed beyond 0.001 when a pixel of it has.
Verify ==
    /\ phase = "PRESERVED" /\ verdict = "NONE"
    /\ verdict' = IF LockedOutsideEqualsSource /\ 1000 * Evidence("CORE", candidate.pixels) > Counts(policy).core
                  THEN "PASSED" ELSE "FAILED"
    /\ UNCHANGED <<phase, geometry, policy, source, raw, candidate>>

Next == Preflight \/ Execute \/ Preserve \/ (\E s \in Strategies : Derive(s)) \/ Verify
Spec == Init /\ [][Next]_vars

TypeOK ==
    /\ phase \in {"START", "READY", "PAINTED", "PRESERVED", "REJECTED"}
    /\ geometry \in Geometries /\ policy \in Policies
    /\ source \in [Columns -> SourceGreys] /\ raw \in Images
    /\ candidate \in Candidates \cup {NoCandidate}
    /\ verdict \in {"NONE", "PASSED", "FAILED"}

\* The region never vanishes, the zones partition the row as their counts say,
\* and the region the older diff measures lies within the core, though the two
\* round differently.
ZonesAgree ==
    /\ Counts(policy).core > 0
    /\ Cardinality(Zone("CORE", policy)) = Counts(policy).core
    /\ Cardinality(Zone("COUPLED", policy)) = Counts(policy).coupled
    /\ Cardinality(Zone("LOCKED_OUTSIDE", policy)) = Counts(policy).lockedOutside
    /\ DiffRegion \subseteq Zone("CORE", policy)

\* Preservation keeps its promise on every pixel (compositing engine, ladder
\* engine, creative assertions): P3 of the ladder is what the engine makes, no
\* blend leaves the range of its two pixels, and the verification passes only a
\* candidate whose locked pixels are the source's, not merely unchanged by the
\* threshold of the metrics, and whose edit region did change.
PreservationKept ==
    phase = "PRESERVED" =>
        /\ ZonesAgree
        /\ candidate.by \in {"ENGINE", "P3"} => candidate.pixels = Composite /\ Ladder("P3") = Composite
        /\ \A c \in Columns : candidate.pixels[c] \in (source[c] .. raw[c]) \cup (raw[c] .. source[c])
        /\ verdict = "PASSED" =>
              /\ \A c \in Columns : candidate.pixels[c] # source[c] => c \notin Zone("LOCKED_OUTSIDE", policy)
              /\ ChangedInside # {} \/ \E c \in Zone("CORE", policy) \ DiffRegion : Changed(source[c], raw[c])
=============================================================================
