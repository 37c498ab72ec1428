----------------------------- MODULE GlobMatch ------------------------------
(***************************************************************************)
(* The exclusion patterns: is_excluded and the module glob_match of        *)
(* sidecar/src/config.rs.  A pattern and a path are sequences of segments  *)
(* (the text between slashes), a segment is a sequence of characters.      *)
(*                                                                         *)
(* The matcher has three outcomes: a loop in it may have no exit.          *)
(***************************************************************************)
EXTENDS Naturals, Sequences

Star == "*"
DoubleStar == "**"  \* ___DOUBLESTAR___, which no name on disk holds

Outcomes == {"yes", "no", "hang"}
Answer(b) == IF b THEN "yes" ELSE "no"

\* pattern.replace("**", ...), in one segment: pairs of stars from the left.
Expand(segment) ==
    LET E[i \in 1..Len(segment) + 1] ==
            IF i > Len(segment) THEN << >>
            ELSE IF i < Len(segment) /\ segment[i] = Star /\ segment[i + 1] = Star
                 THEN <<DoubleStar>> \o E[i + 2]
                 ELSE <<segment[i]>> \o E[i + 1]
    IN  E[1]

-----------------------------------------------------------------------------
(* single_match: one segment of the pattern, one of the path *)

\* What the loop holds: positions in the pattern and in the name (from 0), and
\* where the last star was and what it has taken so far.  Past the end of the
\* name every position is as good as the next.
At(n, pi, ni, star, mi) ==
    [pi |-> pi, ni |-> IF ni > Len(n) THEN Len(n) + 1 ELSE ni, star |-> star, mi |-> mi]

OnStar(p, s) == s.pi < Len(p) /\ p[s.pi + 1] = Star
OnEqual(p, n, s) == s.ni < Len(n) /\ s.pi < Len(p) /\ p[s.pi + 1] = n[s.ni + 1]
Seen(s) == s.star # {}  \* star_idx is Some

\* One turn of the loop; it breaks when no branch applies.
Turn(p, n, s) ==
    IF OnStar(p, s) THEN At(n, s.pi + 1, s.ni, {s.pi}, s.ni)
    ELSE IF OnEqual(p, n, s) THEN At(n, s.pi + 1, s.ni + 1, s.star, s.mi)
    ELSE LET mi == IF s.mi > Len(n) THEN s.mi ELSE s.mi + 1
         IN  At(n, (CHOOSE i \in s.star : TRUE) + 1, mi, s.star, mi)

Breaks(p, n, s) == ~ OnStar(p, s) /\ ~ OnEqual(p, n, s) /\ ~ Seen(s)

\* Without a star each turn takes a character of both; a loop that goes on
\* for more turns than it has positions is back where it was.
Turns(p, n) == (Len(p) + 1) * (Len(n) + 2)

SingleMatch(p, n) ==
    LET Loop[k \in 0..Turns(p, n)] ==  \* what it holds after k turns, if it turns so often
            IF k = 0 THEN {At(n, 0, 0, {}, 0)}
            ELSE {Turn(p, n, s) : s \in {t \in Loop[k - 1] : ~ Breaks(p, n, t)}}
        ends == {s \in UNION {Loop[k] : k \in 0..Turns(p, n)} : Breaks(p, n, s)}
        \* The last loop passes over trailing stars.
        AtEnd(s) == s.ni = Len(n) /\ \A i \in s.pi + 1..Len(p) : p[i] = Star
    IN  IF p = <<Star>> THEN "yes"
        ELSE IF ends = {} THEN "hang"
        ELSE Answer(\A s \in ends : AtEnd(s))

-----------------------------------------------------------------------------
(* match_segments, and the callers *)

\* Bug: ** takes at least one segment.
From_TakesOne(pattern, path, si) == si + 1..Len(path) + 1

\* The places a ** that is followed by something tries next, from the left.
From(pattern, path, si) == si..Len(path) + 1

MatchSegments(pattern, path) ==
    LET M[pi \in 1..Len(pattern) + 1] ==  \* for each place in the path
            [si \in 1..Len(path) + 1 |->
                IF pi > Len(pattern) THEN Answer(si > Len(path))
                ELSE IF pattern[pi] = <<DoubleStar>> THEN
                    IF pi = Len(pattern) THEN "yes"
                    ELSE LET tries == {next \in From(pattern, path, si) : M[pi + 1][next] # "no"}
                         IN  IF tries = {} THEN "no"
                             ELSE M[pi + 1][CHOOSE next \in tries : \A t \in tries : next <= t]
                ELSE IF si > Len(path) THEN "no"
                ELSE LET single == SingleMatch(pattern[pi], path[si])
                     IN  IF single = "yes" THEN M[pi + 1][si + 1] ELSE single]
    IN  M[1][1]

GlobMatch(pattern, path) ==
    MatchSegments([i \in DOMAIN pattern |-> Expand(pattern[i])], path)

\* The patterns in their order, up to the first that matches.
IsExcluded(patterns, path) ==
    LET tries == {i \in DOMAIN patterns : GlobMatch(patterns[i], path) # "no"}
    IN  IF tries = {} THEN "no"
        ELSE GlobMatch(patterns[CHOOSE i \in tries : \A j \in tries : i <= j], path)

-----------------------------------------------------------------------------
(* What a pattern means: the reference, said without an algorithm *)

\* ps covers xs when xs can be cut in as many runs as ps has parts, one after
\* another: any run for a part that stands for many, else one that it fits.
Covers(ps, xs, Many(_), Fits(_, _)) ==
    \E cut \in [1..Len(ps) + 1 -> 0..Len(xs)] :
        /\ cut[1] = 0 /\ cut[Len(ps) + 1] = Len(xs)
        /\ \A i \in DOMAIN ps :
              IF Many(ps[i]) THEN cut[i] <= cut[i + 1]
              ELSE cut[i + 1] = cut[i] + 1 /\ Fits(ps[i], xs[cut[i] + 1])

MeantName(p, n) == Covers(p, n, LAMBDA c : c = Star, LAMBDA c, d : c = d)

\* Two stars beside other characters are in no name.
MeantPath(pattern, path) ==
    Covers([i \in DOMAIN pattern |-> Expand(pattern[i])], path,
           LAMBDA segment : segment = <<DoubleStar>>, MeantName)

\* A star among the characters of a name (not the patterns * and **).
HasWildcard(pattern) ==
    \E i \in DOMAIN pattern :
        LET segment == Expand(pattern[i])
        IN  segment # <<Star>> /\ \E c \in DOMAIN segment : segment[c] = Star

=============================================================================
