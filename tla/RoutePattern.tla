----------------------------- MODULE RoutePattern -----------------------------
(***************************************************************************)
(* Route patterns and request paths as Router (ESPressio_Router.hpp) reads *)
(* them: an optional leading "/" and the segments between slashes, a       *)
(* segment of a pattern being a literal or the name of a parameter.        *)
(***************************************************************************)
EXTENDS Naturals, Sequences, FiniteSets

CONSTANTS Length,            \* of each text: its number of characters
          MaximumParameters  \* ESPRESSIO_WEB_MAX_ROUTE_PARAMETERS

Texts == DOMAIN Length

ASSUME PatternAssumption == /\ Length \in [Texts -> Nat]
                            /\ MaximumParameters \in Nat

(* "/" is one empty segment, and "/a/" is a segment and an empty one.      *)
PathType    == [rooted : BOOLEAN, segments : Seq(Texts)]
SegmentType == [parameter : BOOLEAN, text : Texts]
PatternType == [rooted : BOOLEAN, segments : Seq(SegmentType)]

(* What AnalyzePattern counts.                                             *)
NamedParameters(p) == {i \in DOMAIN p.segments : p.segments[i].parameter}

LiteralCharacters(p) ==
  UNION {{i} \X (1..Length[p.segments[i].text]) : i \in DOMAIN p.segments \ NamedParameters(p)}

NamedParameterCount(p)   == Cardinality(NamedParameters(p))
LiteralCharacterCount(p) == Cardinality(LiteralCharacters(p))

(* What AnalyzePattern accepts: only "/" has an empty segment, and every   *)
(* parameter has a name.                                                   *)
Valid(p) ==
  /\ p.rooted
  /\ \A i \in DOMAIN p.segments :
       Length[p.segments[i].text] = 0 => ~p.segments[i].parameter /\ Len(p.segments) = 1
  /\ NamedParameterCount(p) <= MaximumParameters

(* Router::Match: segment by segment; a parameter takes any segment that   *)
(* is not empty, and no path but "/" ends with a slash.                    *)
Match(p, path) ==
  /\ path.rooted
  /\ Len(path.segments) > 1 => Length[path.segments[Len(path.segments)]] > 0
  /\ Len(path.segments) = Len(p.segments)
  /\ \A i \in DOMAIN p.segments :
       IF p.segments[i].parameter THEN Length[path.segments[i]] > 0
                                  ELSE path.segments[i] = p.segments[i].text

=============================================================================
