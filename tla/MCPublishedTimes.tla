--------------------------- MODULE MCPublishedTimes ---------------------------
(* An instance of PublishedTimes for TLC: a plugin whose tags 1.0 and v1.0   *)
(* are the same version, a tag ".5" listed as 0.5, a pre-release and a tag   *)
(* 2.0 pushed ahead of the stable one.                                       *)
EXTENDS PublishedTimes

V(lead, num, suf) == [lead |-> lead, num |-> num, suf |-> suf]
v10 == V(0, <<1, 0>>, 0)
vv10 == V(3, <<1, 0>>, 0)
v05 == V(0, <<0, 5>>, 0)
b2 == V(0, <<2, 0>>, 2)
v2 == V(0, <<2, 0>>, 0)

MCListings ==
  {[names |-> {v05}, stable |-> v05],
   [names |-> {v05, v10, vv10, b2, v2}, stable |-> v10]}

MCCommits ==
  {{Path("modified", "tag", v10, "readme", TRUE), Path("modified", "trunk", v10, "code", TRUE),
    Path("deleted", "tag", V(4, <<5>>, 0), "code", TRUE)},
   {Path("added", "tag", vv10, "", FALSE)},
   {Path("replaced", "tags", v10, "", FALSE)}}

=============================================================================
