-------------------------------- MODULE SvnLog --------------------------------
(***************************************************************************)
(* What a commit in the SVN log says about the tags of a package.  A commit *)
(* is a set of changed paths of one package, a path a record:               *)
(*   op     "added", "modified", "deleted" or "replaced"                    *)
(*   dir    "slug", "tags", "trunk" or "tag": where in the package it lies  *)
(*   tag    the tag's name when dir = "tag"                                 *)
(*   rest   what inside the tag: "", "readme" or "code"                     *)
(*   plain  logged as a file without a change of properties                 *)
(***************************************************************************)
EXTENDS Versions

Path(op, dir, tag, rest, plain) ==
  [op |-> op, dir |-> dir, tag |-> tag, rest |-> rest, plain |-> plain]

\* The directories that hold every tag of the package.
tagsAncestor(theme, p) == p.dir = "slug" \/ (p.dir = "tags" /\ ~theme)

\* A tag ".5" (lead 4) of a plugin is listed as version 0.5.
splitTagPath(theme, p) ==
  IF p.tag.lead = 4 /\ ~theme THEN [p.tag EXCEPT !.lead = 0, !.num = <<0>> \o @] ELSE p.tag

\* A readme edit is no release; a directory, a property change or a replaced
\* node at the readme's path may be one.
ReadmeEdit(p) == p.op # "replaced" /\ p.plain /\ p.rest = "readme"

TouchedTags(theme, c) ==
  {splitTagPath(theme, p) : p \in {q \in c : q.dir = "tag" /\ ~ReadmeEdit(q)}}

AllTouched(theme, c) ==
  \E p \in c : p.op \in {"added", "replaced"} /\ tagsAncestor(theme, p)

\* TagChanges, asked for one version: may the commit have changed it?
Changes(theme, c, ver) ==
  \/ AllTouched(theme, c)
  \/ ver # Trunk /\ ver \in {Normalize(t) : t \in TouchedTags(theme, c)}

=============================================================================
