--------------------------- MODULE MCCodexHarness ---------------------------
(* Small instances of CodexHarness. *)
EXTENDS CodexHarness

Call(tool, sess, args) == [tool |-> tool, sess |-> sess, args |-> args]

Exec == Call("exec_command", NoSess, "ok")

Write == Call("write_stdin", 1, "ok")

Patch == Call("apply_patch", NoSess, "ok")

Image == Call("view_image", NoSess, "ok")

BadPatch == Call("apply_patch", NoSess, "prepare")

BadImage == Call("view_image", NoSess, "schema")

\* A command; two calls refused before anything is submitted, one by its schema and
\* one when it is prepared, then two calls of one shell session, known only if an
\* earlier response started it; two calls at once and, after them, a patch.
PlansTurns == {<<Exec>>, <<BadImage, BadPatch, Write, Write>>, <<Image, Image, Patch>>}

\* Two commands at once; a command and, past a refused patch, input to it.
PlansCancel == {<<Exec, Exec>>, <<Exec, BadPatch, Write>>}
=============================================================================
