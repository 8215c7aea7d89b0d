----------------------------- MODULE MCProjects -----------------------------
(* Projects with two tabs, two slugs of one name and one file a project:    *)
(* the file is either there or missing, which is what every guard looks at. *)
EXTENDS Projects
=============================================================================
