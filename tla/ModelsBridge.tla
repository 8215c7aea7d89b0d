---------------------------- MODULE ModelsBridge ----------------------------
(***************************************************************************)
(* The 3D models of one editor session: models-bridge.ts over the CDN's    *)
(* models (models-source.ts).  A reference to a model is served by the     *)
(* body of that format or, none there, by the same model in another; the   *)
(* body is written in the editor's file system under the format it has.    *)
(* Three callers race: the 3D viewer, one reference at a time, the board's *)
(* prescan and the STEP export, over all references of the board.          *)
(***************************************************************************)
EXTENDS Naturals, Sequences

CONSTANTS
  Callers,   \* the callers, "export" one of them: it also ships what it got
  MaxAsks    \* bound: references asked for

Formats == {"wrl", "step"}   \* bound: the references of a board, all to one model

VARIABLES
  served,    \* the formats the CDN has
  disk,      \* files written under the models' directory
  memo,      \* materialized: reference -> file
  ensuring,  \* ensuring[r]: the candidate being fetched, 0 when none
  waiting,   \* waiting[c]: the references c awaits
  shipped,   \* out: the files of the export
  asks

models == <<served, disk, memo, ensuring, waiting, shipped, asks>>

Init == /\ served \in SUBSET Formats
        /\ disk = {} /\ memo = [r \in Formats |-> "none"]
        /\ ensuring = [r \in Formats |-> 0] /\ waiting = [c \in Callers |-> {}]
        /\ shipped = <<>> /\ asks = 0

TypeOK == /\ served \subseteq Formats /\ disk \subseteq Formats
          /\ memo \in [Formats -> Formats \cup {"none"}]
          /\ ensuring \in [Formats -> 0 .. 2] /\ waiting \in [Callers -> SUBSET Formats]
          /\ shipped \in Seq(Formats) /\ asks \in 0 .. MaxAsks

\* refCandidates: the reference itself, then the other format.
Candidate(r, i) == IF i = 1 THEN r ELSE CHOOSE f \in Formats : f # r

\* The export reads a file back unless it has it: collectBoardModelFiles.
Ships(file) ==
  shipped' = IF file = "none" \/ \E i \in DOMAIN shipped : shipped[i] = file
               THEN shipped ELSE Append(shipped, file)

\* Mutant: the reference's own path is taken for the file's.
OwnPath(r, file) == r

\* doEnsure memoizes the path it wrote, not the one the reference implies.
Memoized(r, file) == file

\* The ensure of r resolves for everyone that awaits it, w.
Resolves(r, file, w) ==
  /\ ensuring' = [ensuring EXCEPT ![r] = 0]
  /\ memo' = [memo EXCEPT ![r] = IF file = "none" THEN "none" ELSE Memoized(r, file)]
  /\ waiting' = [c \in Callers |-> w[c] \ {r}]
  /\ IF r \in w["export"] THEN Ships(memo'[r]) ELSE UNCHANGED shipped

\* The next candidate of r: on disk already, to be fetched, or past the last.
Tries(r, i, w) == \/ i > 2 /\ Resolves(r, "none", w)
                  \/ i <= 2 /\ Candidate(r, i) \in disk /\ Resolves(r, Candidate(r, i), w)
                  \/ /\ i <= 2 /\ Candidate(r, i) \notin disk
                     /\ ensuring' = [ensuring EXCEPT ![r] = i] /\ waiting' = w
                     /\ UNCHANGED <<memo, shipped>>

\* A caller awaits the ensure of the reference it asked for.
Awaits(c, r) == [waiting EXCEPT ![c] = @ \cup {r}]

\* ensureModelInMemfs: memoized, joined to the one in flight, or begun.
Ask(c, r) ==
  /\ r \notin waiting[c] /\ asks < MaxAsks /\ asks' = asks + 1
  /\ LET w == Awaits(c, r) IN
       \/ memo[r] # "none" /\ Resolves(r, memo[r], w)
       \/ memo[r] = "none" /\ ensuring[r] = 0 /\ Tries(r, 1, w)
       \/ ensuring[r] # 0 /\ waiting' = w /\ UNCHANGED <<memo, ensuring, shipped>>
  /\ UNCHANGED <<served, disk>>

\* getModelBody: the body, written at once, or null: not served or a failed fetch,
\* which the source does not remember.
Body(r) ==
  /\ ensuring[r] # 0
  /\ LET file == Candidate(r, ensuring[r]) IN
       \/ file \in served /\ disk' = disk \cup {file} /\ Resolves(r, file, waiting)
       \/ Tries(r, ensuring[r] + 1, waiting) /\ UNCHANGED disk
  /\ UNCHANGED <<served, asks>>

Next == \E r \in Formats : Body(r) \/ \E c \in Callers : Ask(c, r)

-----------------------------------------------------------------------------
(* Property.                                                               *)

\* Every path the bridge remembers is of a file that was written, and an export
\* ships a file once however many references and races led to it.
ModelsOnDisk ==
  /\ \A r \in Formats : memo[r] # "none" => memo[r] \in disk
  /\ \A i, j \in DOMAIN shipped : shipped[i] \in disk /\ (shipped[i] = shipped[j] => i = j)
=============================================================================
