----------------------------- MODULE WorkflowBuild -----------------------------
(***************************************************************************)
(* Compiling a workflow: `cre workflow build`, `hash`, `deploy` and        *)
(* `simulate` in one folder, and `custom-build`, which turns it into one   *)
(* that a Makefile compiles.                                               *)
(*                                                                         *)
(* Commands meet in files of fixed names: the compiler's temporary output, *)
(* the Makefile's output, and the file that a deploy writes its binary to  *)
(* before it reads it again.                                               *)
(***************************************************************************)
EXTENDS Integers, FiniteSets

CONSTANTS
    Builders, \* the commands
    JobLists, \* which command each of them is
    MaxEdits  \* bound: how often the user changes the sources

ASSUME EditsAssumption == MaxEdits \in Nat

VARIABLES
    sources,  \* how often they changed
    path,     \* workflow-path in workflow.yaml: the main file, or the wasm file
    makefile, \* the folder has one
    above,    \* a folder above has one
    tmp,      \* .cre_build_tmp.wasm
    wasm,     \* wasm/workflow.wasm below each Makefile
    output,   \* the output file of deploys
    job,      \* the command
    step,     \* where it is
    inHand,   \* the binary it compiles, or has read
    product,  \* the binary it goes on with
    began,    \* history: the sources when it began
    crowded,  \* history: another one ran meanwhile
    halfway   \* history: a conversion ended before its Makefile was written

folderVars == <<sources, path, makefile, above, tmp, wasm, output, halfway>>
buildVars  == <<folderVars, job, step, inHand, product, began, crowded>>

NoBinary == [src |-> -1, stripped |-> FALSE, of |-> "nothing"]
Cut      == [src |-> -1, stripped |-> FALSE, of |-> "part"]
Binary   == [src : 0..MaxEdits, stripped : BOOLEAN, of : {"workflow", "above"}]

BuildTypeOK ==
    /\ sources \in 0..MaxEdits
    /\ path \in {"main", "wasm", "lost"}
    /\ {makefile, above, halfway} \subseteq BOOLEAN
    /\ {tmp, wasm["workflow"], wasm["above"], output} \subseteq Binary \cup {NoBinary, Cut}
    /\ job \in JobLists
    /\ step \in [Builders -> {"begin", "compile", "compiling", "emit", "read", "remove", "find",
                              "make", "making", "emit wasm", "read wasm", "write", "fill",
                              "load", "convert", "makefile", "done", "error"}]
    /\ inHand \in [Builders -> Binary \cup {NoBinary, Cut}]
    /\ product \in [Builders -> Binary \cup {NoBinary, Cut}]
    /\ began \in [Builders -> 0..MaxEdits]
    /\ crowded \in [Builders -> BOOLEAN]

BuildInit ==
    /\ sources = 0 /\ path = "main" /\ makefile = FALSE /\ above \in BOOLEAN
    /\ tmp = NoBinary /\ wasm = [of \in {"workflow", "above"} |-> NoBinary] /\ output = NoBinary
    /\ job \in JobLists /\ step = [b \in Builders |-> "begin"]
    /\ inHand = [b \in Builders |-> NoBinary] /\ product = [b \in Builders |-> NoBinary]
    /\ began = [b \in Builders |-> 0] /\ crowded = [b \in Builders |-> FALSE] /\ halfway = FALSE

Is(b, s)   == step[b] = s
Moves(b, s) == step' = [step EXCEPT ![b] = s] /\ UNCHANGED <<job, began, crowded>>
Takes(b, x) == inHand' = [inHand EXCEPT ![b] = x] /\ UNCHANGED product
Keeps       == UNCHANGED <<inHand, product>>
SameFolder  == UNCHANGED folderVars

Busy == {b \in Builders : step[b] \notin {"begin", "done", "error"}}

-----------------------------------------------------------------------------
\* The settings are read, and with them the language; a workflow that is a
\* custom build already is not converted.
ReadPath(b) ==
    /\ Is(b, "begin")
    /\ step' = [step EXCEPT ![b] =
                  CASE path = "lost"     -> "error"
                    [] job[b] = "convert" -> IF path = "main" THEN "convert" ELSE "error"
                    [] path = "wasm"     -> "find"
                    [] OTHER             -> "compile"]
    /\ began' = [began EXCEPT ![b] = sources]
    /\ crowded' = [c \in Builders |-> crowded[c] \/ (c = b /\ Busy # {}) \/ c \in Busy]
    /\ UNCHANGED job /\ Keeps /\ SameFolder

Strips(kind) == kind # "simulate"   \* StripSymbols

\* The compiler reads the sources, and writes its output when it is through:
\* not at once, and when the file is removed meanwhile, to nowhere.  What two
\* leave that write at a time is taken for the last one's.
Compile(b) ==
    /\ Is(b, "compile") /\ Moves(b, "compiling")
    /\ Takes(b, [src |-> sources, stripped |-> Strips(job[b]), of |-> "workflow"])
    /\ SameFolder

Written(b, file) == IF file = NoBinary THEN NoBinary ELSE inHand[b]

\* Mutant: the compiler's exit code is not looked at.
CompiledUnchecked(b) ==
    /\ \/ Is(b, "compiling") /\ tmp' = Cut /\ Moves(b, "emit")
       \/ Is(b, "emit") /\ tmp' = Written(b, tmp) /\ Moves(b, "read")
       \/ Is(b, "compiling") /\ tmp' = tmp /\ Moves(b, "read")
    /\ UNCHANGED <<sources, path, makefile, above, wasm, output, halfway>> /\ Keeps

Compiled(b) ==
    /\ \/ Is(b, "compiling") /\ tmp' = Cut /\ Moves(b, "emit")
       \/ Is(b, "emit") /\ tmp' = Written(b, tmp) /\ Moves(b, "read")
       \/ step[b] \in {"compiling", "emit"} /\ tmp' = tmp /\ Moves(b, "error")
    /\ UNCHANGED <<sources, path, makefile, above, wasm, output, halfway>> /\ Keeps

ReadTmp(b) == Is(b, "read") /\ Moves(b, "remove") /\ Takes(b, tmp) /\ SameFolder

\* What comes after the compilation: a deploy writes its output file.
GoesOn(b) ==
    IF inHand[b] = NoBinary THEN Moves(b, "error") /\ Keeps
    ELSE IF job[b] = "deploy" THEN Moves(b, "write") /\ Keeps
    ELSE Moves(b, "done") /\ product' = [product EXCEPT ![b] = inHand[b]] /\ UNCHANGED inHand

RemoveTmp(b) ==
    /\ Is(b, "remove") /\ GoesOn(b) /\ tmp' = NoBinary
    /\ UNCHANGED <<sources, path, makefile, above, wasm, output, halfway>>

\* The Makefile of the folder, or else of one above.
FindMakefileRoot(b) ==
    /\ Is(b, "find")
    /\ Moves(b, IF makefile \/ above THEN "make" ELSE "error")
    /\ Takes(b, [src |-> sources, stripped |-> FALSE, of |-> IF makefile THEN "workflow" ELSE "above"])
    /\ SameFolder

\* `make build` with the flags that custom-build wrote; those of another
\* Makefile may be any.
Make(b) ==
    /\ Is(b, "make") /\ Moves(b, "making")
    /\ \E s \in IF inHand[b].of = "workflow" THEN {TRUE} ELSE BOOLEAN :
         Takes(b, [inHand[b] EXCEPT !.src = sources, !.stripped = s])
    /\ SameFolder

Made(b) ==
    /\ \/ Is(b, "making") /\ wasm' = [wasm EXCEPT ![inHand[b].of] = Cut] /\ Moves(b, "emit wasm")
       \/ Is(b, "emit wasm") /\ wasm' = [wasm EXCEPT ![inHand[b].of] = inHand[b]]
                            /\ Moves(b, "read wasm")
       \/ step[b] \in {"making", "emit wasm"} /\ wasm' = wasm /\ Moves(b, "error")
    /\ UNCHANGED <<sources, path, makefile, above, tmp, output, halfway>> /\ Keeps

ReadWasm(b) ==
    /\ Is(b, "read wasm")
    /\ LET x == wasm[inHand[b].of] IN
       IF job[b] = "deploy" THEN Moves(b, "write") /\ Takes(b, x)
       ELSE /\ Moves(b, "done") /\ inHand' = [inHand EXCEPT ![b] = x]
            /\ product' = [product EXCEPT ![b] = x]
    /\ SameFolder

-----------------------------------------------------------------------------
(* A deploy writes its output file, and reads it for the ID and the upload. *)

TruncateOutput(b) ==
    /\ Is(b, "write") /\ Moves(b, "fill") /\ output' = Cut
    /\ UNCHANGED <<sources, path, makefile, above, tmp, wasm, halfway>> /\ Keeps

WriteOutput(b) ==
    /\ Is(b, "fill")
    /\ \/ output' = inHand[b] /\ Moves(b, "load")
       \/ output' = output /\ Moves(b, "error")
    /\ UNCHANGED <<sources, path, makefile, above, tmp, wasm, halfway>> /\ Keeps

\* What was cut off in the middle of a character does not decode.
PrepareWorkflowArtifact(b) ==
    /\ Is(b, "load")
    /\ \/ Moves(b, "done") /\ product' = [product EXCEPT ![b] = output] /\ UNCHANGED inHand
       \/ output = Cut /\ Moves(b, "error") /\ Keeps
    /\ SameFolder

-----------------------------------------------------------------------------
(* custom-build: the path, then the Makefile.                              *)

SetWorkflowPath(b) ==
    /\ Is(b, "convert")
    /\ \/ path' = "wasm" /\ Moves(b, "makefile")
       \/ path' \in {path, "lost"} /\ Moves(b, "error")   \* the user declines; the write fails
    /\ UNCHANGED <<sources, makefile, above, tmp, wasm, output, halfway>> /\ Keeps

WriteMakefile(b) ==
    /\ Is(b, "makefile")
    /\ \/ makefile' = TRUE /\ halfway' = halfway /\ Moves(b, "done")
       \/ makefile' = makefile /\ halfway' = TRUE /\ Moves(b, "error")
    /\ UNCHANGED <<sources, path, above, tmp, wasm, output>> /\ Keeps

-----------------------------------------------------------------------------
Edit ==
    /\ sources < MaxEdits /\ sources' = sources + 1
    /\ UNCHANGED <<path, makefile, above, tmp, wasm, output, halfway, job, step, began, crowded>>
    /\ Keeps

\* The user stops a command, and its compiler with it.
StopBuild(b) ==
    /\ b \in Busy /\ Moves(b, "error") /\ Keeps
    /\ halfway' = (halfway \/ Is(b, "makefile"))
    /\ UNCHANGED <<sources, path, makefile, above, tmp, wasm, output>>

BuildNext ==
    \/ Edit
    \/ \E b \in Builders :
         \/ ReadPath(b) \/ Compile(b) \/ Compiled(b) \/ ReadTmp(b) \/ RemoveTmp(b)
         \/ FindMakefileRoot(b) \/ Make(b) \/ Made(b) \/ ReadWasm(b)
         \/ TruncateOutput(b) \/ WriteOutput(b) \/ PrepareWorkflowArtifact(b)
         \/ SetWorkflowPath(b) \/ WriteMakefile(b) \/ StopBuild(b)

-----------------------------------------------------------------------------
\* A command that is alone in the folder goes on with the whole binary of this
\* workflow, of its sources as they were since it began and with its own flags,
\* whatever stopped or crowded commands left lying about: a hash tells what a
\* deploy will deploy, also after a conversion.  Only a conversion that ended
\* halfway lets it take the binary of a Makefile above.
BuildsOwn ==
    \A b \in Builders : product[b] # NoBinary /\ ~crowded[b] =>
        \/ /\ product[b].of = "workflow"
           /\ product[b].src >= began[b]
           /\ job[b] # "simulate" => product[b].stripped
        \/ halfway /\ product[b].of = "above"
===============================================================================
