------------------------------ MODULE LqBuiltins ------------------------------
(***************************************************************************)
(* LQ_SHELL/commands.c: the built-in commands that change files or may end *)
(* the shell.  cp_command and mv_command take one system call at a time    *)
(* while other processes use the same directory.  The arguments are "src"  *)
(* and "dst"; if dst is a directory the target is "in", dst/src.  pwd,     *)
(* echo, type, env, help and uptime only print.                            *)
(***************************************************************************)
EXTENDS LqExecute

CONSTANTS
    Inodes,         \* files there may be
    StartDirs,      \* directories in which a command may start
    MaxChunks,      \* bound: chunks of 1024 bytes in a file
    MaxMeddling     \* bound: what others do during one command

Paths == {"src", "dst", "in"}

ASSUME BuiltinAssumption ==
    /\ Inodes \cap {"none", "dir"} = {}
    /\ StartDirs \subseteq [Paths -> Inodes \cup {"none", "dir"}]
    /\ MaxChunks \in Nat /\ MaxMeddling \in Nat

VARIABLES
    entry,          \* inode at each path, or "none", or "dir"
    content,        \* chunks of each inode
    full,           \* full_target_path
    from, to,       \* inodes of fd1 and fd2
    done,           \* chunks copied
    begun,          \* entry and content when the command began
    others,         \* inodes written or put in place by others since
    meddled,        \* how often others changed the directory or a file
    outcome         \* what the command printed

fileVars == <<entry, content, full, from, to, done, begun, others, meddled, outcome>>
world    == <<entry, content>>
history  == <<begun, others, meddled>>

Idle == [entry |-> [x \in Paths |-> "none"], content |-> [f \in Inodes |-> <<>>]]

BuiltinInit ==
    /\ entry = Idle.entry
    /\ content = Idle.content
    /\ full = "dst"
    /\ from = "none" /\ to = "none"
    /\ done = 0
    /\ begun = Idle
    /\ others = {}
    /\ meddled = 0
    /\ outcome = "none"

\* Between commands the file system is not kept.
BuiltinReset ==
    /\ entry' = Idle.entry
    /\ content' = Idle.content
    /\ full' = "dst"
    /\ from' = "none" /\ to' = "none"
    /\ done' = 0
    /\ begun' = Idle
    /\ others' = {}
    /\ meddled' = 0
    /\ outcome' = "none"

Linked == {entry[x] : x \in Paths} \cap Inodes
Unused == Inodes \ (Linked \cup {from, to})

\* The file system as cp_command or mv_command finds it.  A chunk is named by
\* the file it comes from.
BuiltinStart(label) ==
    /\ Goto(Shell, label)
    /\ entry' \in StartDirs
    /\ \E n \in 0..2 :
         content' = [f \in Inodes |-> [k \in 1..IF f = entry'["src"] THEN n ELSE 1 |-> f]]
    /\ begun' = [entry |-> entry', content |-> content']
    /\ from' = "none" /\ to' = "none"
    /\ done' = 0
    /\ others' = {}
    /\ meddled' = 0
    /\ outcome' = "none"
    /\ full' = "dst"

\* Return to main, with a message.
Back(message) ==
    /\ Goto(Shell, "prompt")
    /\ outcome' = message

Exists(x) == entry[x] # "none"

-----------------------------------------------------------------------------
(* Other processes in the same directory *)

InBuiltin == pc[Shell] \in {"cp", "cp_stat", "cp_test", "cp_open", "cp_create",
                            "cp_copy", "mv", "mv_stat", "mv_test", "mv_rename"}

CreateFile ==
    \E x \in Paths, f \in Unused :
        /\ ~Exists(x)
        /\ x = "in" => entry["dst"] = "dir"
        /\ entry' = [entry EXCEPT ![x] = f]
        /\ content' = [content EXCEPT ![f] = <<"new">>]
        /\ others' = others \cup {f}

Remove ==
    \E x \in Paths :
        /\ Exists(x)
        /\ entry[x] = "dir" => ~Exists("in")
        /\ entry' = [entry EXCEPT ![x] = "none"]
        /\ UNCHANGED <<content, others>>

AppendTo ==
    \E f \in Linked :
        /\ Len(content[f]) < MaxChunks
        /\ content' = [content EXCEPT ![f] = Append(@, "new")]
        /\ others' = others \cup {f}
        /\ UNCHANGED entry

Others ==
    /\ InBuiltin
    /\ CreateFile \/ Remove \/ AppendTo
    /\ meddled < MaxMeddling
    /\ meddled' = meddled + 1
    /\ UNCHANGED <<execVars, full, from, to, done, begun, outcome>>

-----------------------------------------------------------------------------
(* cp_command and mv_command: the tests of the paths *)

\* The same three tests, for cp and for mv.
AccessSource(label, next) ==
    /\ pc[Shell] = label
    /\ IF Exists("src") THEN Goto(Shell, next) /\ UNCHANGED outcome
       ELSE Back("no source")
    /\ UNCHANGED <<world, full, from, to, done, history>>

StatTarget(label, next) ==
    /\ pc[Shell] = label
    /\ full' = IF entry["dst"] = "dir" THEN "in" ELSE "dst"
    /\ Goto(Shell, next)
    /\ UNCHANGED <<world, from, to, done, history, outcome>>

\* Mutant of AccessTarget: the test is left out.
AccessTargetNever(label, next) ==
    /\ pc[Shell] = label
    /\ Goto(Shell, next)
    /\ UNCHANGED <<world, full, from, to, done, history, outcome>>

AccessTarget(label, next) ==
    /\ pc[Shell] = label
    /\ IF Exists(full) THEN Back("exists") ELSE Goto(Shell, next) /\ UNCHANGED outcome
    /\ UNCHANGED <<world, full, from, to, done, history>>

-----------------------------------------------------------------------------
(* cp_command: open, copy, close, in the shell's own table *)

OpenSource ==
    /\ pc[Shell] = "cp_open"
    /\ entry["src"] \in Inodes
    /\ Free(fds[Shell]) # {}
    /\ fds' = [fds EXCEPT ![Shell][Lowest(fds[Shell])] = "source"]
    /\ from' = entry["src"]
    /\ Goto(Shell, "cp_create")
    /\ UNCHANGED <<world, full, to, done, history, outcome>>

OpenSourceFails ==
    /\ pc[Shell] = "cp_open"
    /\ Back("error")
    /\ UNCHANGED <<fds, world, full, from, to, done, history>>

\* open has O_CREAT | O_EXCL: what is there by now is not touched.
Creatable == entry[full] = "none" /\ (full = "in" => entry["dst"] = "dir")

CreateTarget ==
    /\ pc[Shell] = "cp_create"
    /\ Free(fds[Shell]) # {}
    /\ Creatable
    /\ \E f \in Unused :
        /\ entry' = [entry EXCEPT ![full] = f]
        /\ content' = [content EXCEPT ![f] = <<>>]
        /\ to' = f
    /\ fds' = [fds EXCEPT ![Shell][Lowest(fds[Shell])] = "target"]
    /\ Goto(Shell, "cp_copy")
    /\ UNCHANGED <<full, from, done, history, outcome>>

\* The shell's table without fd1 and fd2.
CopyTable == [n \in 0..MaxFds-1 |->
    IF fds[Shell][n] \in {"source", "target"} THEN "closed" ELSE fds[Shell][n]]

CreateTargetFails ==
    /\ pc[Shell] = "cp_create"
    /\ fds' = [fds EXCEPT ![Shell] = CopyTable]
    /\ Back("error")
    /\ UNCHANGED <<world, full, from, to, done, history>>

\* One read and one write of a whole chunk.
CopyChunk ==
    /\ pc[Shell] = "cp_copy"
    /\ done < Len(content[from])
    /\ content' = [content EXCEPT ![to] = [k \in DOMAIN @ \cup {done + 1} |->
                     IF k = done + 1 THEN content[from][k] ELSE @[k]]]
    /\ done' = done + 1
    /\ UNCHANGED <<pc, fds, entry, full, from, to, history, outcome>>

\* A short or failing write.
WriteFails ==
    /\ pc[Shell] = "cp_copy"
    /\ done < Len(content[from])
    /\ fds' = [fds EXCEPT ![Shell] = CopyTable]
    /\ Back("error")
    /\ UNCHANGED <<world, full, from, to, done, history>>

\* Mutant of CopyEnds: the copy ends with a chunk that is left.
CopyEndsEarly ==
    /\ pc[Shell] = "cp_copy"
    /\ done + 1 >= Len(content[from])
    /\ fds' = [fds EXCEPT ![Shell] = CopyTable]
    /\ Back("copied")
    /\ UNCHANGED <<world, full, from, to, done, history>>

\* read returns 0.
CopyEnds ==
    /\ pc[Shell] = "cp_copy"
    /\ done >= Len(content[from])
    /\ fds' = [fds EXCEPT ![Shell] = CopyTable]
    /\ Back("copied")
    /\ UNCHANGED <<world, full, from, to, done, history>>

\* read returns -1: an error message, and the one of success after it.
ReadFails ==
    /\ pc[Shell] = "cp_copy"
    /\ fds' = [fds EXCEPT ![Shell] = CopyTable]
    /\ Back("copied, with an error")
    /\ UNCHANGED <<world, full, from, to, done, history>>

-----------------------------------------------------------------------------
(* mv_command *)

\* rename replaces a file that is there by now; two links of one file stay.
Rename ==
    /\ pc[Shell] = "mv_rename"
    /\ entry["src"] \in Inodes
    /\ entry[full] # "dir"
    /\ full = "in" => entry["dst"] = "dir"
    /\ entry' = IF entry[full] = entry["src"] THEN entry
                ELSE [entry EXCEPT ![full] = entry["src"], !["src"] = "none"]
    /\ Back("moved")
    /\ UNCHANGED <<content, full, from, to, done, history>>

RenameFails ==
    /\ pc[Shell] = "mv_rename"
    /\ Back("error")
    /\ UNCHANGED <<world, full, from, to, done, history>>

-----------------------------------------------------------------------------
(* free_command: gather_meminfo exits when a value is 0 or cannot be read *)

FreeCommand ==
    /\ pc[Shell] = "free"
    /\ \/ Free(fds[Shell]) # {} /\ Goto(Shell, "prompt")
       \/ Goto(Shell, "exit")
    /\ UNCHANGED <<fds, fileVars>>

Cp == /\ \/ AccessSource("cp", "cp_stat") /\ UNCHANGED fds
         \/ StatTarget("cp_stat", "cp_test") /\ UNCHANGED fds
         \/ AccessTarget("cp_test", "cp_open") /\ UNCHANGED fds
         \/ OpenSource \/ OpenSourceFails \/ CreateTarget \/ CreateTargetFails
         \/ CopyChunk \/ WriteFails \/ CopyEnds \/ ReadFails

Mv == /\ \/ AccessSource("mv", "mv_stat") \/ StatTarget("mv_stat", "mv_test")
         \/ AccessTarget("mv_test", "mv_rename") \/ Rename \/ RenameFails
      /\ UNCHANGED fds

Builtin == /\ Cp \/ Mv \/ FreeCommand
           /\ UNCHANGED <<buffered, local, pipe_fd, flow, lost>>
=============================================================================
