------------------------------- MODULE System -------------------------------
(***************************************************************************)
(* Mavis as it ships: the kernel of module Ipc under the four programs of  *)
(* servers/, driven by whatever is typed at the shell.  Every step is a    *)
(* kernel operator of Ipc, called by the program of the current task, with *)
(* what the program itself changes.                                        *)
(*                                                                         *)
(* at[t] is where the program of t goes on when the kernel call it is in   *)
(* returns; msg[t] is its `struct message msg`.                            *)
(***************************************************************************)
EXTENDS Ipc

CONSTANTS
    NumMaxFile,   \* NUM_MAX_FILE of servers/fs/fs.h
    HeapCap,      \* how many images the heap of the vm server's libc holds
    LineSize,     \* sizeof(cmdline)
    Chars,        \* what getchar returns, but for a return
    Lines,        \* what is typed before a return
    MaxHello      \* bound: how often "hello" is typed

NUL == "nul"
CR  == "return"
Hello == <<"h", "e", "l", "l", "o">>
Exit  == <<"e", "x", "i", "t">>

VM == 2
SHELL == 3
FS == 4
Fd == -1..(NumMaxFile - 1)

SpawnMsg       == [type |-> "SPAWN_TASK_MSG"]
SpawnReply(t)  == [type |-> "SPAWN_TASK_REPLY_MSG", tid |-> t]
OpenMsg        == [type |-> "OPEN_FILE_MSG"]
OpenReply(fd)  == [type |-> "OPEN_FILE_REPLY_MSG", fd |-> fd]
ReadMsg(fd)    == [type |-> "READ_FILE_DATA_MSG", fd |-> fd]
ReadReply(fd)  == [type |-> "READ_FILE_DATA_REPLY_MSG", fd |-> fd]
CloseMsg(fd)   == [type |-> "CLOSE_FILE_MSG", fd |-> fd]
CloseReply(fd) == [type |-> "CLOSE_FILE_REPLY_MSG", fd |-> fd]

SysPayload ==
    {SpawnMsg, OpenMsg}
    \cup {SpawnReply(t) : t \in Task}
    \cup UNION {{OpenReply(fd), ReadMsg(fd), ReadReply(fd), CloseMsg(fd), CloseReply(fd)} : fd \in Fd}

\* A slot is left for "hello", a descriptor for its file, and a command fits cmdline.
ASSUME SystemAssumption ==
    /\ BootNames = <<"vm", "shell", "fs">>
    /\ Servers = {"vm", "fs"}
    /\ "hello" \in Names
    /\ SysPayload \subseteq Payload
    /\ NumTask >= 5
    /\ NumMaxFile \in Nat \ {0}
    /\ HeapCap \in Nat /\ MaxHello \in Nat
    /\ LineSize \in Nat /\ LineSize > Len(Hello) + 1
    /\ NUL \in Chars /\ CR \notin Chars /\ Lines \subseteq Seq(Chars)

VARIABLES
    at, msg,
    newTask,      \* shell: new_task
    buf,          \* vm: what `buf` holds: "none", "null" (malloc failed), "blank", "image"
    newTid,       \* vm: tid
    heap,         \* vm: images the bump allocator of lib/libc/malloc.c has handed out
    files,        \* fs: files[].state, TRUE for OPEN
    clobbered,    \* the image was copied over the vm server's own memory
    typed,        \* how often "hello" was typed
    cmdline, i,   \* shell: cmdline[LineSize], and the index of the next character
    overrun,      \* something was stored behind cmdline
    line,         \* what was typed since the prompt, returns left out
    rest          \* what of it getchar has not given to the shell yet

lineVars == <<cmdline, i, overrun, line, rest>>
progVars == <<at, msg, newTask, buf, newTid, heap, files, clobbered, typed, lineVars>>
sysVars  == <<vars, progVars>>

SysInit ==
    /\ Init
    /\ at = [t \in Task |-> IF t = SHELL THEN "prompt" ELSE IF t \in {VM, FS} THEN "loop" ELSE "start"]
    /\ msg = [t \in Task |-> NoMsg]
    /\ newTask = 0
    /\ buf = "none"
    /\ newTid = 0
    /\ heap = 0
    /\ files = [fd \in 0..(NumMaxFile - 1) |-> FALSE]
    /\ clobbered = FALSE
    /\ typed = 0
    /\ cmdline = [k \in 0..(LineSize - 1) |-> NUL] /\ i = 0 /\ overrun = FALSE
    /\ line = <<>> /\ rest = <<>>

\* The program of task t is at l and has the CPU.
Here(t, l) == ~clobbered /\ ~overrun /\ Running("user") /\ current = t /\ at[t] = l
Goto(l)    == at' = [at EXCEPT ![current] = l]
Send(n, b) == ipc_send(n, b, "send") /\ UNCHANGED destroyed
Call(n, b) == ipc_call(n, b)
Receive    == ipc_receive(ANY) /\ UNCHANGED out
NoCall     == UNCHANGED vars

----------------------------------------------------------------------------
(* servers/shell/main.c                                                    *)

\* The index goes on from the line before.
Bug_ShellPrompt ==
    /\ Here(SHELL, "prompt")
    /\ line' = <<>>
    /\ NoCall /\ Goto("readline")
    /\ UNCHANGED <<msg, newTask, buf, newTid, heap, files, clobbered, typed, cmdline, i, overrun, rest>>

ShellPrompt ==
    /\ Here(SHELL, "prompt")
    /\ i' = 0 /\ line' = <<>>
    /\ NoCall /\ Goto("readline")
    /\ UNCHANGED <<msg, newTask, buf, newTid, heap, files, clobbered, typed, cmdline, overrun, rest>>

\* Someone types a line and return.
TypeLine ==
    /\ Here(SHELL, "readline") /\ rest = <<>>
    /\ \E l \in Lines :
        /\ IF l = Hello THEN typed < MaxHello /\ typed' = typed + 1 ELSE typed' = typed
        /\ line' = line \o l
        /\ rest' = Append(l, CR)
    /\ NoCall
    /\ UNCHANGED <<at, msg, newTask, buf, newTid, heap, files, clobbered, cmdline, i, overrun>>

StoreChar(c) ==
    IF i < LineSize THEN cmdline' = [cmdline EXCEPT ![i] = c] /\ UNCHANGED overrun
                    ELSE overrun' = TRUE /\ UNCHANGED cmdline

\* The string is not ended.
Bug_EndLine == UNCHANGED <<cmdline, i, overrun>> /\ Goto("command")

EndLine == StoreChar(NUL) /\ UNCHANGED i /\ Goto("command")

\* "command line too long": the character at the last index is dropped, a return too, and
\* the next one is stored behind cmdline.
GetChar ==
    /\ Here(SHELL, "readline") /\ rest # <<>>
    /\ rest' = Tail(rest)
    /\ IF i = LineSize - 1   THEN i' = i + 1 /\ UNCHANGED <<cmdline, overrun, at>>
       ELSE IF Head(rest) = CR THEN EndLine
       ELSE StoreChar(Head(rest)) /\ i' = i + 1 /\ UNCHANGED at
    /\ NoCall
    /\ UNCHANGED <<msg, newTask, buf, newTid, heap, files, clobbered, typed, line>>

\* strcmp(cmdline, w) == 0.
Is(w) == (\A k \in DOMAIN w : cmdline[k - 1] = w[k]) /\ cmdline[Len(w)] = NUL

RunHello ==
    /\ Here(SHELL, "command") /\ Is(Hello)
    /\ Call("vm", SpawnMsg) /\ Goto("spawned")
    /\ UNCHANGED <<msg, newTask, buf, newTid, heap, files, clobbered, typed, lineVars>>

RunExit ==
    /\ Here(SHELL, "command") /\ Is(Exit)
    /\ task_exit /\ Goto("exited")
    /\ UNCHANGED <<msg, newTask, buf, newTid, heap, files, clobbered, typed, lineVars>>

UnknownCommand ==
    /\ Here(SHELL, "command") /\ ~Is(Hello) /\ ~Is(Exit)
    /\ NoCall /\ Goto("prompt")
    /\ UNCHANGED <<msg, newTask, buf, newTid, heap, files, clobbered, typed, lineVars>>

\* new_task is taken from the message without a look at its type.
ShellSpawned ==
    /\ Here(SHELL, "spawned")
    /\ newTask' = IF "tid" \in DOMAIN msg[SHELL].body THEN msg[SHELL].body.tid ELSE 0
    /\ Receive /\ Goto("waitend")
    /\ UNCHANGED <<msg, buf, newTid, heap, files, clobbered, typed, lineVars>>

\* The shell waits for the wrong tid.
Bug_ShellWaitEnd ==
    /\ Here(SHELL, "waitend")
    /\ IF msg[SHELL].body = DestroyMsg(newTask - 1)
       THEN NoCall /\ Goto("prompt")
       ELSE Receive /\ UNCHANGED at
    /\ UNCHANGED <<msg, newTask, buf, newTid, heap, files, clobbered, typed, lineVars>>

ShellWaitEnd ==
    /\ Here(SHELL, "waitend")
    /\ IF msg[SHELL].body = DestroyMsg(newTask)
       THEN NoCall /\ Goto("prompt")
       ELSE Receive /\ UNCHANGED at
    /\ UNCHANGED <<msg, newTask, buf, newTid, heap, files, clobbered, typed, lineVars>>

----------------------------------------------------------------------------
(* servers/vm/main.c                                                       *)

VmReceive ==
    /\ Here(VM, "loop")
    /\ Receive /\ Goto("dispatch")
    /\ UNCHANGED <<msg, newTask, buf, newTid, heap, files, clobbered, typed, lineVars>>

VmDispatch ==
    /\ Here(VM, "dispatch")
    /\ CASE msg[VM].body.type = "SPAWN_TASK_MSG" -> Call("fs", OpenMsg) /\ Goto("opened")
         [] msg[VM].body.type = "EXIT_TASK_MSG"  -> task_destroy(msg[VM].body.tid) /\ Goto("loop")
         [] OTHER                                -> NoCall /\ Goto("loop")
    /\ UNCHANGED <<msg, newTask, buf, newTid, heap, files, clobbered, typed, lineVars>>

\* malloc never frees; its result, NULL when the heap is full, is registered unchecked.
VmShare ==
    /\ Here(VM, "opened")
    /\ IF heap < HeapCap THEN heap' = heap + 1 /\ buf' = "blank"
                         ELSE heap' = heap /\ buf' = "null"
    /\ ipc_share_buffer /\ Goto("shared")
    /\ UNCHANGED <<msg, newTask, newTid, files, clobbered, typed, lineVars>>

VmRead ==
    /\ Here(VM, "shared")
    /\ Call("fs", ReadMsg(msg[VM].body.fd)) /\ Goto("read")
    /\ UNCHANGED <<msg, newTask, buf, newTid, heap, files, clobbered, typed, lineVars>>

VmClose ==
    /\ Here(VM, "read")
    /\ Call("fs", CloseMsg(msg[VM].body.fd)) /\ Goto("closed")
    /\ UNCHANGED <<msg, newTask, buf, newTid, heap, files, clobbered, typed, lineVars>>

VmLaunch ==
    /\ Here(VM, "closed")
    /\ vm_create("hello")
    /\ \/ \E t \in Task :
             /\ FreeSlot(t)
             /\ newTid' = t
             /\ at' = [at EXCEPT ![VM] = "created", ![t] = "start"]
       \/ fault' = "no free task slots" /\ UNCHANGED <<newTid, at>>
    /\ UNCHANGED <<msg, newTask, buf, heap, files, clobbered, typed, lineVars>>

\* The vm server calls the shell where it has to send.
Bug_VmReply ==
    /\ Here(VM, "created")
    /\ Call("shell", SpawnReply(newTid)) /\ Goto("loop")
    /\ UNCHANGED <<msg, newTask, buf, newTid, heap, files, clobbered, typed, lineVars>>

VmReply ==
    /\ Here(VM, "created")
    /\ Send("shell", SpawnReply(newTid)) /\ Goto("loop")
    /\ UNCHANGED <<msg, newTask, buf, newTid, heap, files, clobbered, typed, lineVars>>

----------------------------------------------------------------------------
(* servers/fs/main.c.  The image made by tools/mkimage.py holds "hello",   *)
(* so find_file finds it.                                                  *)

FsReceive ==
    /\ Here(FS, "loop")
    /\ Receive /\ Goto("serve")
    /\ UNCHANGED <<msg, newTask, buf, newTid, heap, files, clobbered, typed, lineVars>>

\* fd is what alloc_fd returns.
AllocFd(fd) ==
    IF \A f \in DOMAIN files : files[f] THEN fd = -1
    ELSE fd \in DOMAIN files /\ ~files[fd] /\ \A f \in 0..(fd - 1) : files[f]

\* alloc_fd does not mark the file open.
Bug_FsOpen ==
    /\ msg[FS].body.type = "OPEN_FILE_MSG"
    /\ \E fd \in Fd : AllocFd(fd) /\ Send(msg[FS].src, OpenReply(fd))
    /\ Goto("loop")
    /\ UNCHANGED <<files, buf, clobbered>>

FsOpen ==
    /\ msg[FS].body.type = "OPEN_FILE_MSG"
    /\ \E fd \in Fd :
          /\ AllocFd(fd)
          /\ files' = [f \in DOMAIN files |-> files[f] \/ f = fd]
          /\ Send(msg[FS].src, OpenReply(fd))
    /\ Goto("loop")
    /\ UNCHANGED <<buf, clobbered>>

\* files[fd].state == OPEN, where files[-1] is whatever lies before the array.
IsOpen(fd, open) == IF fd \in DOMAIN files THEN open = files[fd] ELSE open \in BOOLEAN

\* The copy goes where the client's shared buffer points: for the vm server to buf, and
\* over its own data when buf is NULL.
FsRead ==
    /\ msg[FS].body.type = "READ_FILE_DATA_MSG"
    /\ \E open \in BOOLEAN :
          /\ IsOpen(msg[FS].body.fd, open)
          /\ IF open
             THEN /\ ipc_copy(msg[FS].src)
                  /\ buf' = IF buf = "blank" THEN "image" ELSE buf
                  /\ clobbered' = (buf = "null")
             ELSE NoCall /\ UNCHANGED <<buf, clobbered>>
    /\ Goto("copied")
    /\ UNCHANGED files

\* The file stays open.
Bug_FsClose ==
    /\ msg[FS].body.type = "CLOSE_FILE_MSG"
    /\ Send(msg[FS].src, CloseReply(msg[FS].body.fd)) /\ Goto("loop")
    /\ UNCHANGED <<files, buf, clobbered>>

FsClose ==
    /\ msg[FS].body.type = "CLOSE_FILE_MSG"
    /\ files' = [f \in DOMAIN files |-> files[f] /\ f # msg[FS].body.fd]
    /\ Send(msg[FS].src, CloseReply(msg[FS].body.fd)) /\ Goto("loop")
    /\ UNCHANGED <<buf, clobbered>>

FsIgnore ==
    /\ msg[FS].body.type \notin {"OPEN_FILE_MSG", "READ_FILE_DATA_MSG", "CLOSE_FILE_MSG"}
    /\ NoCall /\ Goto("loop")
    /\ UNCHANGED <<files, buf, clobbered>>

FsServe ==
    /\ Here(FS, "serve")
    /\ FsOpen \/ FsRead \/ FsClose \/ FsIgnore
    /\ UNCHANGED <<msg, newTask, newTid, heap, typed, lineVars>>

\* The reply keeps the type of the request.
Bug_FsReadReply ==
    /\ Here(FS, "copied")
    /\ Send(msg[FS].src, msg[FS].body) /\ Goto("loop")
    /\ UNCHANGED <<msg, newTask, buf, newTid, heap, files, clobbered, typed, lineVars>>

FsReadReply ==
    /\ Here(FS, "copied")
    /\ Send(msg[FS].src, ReadReply(msg[FS].body.fd)) /\ Goto("loop")
    /\ UNCHANGED <<msg, newTask, buf, newTid, heap, files, clobbered, typed, lineVars>>

----------------------------------------------------------------------------
(* servers/hello/main.c and lib/libc/crt0.c: main returns and the task     *)
(* exits.                                                                  *)
HelloRun ==
    /\ ~clobbered /\ Running("user")
    /\ current \notin {Idle, VM, SHELL, FS} /\ at[current] = "start"
    /\ task_exit /\ Goto("exited")
    /\ UNCHANGED <<msg, newTask, buf, newTid, heap, files, clobbered, typed, lineVars>>

\* The kernel's own steps; ipc_receive copies the message into the program's msg.
SysKernel ==
    /\ ~clobbered
    /\ KernelStep
    /\ msg' = IF pc[current] = "recv" THEN [msg EXCEPT ![current] = message[current]] ELSE msg
    /\ UNCHANGED <<at, newTask, buf, newTid, heap, files, clobbered, typed, lineVars>>

\* What the machine does by itself, the user's typing apart.
Machine ==
    \/ SysKernel
    \/ ShellPrompt \/ GetChar \/ RunHello \/ RunExit \/ UnknownCommand
    \/ ShellSpawned \/ ShellWaitEnd
    \/ VmReceive \/ VmDispatch \/ VmShare \/ VmRead \/ VmClose \/ VmLaunch \/ VmReply
    \/ FsReceive \/ FsServe \/ FsReadReply
    \/ HelloRun

SysNext == Machine \/ TypeLine

\* The CPU does not stop between instructions; nobody has to type.
SysSpec == SysInit /\ [][SysNext]_sysVars /\ WF_sysVars(Machine)

----------------------------------------------------------------------------
(* What is true of the system                                              *)

SysTypeOK ==
    /\ TypeOK
    /\ at \in [Task -> {"start", "prompt", "readline", "command", "spawned", "waitend", "exited", "loop", "dispatch",
                       "opened", "shared", "read", "closed", "created", "serve", "copied"}]
    /\ msg \in [Task -> Message]
    /\ newTask \in Task \cup {0} /\ newTid \in Task \cup {0}
    /\ buf \in {"none", "null", "blank", "image"}
    /\ heap \in 0..HeapCap
    /\ files \in [0..(NumMaxFile - 1) -> BOOLEAN]
    /\ clobbered \in BOOLEAN
    /\ typed \in 0..MaxHello
    /\ cmdline \in [0..(LineSize - 1) -> Chars] /\ i \in 0..(LineSize + 1) /\ overrun \in BOOLEAN
    /\ line \in Seq(Chars) /\ rest \in Seq(Chars \cup {CR})

(* The programs of servers/ use the kernel well: every one of their steps  *)
(* is a step Ipc allows to well-behaved programs, so all that holds of     *)
(* them holds here.  Each reply of fs (fs/main.c:56-85), the vm server's   *)
(* reply and task_destroy's message to the shell find a task that waits    *)
(* for them, in whatever order the servers first get the CPU.              *)
UsesKernelWell == Spec

(* A call returns the reply to the request it made (vm/main.c:22-40,       *)
(* shell/main.c:33-34): neither program looks at the type of what it gets. *)
RepliesMatch ==
    /\ \A t \in Task : pc[t] = "user" =>
        /\ at[t] = "opened"  => msg[t].src = "fs" /\ msg[t].body.type = "OPEN_FILE_REPLY_MSG"
        /\ at[t] = "read"    => msg[t].src = "fs" /\ msg[t].body.type = "READ_FILE_DATA_REPLY_MSG"
        /\ at[t] = "closed"  => msg[t].src = "fs" /\ msg[t].body.type = "CLOSE_FILE_REPLY_MSG"
        /\ at[t] = "spawned" => msg[t].src = "vm" /\ msg[t].body = SpawnReply(newTid)

(* When the shell prompts, the last command has left nothing behind: every *)
(* file is closed, every slot but the four first is free, no message is    *)
(* under way, and each server that has run waits for anyone.               *)
QuietAtPrompt ==
    (current = SHELL /\ pc[SHELL] = "user" /\ at[SHELL] = "readline") =>
        /\ \A fd \in DOMAIN files : ~files[fd]
        /\ \A t \in Task : state[t] = "unused" <=> t \notin {Idle, VM, SHELL, FS}
        /\ \A t \in Task : message[t] = NoMsg /\ senders[t] = <<>>
        /\ \A s \in {VM, FS} : at[s] # "loop" => Receiving(s) /\ waitFor[s] = ANY

(* vm_create is given an image that was read from the file, never an empty *)
(* buffer or a file that was not open (vm/main.c:44).                      *)
LaunchesTheFile == (pc[VM] = "user" /\ at[VM] = "closed") => buf = "image"

(* The machine stops only after "exit": the README's kernel panic because  *)
(* there are no more tasks to execute.  Then the shell is gone.            *)
StopsOnlyAfterExit ==
    fault # "none" =>
        /\ fault = "switched to idle task"
        /\ at[SHELL] = "exited" /\ state[SHELL] = "unused"

(* A command runs when it is what was typed, up to a NUL, whatever an      *)
(* earlier and longer line left in cmdline (shell/main.c:11-50).           *)
CommandsAsTyped ==
    at[SHELL] = "command" =>
        \A w \in {Hello, Exit} :
            Is(w) <=> IsPrefix(w, line) /\ (line = w \/ line[Len(w) + 1] = NUL)

(* Nothing is stored behind cmdline unless LineSize - 1 characters or more *)
(* were typed after one prompt (shell/main.c:15-23).                       *)
OnlyLongLinesOverrun == overrun => Len(line) >= LineSize - 1

(* "hello" comes back to the prompt.                                       *)
HelloReturns == at[SHELL] \in {"spawned", "waitend"} ~> at[SHELL] = "readline"

(* "exit" ends in the panic the README announces.                          *)
ExitPanics == at[SHELL] = "exited" ~> fault = "switched to idle task"

(* The vm server's memory is its own: nothing is copied over it.           *)
VmMemoryIntact == ~clobbered
============================================================================
