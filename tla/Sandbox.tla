------------------------------ MODULE Sandbox ------------------------------
(***************************************************************************)
(* How a command runs (exec_i of capable-broker/src/lib.rs and the module  *)
(* sandbox of os.rs): the broker forks; the child restricts itself one     *)
(* system call at a time and then executes the program; the broker waits   *)
(* on a pipe of the standard library, over which the child reports an      *)
(* error and whose end of file means that the program has started.         *)
(*                                                                         *)
(* Every call may fail.  A call after install_seccomp_deny also has to     *)
(* pass the filter just installed, the child's report included.  The       *)
(* kernel (Landlock, seccomp, close-on-exec) and std::process::Command are *)
(* modelled from what the code relies on.                                  *)
(*                                                                         *)
(* A definition whose name starts with Bug_ is a defect of the definition  *)
(* that follows it; the specification never uses one.                      *)
(***************************************************************************)
EXTENDS Naturals, Sequences, FiniteSets, Functions

CONSTANTS
    Cwd,       \* the directory behind the command's cwd descriptor
    SysDirs,   \* the system directories, in the order they are opened
    Outside,   \* the rest of the file system, /proc included
    Hosts,     \* the sets of system directories a host may have
    Policies,  \* values of SandboxPolicy
    Inherited, \* descriptors from 3 up that the broker has open at the fork
    CwdFd,     \* the one of the working directory
    Sockets,   \* those that are sockets
    Pipe,      \* the write end of the standard library's error pipe
    Ruleset,   \* the Landlock ruleset while it is being filled
    Calls      \* the numbers of the system calls a program may make

ASSUME PlaceAssumption ==
    /\ SysDirs \in Seq(Range(SysDirs))
    /\ Cwd # Outside /\ Outside \notin Range(SysDirs)
    /\ Hosts \subseteq SUBSET Range(SysDirs)
ASSUME PolicyAssumption ==
    Policies \subseteq [limits : SUBSET {"nproc", "fsize", "cpu"},
                        ids    : SUBSET {"gid", "uid"}]
ASSUME FdAssumption ==
    /\ CwdFd \in Inherited /\ Sockets \subseteq Inherited
    /\ Pipe \notin Inherited /\ Ruleset \notin Inherited /\ Pipe # Ruleset
ASSUME CallAssumption == Calls \subseteq Nat

VARIABLES
    world,  \* fixed at the fork: policy, host, program, privilege, heap lock, x32
    pc,     \* the next step of the child
    sec,    \* what restricts the child
    fds,    \* the child's descriptors
    tried,  \* how many system directories the child has dealt with
    report, \* whether the child has written an error into the pipe
    parent, \* what the broker's call of Command::output knows
    ran,    \* history: whether the program has been started
    got,    \* history: sockets and ways to one the program has come by
    fault   \* history: whether a call failed for a reason of the kernel's own

sbVars == <<world, pc, sec, fds, tried, report, parent, ran, got, fault>>

Places == {Cwd, Outside} \cup Range(SysDirs)
Fd     == Inherited \cup {Pipe, Ruleset}

PC == {"no_new_privs", "setrlimit", "create_ruleset", "add_cwd", "add_sys",
       "restrict_self", "close_ruleset", "fchdir", "close_range", "seccomp",
       "drop", "execve", "report", "running", "exited"}

(***************************************************************************)
(* install_seccomp_deny: the filter, and how the kernel runs it            *)
(***************************************************************************)
\* socket, connect, accept, sendto, recvfrom, sendmsg, recvmsg, bind, listen,
\* socketpair, accept4; io_uring_setup, _enter, _register; ptrace,
\* process_vm_readv, _writev, kcmp, pidfd_send_signal, _open, _getfd.
Bug_SocketFamilyOnly == <<41, 42, 43, 44, 45, 46, 47, 49, 50, 53, 288,
                          101, 310, 311, 312, 424, 434, 438>>

DeniedCalls == <<41, 42, 43, 44, 45, 46, 47, 49, 50, 53, 288, 425, 426, 427,
                 101, 310, 311, 312, 424, 434, 438>>

X86_64 == 1 \* stands for AUDIT_ARCH_X86_64
I386   == 2 \* stands for the architecture of a call through int 0x80

Load(field)     == [op |-> "ld", jt |-> 0, jf |-> 0, k |-> field]
JumpEq(k, t, f) == [op |-> "jeq", jt |-> t, jf |-> f, k |-> k]
Return(verdict) == [op |-> "ret", jt |-> 0, jf |-> 0, k |-> verdict]

\* One comparison and the refusal behind it: equal falls through to the refusal.
Bug_JumpSwapped(nr) == <<JumpEq(nr, 1, 0), Return("errno")>>
DenyBlock(nr)       == <<JumpEq(nr, 0, 1), Return("errno")>>

Filter ==
    LET n == Len(DeniedCalls)
        block(i) == DenyBlock(DeniedCalls[(i + 1) \div 2])
    IN  <<Load("arch"), JumpEq(X86_64, 1, 0), Return("kill"), Load("nr")>>
        \o [i \in 1 .. 2 * n |-> block(i)[2 - (i % 2)]]
        \o <<Return("allow")>>

\* seccomp's interpreter: run[i][acc] is what the program returns from the i-th
\* instruction on; jumps are relative to the following instruction.
Verdict(arch, nr) ==
    LET run[i \in 1 .. Len(Filter)] ==
            LET c == Filter[i]
            IN  [acc \in {0, arch, nr} |->
                    CASE c.op = "ld"  -> run[i + 1][IF c.k = "arch" THEN arch ELSE nr]
                      [] c.op = "ret" -> c.k
                      [] c.op = "jeq" -> run[i + 1 + (IF acc = c.k THEN c.jt ELSE c.jf)][acc]]
    IN  run[1][0]

\* The numbers of the calls the child still makes.
Number == [write |-> 1, execve |-> 59, uid |-> 105, gid |-> 106, groups |-> 116]

Allowed(arch, nr) == sec.filter => Verdict(arch, nr) = "allow"
Permitted(nr)     == Allowed(X86_64, nr)

(***************************************************************************)
(* What the kernel's calls yield, whatever the filter says of them         *)
(***************************************************************************)
\* Calls that make a socket, set up or drive a ring that can, or reach into
\* another process: socket, socketpair (socketcall on i386), ptrace,
\* process_vm_readv, _writev, io_uring_*, pidfd_open, pidfd_getfd.
Source(arch) ==
    {425, 426, 427, 434, 438}
        \cup IF arch = X86_64 THEN {41, 53, 101, 310, 311} ELSE {26, 102, 347, 348, 359, 360}

\* Calls by which one socket brings another: accept, accept4, recvmsg, recvmmsg.
Passing(arch) == IF arch = X86_64 THEN {43, 47, 288, 299} ELSE {337, 364, 372, 417}

\* A kernel with the x32 ABI takes this bit of a number for a mark of that ABI;
\* for a kernel without it there is no call of such a number.
X32Bit == 1073741824

Meant(arch, nr) ==
    IF world.x32 /\ arch = X86_64 /\ nr >= X32Bit THEN nr - X32Bit ELSE nr

(***************************************************************************)
(* The fork                                                                *)
(***************************************************************************)
\* std opens its descriptors close-on-exec; what the broker inherited itself
\* may not be.  Another thread of the broker may hold the allocator's lock at
\* the fork; in the child nobody releases it.  x32: the kernel has that ABI.
World == [policy : Policies, present : Hosts, prog : Places, root : BOOLEAN,
          heapLocked : BOOLEAN, x32 : BOOLEAN]

SbInit ==
    /\ world \in World
    /\ pc = "no_new_privs"
    /\ sec = [nnp |-> FALSE, limits |-> {}, rules |-> {}, domain |-> Places,
              cwd |-> Outside, filter |-> FALSE, dropped |-> {}, root |-> world.root]
    /\ fds \in {f \in [Fd -> {"open", "cloexec", "closed"}] :
                   /\ \A x \in Inherited : f[x] # "closed"
                   /\ f[Pipe] = "cloexec" /\ f[Ruleset] = "closed"}
    /\ tried = 0
    /\ report = FALSE /\ parent = "waiting"
    /\ ran = FALSE /\ got = {} /\ fault = FALSE

Policy == world.policy
outcome == <<world, report, parent, ran, got>>

(***************************************************************************)
(* apply                                                                   *)
(***************************************************************************)
\* The call at `at' does not fail.
Succeed(at, next) ==
    /\ pc = at
    /\ pc' = next
    /\ UNCHANGED <<outcome, fault>>

\* An error return: no allocation, only the report.  Not every step has one.
Setup == {"no_new_privs", "setrlimit", "create_ruleset", "add_cwd", "add_sys",
          "restrict_self", "fchdir", "close_range", "seccomp", "drop", "execve"}

Bug_ErrorAllocates ==
    /\ ~world.heapLocked
    /\ pc' = "report"
    /\ UNCHANGED <<outcome, sec, fds, tried>>

Abort ==
    /\ pc' = "report"
    /\ UNCHANGED <<outcome, sec, fds, tried>>

\* The kernel refuses for a reason of its own: Landlock is not available, a
\* limit is in the way, memory is short.
KernelFails == pc \in Setup /\ Abort /\ fault' = TRUE

NoNewPrivs ==
    /\ Succeed("no_new_privs", "setrlimit")
    /\ sec' = [sec EXCEPT !.nnp = TRUE]
    /\ UNCHANGED <<fds, tried>>

\* The limits that are configured, in the order nproc, fsize, cpu.
LimitRank == [nproc |-> 1, fsize |-> 2, cpu |-> 3]

SetRlimit ==
    LET left == Policy.limits \ sec.limits
    IN  \/ /\ left # {}
           /\ Succeed("setrlimit", "setrlimit")
           /\ \E l \in left :
                  /\ \A k \in left : LimitRank[l] <= LimitRank[k]
                  /\ sec' = [sec EXCEPT !.limits = @ \cup {l}]
           /\ UNCHANGED <<fds, tried>>
        \/ /\ left = {}
           /\ Succeed("setrlimit", "create_ruleset")
           /\ UNCHANGED <<sec, fds, tried>>

CreateRuleset ==
    /\ Succeed("create_ruleset", "add_cwd")
    /\ fds' = [fds EXCEPT ![Ruleset] = "cloexec"]
    /\ UNCHANGED <<sec, tried>>

AddCwd ==
    /\ fds[CwdFd] # "closed"
    /\ Succeed("add_cwd", "add_sys")
    /\ sec' = [sec EXCEPT !.rules = {Cwd}]
    /\ UNCHANGED <<fds, tried>>

\* A directory that cannot be opened is left out; one that is opened but
\* cannot be added is an error (KernelFails).
Bug_SkippedTwice ==
    /\ pc = "add_sys" /\ tried < Len(SysDirs)
    /\ tried' = tried + 2
    /\ fault' = (fault \/ SysDirs[tried + 1] \in world.present)
    /\ UNCHANGED <<outcome, pc, sec, fds>>

SkipSysDir ==
    /\ pc = "add_sys" /\ tried < Len(SysDirs)
    /\ tried' = tried + 1
    /\ fault' = (fault \/ SysDirs[tried + 1] \in world.present)
    /\ UNCHANGED <<outcome, pc, sec, fds>>

AddSysDir ==
    \/ /\ tried < Len(SysDirs) /\ SysDirs[tried + 1] \in world.present
       /\ Succeed("add_sys", "add_sys")
       /\ sec' = [sec EXCEPT !.rules = @ \cup {SysDirs[tried + 1]}]
       /\ tried' = tried + 1
       /\ UNCHANGED fds
    \/ /\ tried = Len(SysDirs)
       /\ Succeed("add_sys", "restrict_self")
       /\ UNCHANGED <<sec, fds, tried>>

\* Landlock and seccomp ask for no_new_privs of an unprivileged process.
MayRestrict == sec.nnp \/ sec.root

Bug_RestrictBestEffort ==
    /\ Succeed("restrict_self", "close_ruleset")
    /\ \/ MayRestrict /\ sec' = [sec EXCEPT !.domain = sec.rules]
       \/ UNCHANGED sec
    /\ UNCHANGED <<fds, tried>>

RestrictSelf ==
    /\ MayRestrict
    /\ Succeed("restrict_self", "close_ruleset")
    /\ sec' = [sec EXCEPT !.domain = sec.rules]
    /\ UNCHANGED <<fds, tried>>

CloseRuleset ==
    /\ Succeed("close_ruleset", "fchdir")
    /\ fds' = [fds EXCEPT ![Ruleset] = "closed"]
    /\ UNCHANGED <<sec, tried>>

Fchdir ==
    /\ fds[CwdFd] # "closed"
    /\ Succeed("fchdir", "close_range")
    /\ sec' = [sec EXCEPT !.cwd = Cwd]
    /\ UNCHANGED <<fds, tried>>

\* Everything from 3 up is marked; it is closed by execve and not before.
Bug_ClosesAtOnce ==
    /\ Succeed("close_range", "seccomp")
    /\ fds' = [f \in Fd |-> "closed"]
    /\ UNCHANGED <<sec, tried>>

CloseRange ==
    /\ Succeed("close_range", "seccomp")
    /\ fds' = [f \in Fd |-> IF fds[f] = "open" THEN "cloexec" ELSE fds[f]]
    /\ UNCHANGED <<sec, tried>>

InstallSeccompDeny ==
    /\ MayRestrict
    /\ Succeed("seccomp", "drop")
    /\ sec' = [sec EXCEPT !.filter = TRUE]
    /\ UNCHANGED <<fds, tried>>

\* Supplementary groups first, then the group, then the user: giving up the
\* user id gives up the right to change the others.
ToDrop == IF Policy.ids = {} THEN {} ELSE Policy.ids \cup {"groups"}
Bug_UserFirst == [uid |-> 1, groups |-> 2, gid |-> 3]
DropRank      == [groups |-> 1, gid |-> 2, uid |-> 3]

Dropping(x) ==
    /\ pc = "drop"
    /\ x \in ToDrop \ sec.dropped
    /\ \A y \in ToDrop \ sec.dropped : DropRank[x] <= DropRank[y]

Drop ==
    \/ \E x \in {"groups", "gid", "uid"} :
           /\ Dropping(x)
           /\ sec.root /\ Permitted(Number[x])
           /\ Succeed("drop", "drop")
           /\ sec' = [sec EXCEPT !.dropped = @ \cup {x}, !.root = (x # "uid")]
           /\ UNCHANGED <<fds, tried>>
    \/ /\ ToDrop \subseteq sec.dropped
       /\ Succeed("drop", "execve")
       /\ UNCHANGED <<sec, fds, tried>>

(***************************************************************************)
(* execve, the report, and the broker's end of the pipe                    *)
(***************************************************************************)
Exists == {Cwd, Outside} \cup world.present
CanExec == world.prog \in Exists \cap sec.domain /\ Permitted(Number.execve)

Execve ==
    /\ pc = "execve" /\ CanExec
    /\ pc' = "running"
    /\ ran' = TRUE
    /\ fds' = [f \in Fd |-> IF fds[f] = "open" THEN "open" ELSE "closed"]
    /\ got' = {f \in Sockets : fds'[f] = "open"}
    /\ UNCHANGED <<world, sec, tried, report, parent, fault>>

\* A call that cannot succeed in the child's own situation.
Refused ==
    /\ \/ pc \in {"add_cwd", "fchdir"} /\ fds[CwdFd] = "closed"
       \/ pc \in {"restrict_self", "seccomp"} /\ ~MayRestrict
       \/ \E x \in {"groups", "gid", "uid"} :
              Dropping(x) /\ ~(sec.root /\ Permitted(Number[x]))
       \/ pc = "execve" /\ ~CanExec
    /\ Abort
    /\ UNCHANGED fault

\* The child writes the error into the pipe, if it still can, and exits.
Report ==
    /\ pc = "report"
    /\ pc' = "exited"
    /\ report' = (fds[Pipe] # "closed" /\ Permitted(Number.write))
    /\ UNCHANGED <<world, sec, fds, tried, parent, ran, got, fault>>

\* spawn: an error report, or the end of the pipe.
Learn ==
    /\ parent = "waiting"
    /\ \/ report /\ parent' = "error"
       \/ /\ ~report /\ (pc = "exited" \/ fds[Pipe] = "closed")
          /\ parent' = "started"
    /\ UNCHANGED <<world, pc, sec, fds, tried, report, ran, got, fault>>

\* wait_with_output: exec_i then returns Ok with what the command printed,
\* whatever its exit status.
Output ==
    /\ parent = "started" /\ pc = "exited"
    /\ parent' = "done"
    /\ UNCHANGED <<world, pc, sec, fds, tried, report, ran, got, fault>>

(***************************************************************************)
(* The program                                                             *)
(***************************************************************************)
\* Any call by either entry.  The filter answers with an error, or ends the
\* process if the architecture is not its own.
TryCall(arch, nr) ==
    LET yields == \/ Meant(arch, nr) \in Source(arch)
                  \/ Meant(arch, nr) \in Passing(arch) /\ got # {}
    IN  /\ pc = "running"
        /\ got' = IF Allowed(arch, nr) /\ yields THEN got \cup {nr} ELSE got
        /\ pc' = IF sec.filter /\ Verdict(arch, nr) = "kill" THEN "exited" ELSE pc
        /\ UNCHANGED <<world, sec, fds, tried, report, parent, ran, fault>>

\* open of /proc/<pid>/fd/<n>
OpenProc ==
    /\ pc = "running"
    /\ got' = IF Outside \in sec.domain THEN got \cup {Outside} ELSE got
    /\ UNCHANGED <<world, pc, sec, fds, tried, report, parent, ran, fault>>

Exit ==
    /\ pc = "running"
    /\ pc' = "exited"
    /\ UNCHANGED <<world, sec, fds, tried, report, parent, ran, got, fault>>

Child ==
    \/ NoNewPrivs \/ SetRlimit \/ CreateRuleset \/ AddCwd \/ SkipSysDir \/ AddSysDir
    \/ RestrictSelf \/ CloseRuleset \/ Fchdir \/ CloseRange \/ InstallSeccompDeny
    \/ Drop \/ Execve \/ KernelFails \/ Refused \/ Report

Program == Exit \/ OpenProc \/ \E arch \in {X86_64, I386}, nr \in Calls : TryCall(arch, nr)

SbNext == Child \/ Learn \/ Output \/ Program

\* The child runs until it has become the program or exited, and the broker's
\* thread reads the pipe; nothing is assumed of the program.
SbSpec == SbInit /\ [][SbNext]_sbVars /\ WF_sbVars(Child) /\ WF_sbVars(Learn)

(***************************************************************************)
(* Properties                                                              *)
(***************************************************************************)
SbTypeOK ==
    /\ world \in World
    /\ pc \in PC
    /\ sec \in [nnp : BOOLEAN, limits : SUBSET {"nproc", "fsize", "cpu"},
                rules : SUBSET Places, domain : SUBSET Places, cwd : Places,
                filter : BOOLEAN, dropped : SUBSET {"groups", "gid", "uid"},
                root : BOOLEAN]
    /\ fds \in [Fd -> {"open", "cloexec", "closed"}]
    /\ tried \in 0 .. Len(SysDirs)
    /\ report \in BOOLEAN /\ ran \in BOOLEAN /\ fault \in BOOLEAN
    /\ parent \in {"waiting", "error", "started", "done"}

\* No program without the whole sandbox: once execve has succeeded, everything
\* the policy asks for is in force, whichever of the calls before it failed.
RunsConfined ==
    ran => /\ sec.nnp /\ sec.filter
           /\ sec.limits = Policy.limits
           /\ sec.domain \subseteq {Cwd} \cup Range(SysDirs) /\ sec.cwd = Cwd
           /\ ToDrop \subseteq sec.dropped
           /\ "uid" \in Policy.ids => ~sec.root
           /\ \A f \in Fd : fds[f] = "closed"

\* The argument os.rs makes for its network ban: whatever calls a program makes,
\* it comes by no socket.  It inherits none, the filter refuses each call that
\* yields one to a program without one, and /proc is out of reach.  The calls
\* that pass a socket on by way of another need not all be refused (recvmmsg is
\* not).  The argument is for kernels without the x32 ABI: the filter compares
\* numbers for equality and does not look at the bit that marks an x32 call.
NoSocketInside == ran /\ ~world.x32 => got = {}

\* What the broker believes is what happened: the command counts as started
\* exactly if the program was started.  A failed restriction is an error of
\* exec and never an empty success.
FailuresReachTheCaller ==
    /\ parent \in {"started", "done"} => ran
    /\ parent = "error" => ~ran

\* Nothing but the host refuses: a command fails only if a system call failed
\* for the kernel's own reasons, the policy drops an identity without the
\* privilege to, or the program is not where the sandbox lets one be.
RefusalsHaveAReason ==
    pc = "report" =>
        \/ fault
        \/ Policy.ids # {} /\ ~world.root
        \/ world.prog \notin {Cwd} \cup world.present

\* A call of exec learns whether its program started, whatever fails and
\* whatever other threads of the broker held at the fork.
SpawnIsDecided == parent = "waiting" ~> parent # "waiting"
=============================================================================
