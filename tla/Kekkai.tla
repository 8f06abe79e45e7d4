------------------------------- MODULE Kekkai -------------------------------
(***************************************************************************)
(* The seccomp filter of rs/crates/kekkai/src/lib.rs: the system calls it  *)
(* allows.  Any other call kills the process.  Of the program's calls the  *)
(* module names those that the steps of the daemon turn on, not the ones   *)
(* of the allocator and of the threads, which every step makes.            *)
(***************************************************************************)

\* Must all resolve.
ConceptualAllowlist ==
    {"read", "write", "close", "mmap", "mlock", "munlock", "madvise",
     "prctl", "socket", "bind", "accept", "kill", "exit_group", "futex",
     "sigprocmask", "rt_sigaction"}

\* Bug: the calls of the clean shutdown were not thought of.
RuntimeWithoutUnlink ==
    {"munmap", "mprotect", "clone3", "rt_sigreturn", "rt_sigprocmask",
     "clock_gettime", "gettid", "getpid", "tgkill", "accept4", "recvfrom",
     "sendto", "wait4", "statx", "socketpair", "setsockopt", "fcntl",
     "fstat"}

\* Added as far as the architecture has them.
RuntimeRequired ==
    {"munmap", "mprotect", "brk", "clone", "clone3", "set_robust_list",
     "rseq", "rt_sigreturn", "rt_sigprocmask", "restart_syscall",
     "sched_yield", "nanosleep", "clock_nanosleep", "clock_gettime",
     "gettid", "getrandom", "pipe2", "poll", "ppoll", "epoll_create1",
     "epoll_ctl", "epoll_wait", "accept4", "recvfrom", "sendto", "getpid",
     "exit", "tgkill", "munlockall", "wait4", "waitid", "waitpid", "statx",
     "newfstatat", "fstatat", "unlink", "unlinkat", "faccessat",
     "faccessat2", "socketpair", "sigaltstack", "sched_getaffinity",
     "setsockopt", "fcntl", "fstat", "arch_prctl"}

Allowed == ConceptualAllowlist \cup RuntimeRequired

=============================================================================
