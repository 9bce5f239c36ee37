---------------------------- MODULE FileService ----------------------------
(***************************************************************************)
(* What the monitor promises a simulated program that uses files: calls    *)
(* with the flags of the program's own C library mean what that library    *)
(* says (the O_SIM constants of helper.cc), and the three streams a        *)
(* program starts with are never lost.  Closing one is a success; so is    *)
(* closing a negative descriptor, which no open has returned.              *)
(***************************************************************************)
EXTENDS HostFiles

CONSTANTS Flags, Offsets        \* words of flags as sets of bits, offsets of seeks

VARIABLES
    call, asked     \* the call made last, the arguments the program passed it

(* Bits of the flags: read-only is neither of the first two.               *)
Meaning(flags) ==
    [acc |-> CASE 1 \in flags -> "rw" [] 0 \in flags -> "w" [] OTHER -> "r",
     append |-> 3 \in flags, creat |-> 9 \in flags, trunc |-> 10 \in flags, excl |-> 11 \in flags]

Close(fd) ==
    IF fd < 3 THEN v0' = 0 /\ UNCHANGED <<cwd, desc, files, buf>> ELSE PosixClose(fd)

(* The other calls and the program itself.                                 *)
FileCalls == {"open", "read", "write", "lseek", "close", "chdir"}
Otherwise == call' \notin FileCalls /\ UNCHANGED <<cwd, desc, files>>

Next ==
    \/ call' = "open" /\ \E name \in Names, flags \in Flags :
          asked' = <<name, flags>> /\ PosixOpen(name, Meaning(flags))
    \/ call' = "close" /\ \E fd \in -1 .. MaxFd + 1 : asked' = <<fd>> /\ Close(fd)
    \/ call' = "read" /\ \E fd \in -1 .. MaxFd + 1, n \in 0 .. BufLen :
          asked' = <<fd, n>> /\ PosixRead(fd, n)
    \/ call' = "write" /\ \E fd \in -1 .. MaxFd + 1, n \in 0 .. BufLen :
          asked' = <<fd, n>> /\ PosixWrite(fd, n)
    \/ call' = "lseek" /\ \E fd \in -1 .. MaxFd + 1, off \in Offsets, whence \in 0 .. 2 :
          asked' = <<fd, off, whence>> /\ PosixSeek(fd, off, whence)
    \/ call' = "chdir" /\ \E dir \in Dirs \cup {"missing"} : asked' = <<dir>> /\ PosixChdir(dir)
    \/ Otherwise

Service == FilesInit /\ call = "" /\ asked = << >> /\ [][Next]_<<fileVars, call, asked>>
=============================================================================
