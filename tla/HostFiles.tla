----------------------------- MODULE HostFiles -----------------------------
(***************************************************************************)
(* The host's files as _monitorBody (profileMips.cc) uses them: open,      *)
(* read, write, lseek, close, chdir of a POSIX system, on one buffer of    *)
(* the simulated program.  External to the repository.                     *)
(***************************************************************************)
EXTENDS Integers, SequencesExt

CONSTANTS
    MaxFd,          \* bound: the greatest descriptor of the process
    Dirs, Names,    \* directories, and names of files in them
    Existing,       \* the files there may be at the start
    Data, BufLen,   \* values of a byte of a file, length of the buffer
    MaxLen          \* bound: length of a file

ASSUME HostFilesAssumption ==
    /\ MaxFd \in Nat /\ MaxFd > 2 /\ 0 \in Data /\ BufLen \in Nat /\ MaxLen \in Nat
    /\ "tty" \notin Dirs
    /\ \A fs \in Existing :
          /\ DOMAIN fs \subseteq Dirs \X Names
          /\ \A p \in DOMAIN fs : fs[p] \in Seq(Data) /\ Len(fs[p]) <= MaxLen

VARIABLES
    cwd,
    desc,           \* the open descriptors
    files,          \* the contents of the files there are
    buf,            \* the buffer of the program a call names
    v0              \* what the last call returned
fileVars == <<cwd, desc, files, buf, v0>>

Streams == 0 .. 2
Tty == [path |-> <<"tty", "">>, pos |-> 0, acc |-> "rw", append |-> FALSE]
Meanings ==     \* what the flags of an open ask for
    [acc : {"r", "w", "rw"}, append : BOOLEAN, creat : BOOLEAN, trunc : BOOLEAN, excl : BOOLEAN]

FilesInit ==
    /\ cwd \in Dirs
    /\ desc = [fd \in Streams |-> Tty]
    /\ files \in Existing
    /\ buf = [k \in 1 .. BufLen |-> 0]
    /\ v0 = 0

Fails == v0' = -1 /\ UNCHANGED <<cwd, desc, files, buf>>

With(f, k, v) == [x \in DOMAIN f \cup {k} |-> IF x = k THEN v ELSE f[x]]

PosixOpen(name, m) ==
    LET p == <<cwd, name>>
        exists == p \in DOMAIN files
        free == (0 .. MaxFd) \ DOMAIN desc
        fd == Min(free)
    IN  \/ /\ free = {} \/ (~exists /\ ~m.creat) \/ (exists /\ m.creat /\ m.excl)
           /\ Fails
        \/ /\ free # {} /\ (exists \/ m.creat) /\ ~(exists /\ m.creat /\ m.excl)
           /\ desc' = With(desc, fd, [path |-> p, pos |-> 0, acc |-> m.acc, append |-> m.append])
           /\ files' = With(files, p, IF exists /\ ~m.trunc THEN files[p] ELSE << >>)
           /\ v0' = fd
           /\ UNCHANGED <<cwd, buf>>

Into(s, at, t) ==       \* s with t written over it from position at, behind zeroes if need be
    [k \in 1 .. Max({Len(s), at + Len(t)}) |->
        IF k \in at + 1 .. at + Len(t) THEN t[k - at] ELSE IF k <= Len(s) THEN s[k] ELSE 0]

PosixRead(fd, n) ==
    \/ fd \notin DOMAIN desc /\ Fails
    \/ fd \in DOMAIN desc /\ desc[fd].acc = "w" /\ Fails
    \/ /\ fd \in DOMAIN desc /\ desc[fd] = Tty
       /\ \/ Fails
          \/ \E k \in 0 .. n : \E t \in [1 .. k -> Data] :
                buf' = Into(buf, 0, t) /\ v0' = k /\ UNCHANGED <<cwd, desc, files>>
    \/ /\ fd \in DOMAIN desc /\ desc[fd] # Tty /\ desc[fd].acc # "w"
       /\ LET d == desc[fd]
              t == SubSeq(files[d.path], d.pos + 1, Min({d.pos + n, Len(files[d.path])}))
          IN  /\ buf' = Into(buf, 0, t)
              /\ desc' = [desc EXCEPT ![fd].pos = @ + Len(t)]
              /\ v0' = Len(t)
              /\ UNCHANGED <<cwd, files>>

PosixWrite(fd, n) ==
    \/ fd \notin DOMAIN desc /\ Fails
    \/ fd \in DOMAIN desc /\ desc[fd].acc = "r" /\ Fails
    \/ fd \in DOMAIN desc /\ desc[fd] = Tty /\ v0' = n /\ UNCHANGED <<cwd, desc, files, buf>>
    \/ /\ fd \in DOMAIN desc /\ desc[fd] # Tty /\ desc[fd].acc # "r"
       /\ LET d == desc[fd]
              at == IF d.append THEN Len(files[d.path]) ELSE d.pos
          IN  /\ at + n <= MaxLen
              /\ files' = [files EXCEPT ![d.path] = IF n = 0 THEN @ ELSE Into(@, at, SubSeq(buf, 1, n))]
              /\ desc' = [desc EXCEPT ![fd].pos = IF n = 0 THEN @ ELSE at + n]
              /\ v0' = n
              /\ UNCHANGED <<cwd, buf>>

PosixSeek(fd, off, whence) ==
    \/ fd \notin DOMAIN desc /\ Fails
    \/ fd \in DOMAIN desc /\ desc[fd] = Tty /\ Fails
    \/ /\ fd \in DOMAIN desc /\ desc[fd] # Tty
       /\ LET d == desc[fd]
              to == off + (CASE whence = 0 -> 0 [] whence = 1 -> d.pos [] whence = 2 -> Len(files[d.path]))
          IN  \/ to < 0 /\ Fails
              \/ /\ to \in 0 .. MaxLen
                 /\ desc' = [desc EXCEPT ![fd].pos = to]
                 /\ v0' = to
                 /\ UNCHANGED <<cwd, files, buf>>

PosixClose(fd) ==
    \/ fd \notin DOMAIN desc /\ Fails
    \/ /\ fd \in DOMAIN desc
       /\ desc' = [d \in DOMAIN desc \ {fd} |-> desc[d]]
       /\ v0' = 0
       /\ UNCHANGED <<cwd, files, buf>>

PosixChdir(dir) ==
    \/ dir \notin Dirs /\ Fails
    \/ dir \in Dirs /\ cwd' = dir /\ v0' = 0 /\ UNCHANGED <<desc, files, buf>>
=============================================================================
