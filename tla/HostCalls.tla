----------------------------- MODULE HostCalls -----------------------------
(***************************************************************************)
(* _monitorBody (profileMips.cc), one action per reason: what each call    *)
(* asks of the host, and what it leaves in the registers and the memory of *)
(* the simulated program.  That a call flushes the cache and returns to    *)
(* register 31 is in Interp and SimCache, the clock of reason 33 without   *)
(* --clock in Lifecycle.                                                   *)
(*                                                                         *)
(* Words are functions from lanes, the least significant first, to bytes.  *)
(* A byte of a value of the host is <<what value, which lane>>.            *)
(***************************************************************************)
EXTENDS HostFiles

CONSTANTS
    Flags, Offsets,         \* words of flags as sets of bits, offsets of seeks
    MARGS,          \* 20
    Filename,               \* the program's name
    Modes,                  \* byte orders, --clock, and --args as words and spaces
    MaxCalls,               \* bound
    HostWords, MyTimeStart, MyTimeStep, MaxTime     \* 2^20, 100, and a bound

ASSUME HostCallsAssumption ==
    /\ MARGS \in Nat /\ HostWords \cup Offsets \subseteq Int /\ {MyTimeStart, MyTimeStep} \subseteq Int
    /\ \A m \in Modes : m.el \in BOOLEAN /\ m.args \in Seq(STRING)

VARIABLES
    isMipsEL, enClockFuncts, args,      \* byte order, --clock, --args
    myTime,                             \* the fake time
    calls,                              \* counts against MaxCalls
    call, asked,                        \* the last call, what it was asked of a file: history
    told,                               \* the words it left in memory, as the program reads them
    strings                             \* the strings it left at the program's pointers
hcVars == <<fileVars, isMipsEL, enClockFuncts, args, myTime, calls, call, asked, told, strings>>

Files == INSTANCE FileService
Host == INSTANCE ByteWords WITH ByteBits <- {0}, SignBit <- 0, UnitBit <- 0

Cut(w, n) == [l \in 0 .. n - 1 |-> w[l]]                    \* conversion to n bytes
Value(what) == [l \in 0 .. 7 |-> <<what, l>>]
Zero == [l \in 0 .. 7 |-> <<"zero", 0>>]
K1SIZE == [l \in 0 .. 7 |-> IF l = 3 THEN <<"byte", 128>> ELSE <<"zero", 0>>]

(* bswap<EL> of a host's value converted to n bytes, stored in size bytes; *)
(* and what the program reads there.                                       *)
Swapped(w, n, size) == Cut(Host!Bswap(isMipsEL, Cut(w, n), n), size)
AsRead(w, size) == Host!Bswap(isMipsEL, Cut(w, size), size)

(* Variant for the mutants: bswap is given 32 bits for every field.        *)
StatFieldsWide == [
    st_dev |-> <<4, 2>>, st_ino |-> <<4, 2>>, st_mode |-> <<4, 4>>, st_nlink |-> <<4, 2>>,
    st_uid |-> <<4, 2>>, st_gid |-> <<4, 2>>, st_size |-> <<4, 4>>, st_atime |-> <<4, 4>>,
    st_blksize |-> <<4, 4>>, st_blocks |-> <<4, 4>>]

(* What each field of stat32_t is converted to before it is swapped, and   *)
(* its size.                                                               *)
StatFields == [
    st_dev |-> <<4, 2>>, st_ino |-> <<2, 2>>, st_mode |-> <<4, 4>>, st_nlink |-> <<2, 2>>,
    st_uid |-> <<2, 2>>, st_gid |-> <<2, 2>>, st_size |-> <<4, 4>>, st_atime |-> <<4, 4>>,
    st_blksize |-> <<4, 4>>, st_blocks |-> <<4, 4>>]

-----------------------------------------------------------------------------
(* Variant for the mutants: the host's append and truncate are exchanged.  *)
hostIOFlagsSwapped == <<{}, {0}, {1}, {9}, {6}, {10}, {7}, {12, 20}, {11}, {8}>>

(* The flags of open, bit by bit: the program's and the host's.            *)
simIOFlags == <<{}, {0}, {1}, {3}, {9}, {10}, {11}, {13}, {14}, {15}>>
hostIOFlags == <<{}, {0}, {1}, {10}, {6}, {9}, {7}, {12, 20}, {11}, {8}>>

remapIOFlags(flags) ==
    UNION {hostIOFlags[k] : k \in {j \in 1 .. Len(simIOFlags) : flags \cap simIOFlags[j] # {}}}

HostMeaning(flags) ==
    [acc |-> CASE 1 \in flags -> "rw" [] 0 \in flags -> "w" [] OTHER -> "r",
     append |-> 10 \in flags, creat |-> 6 \in flags, trunc |-> 9 \in flags, excl |-> 7 \in flags]

(* buildArgcArgv: the file name and at most MARGS words behind it.         *)
sysArgv ==
    LET largs[n \in 0 .. Len(args)] ==
          IF n = 0 THEN <<Filename>>
          ELSE IF args[n] # " " /\ Len(largs[n - 1]) <= MARGS THEN Append(largs[n - 1], args[n])
          ELSE largs[n - 1]
    IN  largs[Len(args)]

HcInit ==
    /\ FilesInit
    /\ \E m \in Modes : isMipsEL = m.el /\ enClockFuncts = m.clock /\ args = m.args
    /\ myTime = MyTimeStart /\ calls = 0
    /\ call = "" /\ asked = << >> /\ told = << >> /\ strings = << >>

-----------------------------------------------------------------------------
Call(name, words) ==
    /\ calls < MaxCalls /\ calls' = calls + 1
    /\ call' = name /\ told' = words
    /\ UNCHANGED <<isMipsEL, enClockFuncts, args>>
Quiet == UNCHANGED <<myTime, strings>>
OtherCall(name, words) == Call(name, words) /\ asked' = << >>
FileCall(name, with) == Call(name, << >>) /\ asked' = with /\ Quiet

OpenCall ==
    \E name \in Names, flags \in Flags :
        FileCall("open", <<name, flags>>) /\ PosixOpen(name, HostMeaning(remapIOFlags(flags)))

ReadCall ==
    \E fd \in -1 .. MaxFd + 1, n \in 0 .. BufLen : FileCall("read", <<fd, n>>) /\ PosixRead(fd, n)
WriteCall ==
    \E fd \in -1 .. MaxFd + 1, n \in 0 .. BufLen : FileCall("write", <<fd, n>>) /\ PosixWrite(fd, n)

SeekCall ==
    \E fd \in -1 .. MaxFd + 1, off \in Offsets, whence \in 0 .. 2 :
        FileCall("lseek", <<fd, off, whence>>) /\ PosixSeek(fd, off, whence)

CloseCall ==
    \E fd \in -1 .. MaxFd + 1 :
        /\ FileCall("close", <<fd>>)
        /\ IF fd > 2 THEN PosixClose(fd) ELSE v0' = 0 /\ UNCHANGED <<cwd, desc, files, buf>>

(* The structure is filled in when the call fails too, from a native_stat  *)
(* nothing was read into.                                                  *)
FstatCall ==
    LET Filled(native) == [f \in DOMAIN StatFields |->
            AsRead(Swapped(native[f], StatFields[f][1], StatFields[f][2]), StatFields[f][2])]
        read == [f \in DOMAIN StatFields |-> Value(f)]
        unread == [f \in DOMAIN StatFields |-> Value("stack")]
    IN  /\ \E fd \in -1 .. MaxFd + 1 :
              \/ fd \in DOMAIN desc /\ v0' = 0 /\ OtherCall("fstat", Filled(read))
              \/ fd \notin DOMAIN desc /\ v0' = -1 /\ OtherCall("fstat", Filled(unread))
        /\ UNCHANGED <<cwd, desc, files, buf>> /\ Quiet

GetTimeOfDayCall ==
    /\ enClockFuncts
    /\ v0' = 0
    /\ OtherCall("gettimeofday", [f \in {"tv_sec", "tv_usec"} |-> AsRead(Swapped(Value(f), 4, 4), 4)])
    /\ UNCHANGED <<cwd, desc, files, buf>> /\ Quiet

TmsFields == {"tms_utime", "tms_stime", "tms_cutime", "tms_cstime"}

TimesCall ==
    /\ \/ /\ enClockFuncts /\ v0' \in HostWords
          /\ OtherCall("times", [f \in TmsFields |-> AsRead(Swapped(Value(f), 4, 4), 4)])
          /\ UNCHANGED myTime
       \/ /\ ~enClockFuncts /\ v0' = myTime
          /\ OtherCall("times", [f \in TmsFields |-> AsRead(Zero, 4)])
          /\ myTime < MaxTime /\ myTime' = myTime + MyTimeStep
    /\ UNCHANGED <<cwd, desc, files, buf, strings>>

(* The program has put pointer k at place k of the array; it stored it in  *)
(* its own byte order.                                                     *)
Stored(k) == Host!Bswap(isMipsEL, Cut(Value(k), 4), 4)

Pointer(k) == Host!Bswap(isMipsEL, Stored(k), 4)

(* strcpy of each argument, MARGS at most, to the program's pointer.       *)
GetArgsCall ==
    LET copied == 1 .. Min({MARGS, Len(sysArgv)})
    IN  /\ OtherCall("getargs", << >>)
        /\ strings' = [p \in {Pointer(k) : k \in copied} |->
                          sysArgv[CHOOSE k \in copied : Pointer(k) = p]]
        /\ v0' = Len(sysArgv)
        /\ UNCHANGED <<cwd, desc, files, buf, myTime>>

(* getcwd returns its buffer whether or not the host's call did anything.  *)
GetcwdCall ==
    /\ OtherCall("getcwd", [name |-> cwd])
    /\ v0' \in HostWords            \* a0, an address
    /\ UNCHANGED <<cwd, desc, files, buf>> /\ Quiet

ChdirCall == \E dir \in Dirs \cup {"missing"} : FileCall("chdir", <<dir>>) /\ PosixChdir(dir)

GetMemInfoCall ==
    /\ OtherCall("get_mem_info",
            [memory |-> AsRead(Swapped(K1SIZE, 4, 4), 4), icache |-> AsRead(Zero, 4), dcache |-> AsRead(Zero, 4)])
    /\ UNCHANGED <<cwd, desc, files, buf, v0>> /\ Quiet

(* The program writes to its buffer.                                       *)
Prepare ==
    /\ buf' \in [1 .. BufLen -> Data]
    /\ OtherCall("", << >>)
    /\ UNCHANGED <<cwd, desc, files, v0>> /\ Quiet

HcNext ==
    \/ OpenCall \/ ReadCall \/ WriteCall \/ SeekCall \/ CloseCall \/ FstatCall
    \/ GetTimeOfDayCall \/ TimesCall \/ GetArgsCall \/ GetcwdCall \/ ChdirCall
    \/ GetMemInfoCall \/ Prepare

HcSpec == HcInit /\ [][HcNext]_hcVars

-----------------------------------------------------------------------------
(* Shape of the state.                                                     *)
HcTypeOK ==
    /\ Streams \subseteq DOMAIN desc /\ DOMAIN desc \subseteq 0 .. MaxFd
    /\ \A fd \in DOMAIN desc \ Streams :
          desc[fd].path \in DOMAIN files /\ desc[fd].pos \in 0 .. MaxLen
    /\ DOMAIN files \subseteq Dirs \X Names
    /\ \A p \in DOMAIN files : files[p] \in Seq(Data) /\ Len(files[p]) <= MaxLen
    /\ buf \in [1 .. BufLen -> Data] /\ v0 \in Int

(* The monitor implements the file service: a call does to the descriptor  *)
(* and the name the program passed what the service says, an open what the *)
(* program's own flags mean, although the host is asked with others, and   *)
(* no call loses a standard stream (remapIOFlags, _monitorBody).           *)
ImplementsService == Files!Service

(* What the program reads in its own byte order where a call has left a    *)
(* structure is the host's value, cut to the field; only the device of a   *)
(* big-endian program, swapped with 32 bits and cut to 16 afterwards       *)
(* (profileMips.cc:730), is not.                                           *)
StructuresRead ==
    /\ call = "fstat" /\ v0 = 0 =>
          \A f \in DOMAIN told :
             f # "st_dev" \/ isMipsEL => told[f] = Cut(Value(f), StatFields[f][2])
    /\ call \in {"gettimeofday", "times"} /\ enClockFuncts =>
          \A f \in DOMAIN told : told[f] = Cut(Value(f), 4)
    /\ call = "get_mem_info" => told.memory = Cut(K1SIZE, 4)

(* A program that asks for its arguments finds its name and the words of   *)
(* --args in order at its own pointers, as many as getargs returned, except *)
(* that MARGS words and a name are one more than it copies                 *)
(* (profileMips.cc:777).                                                   *)
ArgumentsDelivered ==
    LET words[n \in 0 .. Len(args)] ==
          IF n = 0 THEN <<Filename>>
          ELSE IF args[n] # " " THEN Append(words[n - 1], args[n]) ELSE words[n - 1]
        given == words[Len(args)]
    IN  call = "getargs" =>
          /\ v0 = Min({Len(given), MARGS + 1})
          /\ \A k \in 1 .. Min({v0, MARGS}) :
                /\ Cut(Value(k), 4) \in DOMAIN strings
                /\ strings[Cut(Value(k), 4)] = given[k]

(* Everything a call leaves in the program's memory can be read there as   *)
(* what it is (_monitorBody), and files and descriptors stay well formed.  *)
ResultsReadable == HcTypeOK /\ StructuresRead /\ ArgumentsDelivered
=============================================================================
