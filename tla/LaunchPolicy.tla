----------------------------- MODULE LaunchPolicy -----------------------------
(***************************************************************************)
(* What MacaGuardImpl::Initialize (runtime/maca_guard_impl.cc) makes of    *)
(* the command line and of the environment of the process.                 *)
(*                                                                         *)
(* An argument is a name and a value: "--name value" are two of them, a    *)
(* name alone and a value alone, "--name=value" is one.                    *)
(***************************************************************************)
EXTENDS Integers, Sequences, SequencesExt

None == "none"
Flag == "--tensor_parallel"
Name(n) == [name |-> n, value |-> None]
Word(v) == [name |-> None, value |-> v]
Pair(n, v) == [name |-> n, value |-> v]
EmptyArg == Word("")

Unset == "unset"

-----------------------------------------------------------------------------

Args(cmdline) == SelectSeq(cmdline, LAMBDA a : a # EmptyArg)

(* The texts std::stoi takes, and the catch around it for any other.         *)
Numerals == <<"1", "2", "3", "4">>
Parsed(v) == IF v \in Range(Numerals) THEN CHOOSE n \in DOMAIN Numerals : Numerals[n] = v ELSE 1

(* The first argument that has a value decides.                              *)
ReadTensorParallelFromCmdline(cmdline) ==
    LET args == Args(cmdline)
        Ones == {i \in DOMAIN args : args[i].name = Flag /\ (args[i].value # None \/ i < Len(args))}
        first == CHOOSE i \in Ones : \A j \in Ones : i <= j
    IN  IF Ones = {} THEN 1
        ELSE IF args[first].value # None THEN Parsed(args[first].value)
        ELSE IF args[first + 1].name # None THEN 1 ELSE Parsed(args[first + 1].value)

SetEnvAlways(env, name, value) == [env EXCEPT ![name] = value]

(* setenv without overwriting.                                               *)
SetEnv(env, name, value) == IF env[name] = Unset THEN [env EXCEPT ![name] = value] ELSE env

Initialize(c) ==
    IF ~c.workarounds THEN c.env
    ELSE LET blocking == SetEnv(c.env, "MACA_LAUNCH_BLOCKING", "1")
         IN  IF ReadTensorParallelFromCmdline(c.cmdline) > 1 THEN SetEnv(blocking, "MCCL_P2P_DISABLE", "1") ELSE blocking

-----------------------------------------------------------------------------

(* What the command line says of tensor parallelism, for a launcher that     *)
(* reads its flags one after another.                                        *)
Given(cmdline) ==
    {cmdline[i].value : i \in {j \in DOMAIN cmdline : cmdline[j].name = Flag /\ cmdline[j].value # None}}
    \cup {cmdline[i + 1].value : i \in {j \in DOMAIN cmdline : /\ cmdline[j] = Name(Flag) /\ j < Len(cmdline)
                                                              /\ cmdline[j + 1].name = None}}
Plain(cmdline) ==
    /\ Cardinality({i \in DOMAIN cmdline : cmdline[i].name = Flag}) <= 1
    /\ \A i \in DOMAIN cmdline : cmdline[i] = Name(Flag) => i < Len(cmdline) /\ cmdline[i + 1].name = None
    /\ Given(cmdline) \subseteq Range(Numerals)

Wanted(c, name) ==
    IF c.env[name] # Unset THEN c.env[name]
    ELSE IF c.workarounds /\ (name = "MCCL_P2P_DISABLE" => Given(c.cmdline) \subseteq Range(Numerals) \ {"1"}
                                                         /\ Given(c.cmdline) # {}) THEN "1"
    ELSE Unset
===============================================================================
