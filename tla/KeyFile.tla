------------------------------ MODULE KeyFile -------------------------------
(***************************************************************************)
(* The master key on disk: "vfast_server --keygen" (vfast_cmd_keygen)      *)
(* makes the file in several system calls, every start of a program reads  *)
(* its options (vf_option_conf), which may touch the file, and then loads  *)
(* the key (vfast_load_key).  Several of them run at a time, each of their *)
(* system calls may fail, and the power may fail at any time.              *)
(*                                                                         *)
(* The file is absent, empty, or holds a part of a key or all of it.       *)
(* durable is what a power failure leaves for certain; the name of a new   *)
(* file is taken to reach the disk with the first fdatasync.  The option   *)
(* keyfile names the file that --keygen makes, as in config.conf.          *)
(***************************************************************************)
EXTENDS Integers, Sequences

CONSTANTS
    Gens,               \* processes running --keygen
    Programs,           \* starts of vfast_server and vfast_client
    ConfigFiles,        \* the lines of config files
    MaxKeys             \* bound: keys generated

VARIABLES
    file, durable,
    gen,            \* where each keygen stands
    tmp_key,        \* the key it has drawn
    prog,           \* "off", "options" read, key file "open", or "up"
    master_key,     \* what each program has loaded
    unlinked,       \* what a program's open file holds once its name is gone
    made,           \* keys drawn so far
    reported,       \* the key whose success and disk sync were reported
    stale           \* programs that were up, or had the file open, when it was
                    \* deleted

vars == <<file, durable, gen, tmp_key, prog, master_key, unlinked, made,
          reported, stale>>

Absent == <<"absent">>
Empty == <<"empty">>
Partial == <<"part">>
Key(n) == <<"key", n>>
Nothing == <<"nothing">>
IsKey(c) == c[1] = "key"

Init ==
    /\ file = Absent /\ durable = Absent
    /\ gen = [g \in Gens |-> "off"] /\ tmp_key = [g \in Gens |-> Nothing]
    /\ prog = [p \in Programs |-> "off"]
    /\ master_key = [p \in Programs |-> Nothing]
    /\ unlinked = [p \in Programs |-> Nothing]
    /\ made = 0 /\ reported = Nothing /\ stale = {}

-----------------------------------------------------------------------------
\* The name goes; who has the file open keeps what it holds.
Unlink(affected) ==
    /\ file' = Absent
    /\ unlinked' = [p \in Programs |->
                      IF prog[p] = "open" /\ p \notin stale THEN file ELSE unlinked[p]]
    /\ stale' = stale \cup {p \in Programs : prog[p] \in affected}

\* The key is wiped from memory on every way out.
At(g, from, to) ==
    /\ gen[g] = from
    /\ gen' = [gen EXCEPT ![g] = to]
    /\ tmp_key' = IF to = "off" THEN [tmp_key EXCEPT ![g] = Nothing] ELSE tmp_key

\* A getrandom that fails ends the process before it has done anything.
vf_generate_key(g) ==
    /\ gen[g] = "off" /\ made < MaxKeys
    /\ gen' = [gen EXCEPT ![g] = "drawn"]
    /\ made' = made + 1
    /\ tmp_key' = [tmp_key EXCEPT ![g] = Key(made')]
    /\ UNCHANGED <<file, durable, unlinked, reported, stale>>

\* O_CREAT with O_EXCL.
Create(g) ==
    /\ \/ file = Absent /\ file' = Empty /\ At(g, "drawn", "open")
       \/ UNCHANGED file /\ At(g, "drawn", "off")
    /\ UNCHANGED <<durable, unlinked, made, reported, stale>>

\* A step after which the file is closed and unlinked.
GiveUp(g, from) == At(g, from, "off") /\ Unlink({"open"})

Harden(g) ==
    /\ \/ At(g, "open", "private") /\ UNCHANGED <<file, unlinked, stale>>
       \/ GiveUp(g, "open")
    /\ UNCHANGED <<durable, made, reported>>

\* A short write leaves the file for a moment, then it is unlinked.
Write(g) ==
    /\ \/ /\ \/ At(g, "private", "written") /\ file' = tmp_key[g]
             \/ At(g, "private", "short") /\ file' = Partial
          /\ UNCHANGED <<unlinked, stale>>
       \/ GiveUp(g, "private")
       \/ GiveUp(g, "short")
    /\ UNCHANGED <<durable, made, reported>>

\* Success is reported without a sync.
MutSync(g) ==
    /\ At(g, "written", "off") /\ reported' = tmp_key[g]
    /\ UNCHANGED <<file, durable, unlinked, made, stale>>

\* A failed fdatasync is a warning only; one that succeeds is taken to keep the
\* name of the file as well.
Sync(g) ==
    /\ At(g, "written", "off")
    /\ \/ durable' = file /\ reported' = tmp_key[g]
       \/ UNCHANGED <<durable, reported>>
    /\ UNCHANGED <<file, unlinked, made, stale>>

vfast_cmd_keygen(g) ==
    /\ vf_generate_key(g) \/ Create(g) \/ Harden(g) \/ Write(g) \/ Sync(g)
    /\ UNCHANGED <<prog, master_key>>

-----------------------------------------------------------------------------
\* fopen with "w".
MutTouch(c) == Empty

\* fopen with "a" creates the file that is not there.
Touch(c) == IF c = Absent THEN Empty ELSE c

(***************************************************************************)
(* vf_option_conf, line by line: "skip" stands for blank lines, comments,  *)
(* unknown options and those without a value, "set" for an option whose    *)
(* value passes its check, "bad" for one whose value does not.  The first  *)
(* bad line ends the program; a keyfile line tries to open the file.       *)
(***************************************************************************)
vf_option_conf(lines, c) ==
    LET read == {i \in DOMAIN lines : \A j \in 1 .. i - 1 : lines[j] # "bad"}
    IN  [file |-> IF \E i \in read : lines[i] = "keyfile" THEN Touch(c) ELSE c,
         err |-> \E i \in DOMAIN lines : lines[i] = "bad"]

\* The start of main, up to the options; the file may not open at all.
Options(p, lines) ==
    LET o == vf_option_conf(lines, file)
    IN  /\ prog[p] = "off"
        /\ file' = o.file
        /\ prog' = [prog EXCEPT ![p] = IF o.err THEN "off" ELSE "options"]
        /\ UNCHANGED <<durable, gen, tmp_key, master_key, unlinked, made, reported,
                       stale>>

\* open and fstat, which may fail.
OpenKey(p) ==
    /\ prog[p] = "options"
    /\ \/ file # Absent /\ prog' = [prog EXCEPT ![p] = "open"]
       \/ prog' = [prog EXCEPT ![p] = "off"]
    /\ UNCHANGED <<file, durable, gen, tmp_key, master_key, unlinked, made, reported,
                   stale>>

\* read and close: anything but a whole key ends the program.
ReadKey(p) ==
    LET out_key == IF p \in stale THEN unlinked[p] ELSE file
        up == IsKey(out_key)
    IN  /\ prog[p] = "open"
        /\ prog' = [prog EXCEPT ![p] = IF up THEN "up" ELSE "off"]
        /\ master_key' = [master_key EXCEPT ![p] = IF up THEN out_key ELSE Nothing]
        /\ unlinked' = [unlinked EXCEPT ![p] = Nothing]
        /\ stale' = IF up THEN stale ELSE stale \ {p}
        /\ UNCHANGED <<file, durable, gen, tmp_key, made, reported>>

vfast_load_key(p) == OpenKey(p) \/ ReadKey(p)

Stop(p) ==
    /\ prog[p] = "up"
    /\ prog' = [prog EXCEPT ![p] = "off"]
    /\ master_key' = [master_key EXCEPT ![p] = Nothing]
    /\ stale' = stale \ {p}
    /\ UNCHANGED <<file, durable, gen, tmp_key, unlinked, made, reported>>

-----------------------------------------------------------------------------
\* "Manual deletion required to rotate", while no keygen is running.
Delete ==
    /\ file # Absent /\ \A g \in Gens : gen[g] \in {"off", "drawn"}
    /\ Unlink({"open", "up"})
    /\ durable' = Absent /\ reported' = Nothing
    /\ UNCHANGED <<gen, tmp_key, prog, master_key, made>>

PowerFails ==
    /\ file' \in {file, durable}
                    \cup (IF file # durable /\ file # Absent THEN {Empty} ELSE {})
    /\ durable' = file'
    /\ gen' = [g \in Gens |-> "off"] /\ tmp_key' = [g \in Gens |-> Nothing]
    /\ prog' = [p \in Programs |-> "off"]
    /\ master_key' = [p \in Programs |-> Nothing]
    /\ unlinked' = [p \in Programs |-> Nothing] /\ stale' = {}
    /\ UNCHANGED <<made, reported>>

Next ==
    \/ \E g \in Gens : vfast_cmd_keygen(g)
    \/ \E p \in Programs : \/ \E lines \in ConfigFiles : Options(p, lines)
                           \/ vfast_load_key(p) \/ Stop(p)
    \/ Delete \/ PowerFails

Spec == Init /\ [][Next]_vars

-----------------------------------------------------------------------------
(***************************************************************************)
(* A key whose generation and disk sync were reported stays in the file,   *)
(* on disk too, until an operator deletes it: no other --keygen, no start  *)
(* of a program and no power failure replaces, empties or removes it       *)
(* ("O_EXCL: Atomic check to prevent accidental overwriting", "Sync: ...   *)
(* to ensure persistence").                                                *)
(***************************************************************************)
ReportedKeyKept == reported # Nothing => file = reported /\ durable = reported

(***************************************************************************)
(* A program that is up holds, whole, the key that is in the file, so that *)
(* server and client of one machine have the same one, whenever they were  *)
(* started relative to a --keygen in progress and to power failures;       *)
(* except a program that was up, or about to read the file, when an        *)
(* operator deleted it (vfast_load_key's size check, vf_option_conf,       *)
(* vfast_cmd_keygen).                                                      *)
(***************************************************************************)
HoldsKeyOfFile ==
    \A p \in Programs :
        prog[p] = "up" /\ p \notin stale => IsKey(file) /\ master_key[p] = file
=============================================================================
