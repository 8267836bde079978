------------------------------- MODULE Keystore ------------------------------
(***************************************************************************)
(* The accounts command (cmd/chainbridge/account.go): processes that       *)
(* generate and import keys in one keystore directory, a file for each     *)
(* address.  A command may fail or be interrupted at every step, for       *)
(* instance at the prompt for the new password of importEthKey, which      *)
(* comes when the file has been created.                                   *)
(***************************************************************************)
EXTENDS Integers, FiniteSets

CONSTANTS Addresses,
          Processes,    \* of the accounts command
          MaxCommands   \* bound: how many commands are started

KeystoreAssumption == Addresses # {}

VARIABLES
    directory,   \* the keystore directory: "absent" or "present"
    files,       \* [Addresses -> FileStates]: address.key in the directory
    pc,          \* [Processes -> Pcs]: where a command is
    command,     \* [Processes -> Commands]
    address,     \* [Processes -> Addresses]: of the key it handles
    elsewhere,   \* addresses whose key a command wrote outside the directory
    commands,    \* how many were started
    reported,    \* history: addresses a command has reported success for
    overwritten  \* history: files importKey has truncated and not rewritten

store == <<directory, files, elsewhere>>
vars == <<directory, files, pc, command, address, elsewhere, commands, reported,
          overwritten>>

\* An "empty" file may hold a part of a key; it cannot be decrypted.
FileStates == {"absent", "empty", "key"}
Commands == {"generateKeypair", "importPrivKey", "importEthKey", "importKey"}
Pcs == {"idle", "keystoreDir", "open", "write", "writeElsewhere"}

Init ==
    /\ directory = "absent"
    /\ files = [a \in Addresses |-> "absent"]
    /\ pc = [p \in Processes |-> "idle"]
    /\ command = [p \in Processes |-> "importKey"]
    /\ address = [p \in Processes |-> CHOOSE a \in Addresses : TRUE]
    /\ elsewhere = {}
    /\ commands = 0
    /\ reported = {}
    /\ overwritten = {}
-----------------------------------------------------------------------------
Goto(p, where) == pc' = [pc EXCEPT ![p] = where]

\* A generated key is one nobody has.
Begin(p) ==
    /\ pc[p] = "idle"
    /\ commands < MaxCommands
    /\ commands' = commands + 1
    /\ \E c \in Commands, a \in Addresses :
          /\ c = "generateKeypair" =>
                files[a] = "absent" /\ \A q \in Processes : pc[q] = "idle" \/ address[q] # a
          /\ command' = [command EXCEPT ![p] = c]
          /\ address' = [address EXCEPT ![p] = a]
    /\ Goto(p, "keystoreDir")
    /\ UNCHANGED <<store, reported, overwritten>>

KeystoreDir(p) ==
    /\ pc[p] = "keystoreDir"
    /\ directory' = "present"
    /\ Goto(p, "open")
    /\ UNCHANGED <<files, command, address, elsewhere, commands, reported, overwritten>>

\* os.Mkdir fails, for instance because the parent does not exist.  Only
\* importPrivKey goes on, with an empty path: the root directory.
KeystoreDirFails(p) ==
    /\ pc[p] = "keystoreDir"
    /\ directory = "absent"
    /\ Goto(p, IF command[p] = "importPrivKey" THEN "writeElsewhere" ELSE "idle")
    /\ UNCHANGED <<store, command, address, commands, reported, overwritten>>

\* mutant of MayCreate: O_EXCL is missing
MayTruncate(p) == command[p] # "importKey"

\* os.O_EXCL: an existing file, even an empty one, is an error.
MayCreate(p) == command[p] # "importKey" /\ files[address[p]] = "absent"

OpenFile(p) ==
    /\ pc[p] = "open"
    /\ MayCreate(p)
    /\ files' = [files EXCEPT ![address[p]] = "empty"]
    /\ Goto(p, "write")
    /\ UNCHANGED <<directory, elsewhere, command, address, commands, reported, overwritten>>

\* importKey: the file is truncated, if there is one; it may have been the
\* one to import, which has been read by then.
WriteFile(p) ==
    /\ pc[p] = "open"
    /\ command[p] = "importKey"
    /\ files' = [files EXCEPT ![address[p]] = "empty"]
    /\ overwritten' = overwritten \cup {address[p]}
    /\ Goto(p, "write")
    /\ UNCHANGED <<directory, elsewhere, command, address, commands, reported>>

\* The rest of EncryptAndWriteToFile or WriteFile, and success is reported.
Write(p) ==
    /\ pc[p] = "write"
    /\ files' = [files EXCEPT ![address[p]] = "key"]
    /\ overwritten' = overwritten \ {address[p]}
    /\ reported' = reported \cup {address[p]}
    /\ Goto(p, "idle")
    /\ UNCHANGED <<directory, elsewhere, command, address, commands>>

WriteElsewhere(p) ==
    /\ pc[p] = "writeElsewhere"
    /\ address[p] \notin elsewhere
    /\ elsewhere' = elsewhere \cup {address[p]}
    /\ reported' = reported \cup {address[p]}
    /\ Goto(p, "idle")
    /\ UNCHANGED <<directory, files, command, address, commands, overwritten>>

\* An error is returned, or the process ends; a file that was created stays.
Fails(p) ==
    /\ pc[p] # "idle"
    /\ Goto(p, "idle")
    /\ UNCHANGED <<store, command, address, commands, reported, overwritten>>

Next ==
    \E p \in Processes :
        \/ Begin(p)
        \/ KeystoreDir(p)
        \/ KeystoreDirFails(p)
        \/ OpenFile(p)
        \/ WriteFile(p)
        \/ Write(p)
        \/ WriteElsewhere(p)
        \/ Fails(p)

Spec == Init /\ [][Next]_vars
-----------------------------------------------------------------------------
\* Every variable has its type.
TypeOK ==
    /\ directory \in {"absent", "present"}
    /\ files \in [Addresses -> FileStates]
    /\ pc \in [Processes -> Pcs]
    /\ command \in [Processes -> Commands]
    /\ address \in [Processes -> Addresses]
    /\ elsewhere \subseteq Addresses
    /\ commands \in Nat
    /\ reported \subseteq Addresses
    /\ overwritten \subseteq Addresses

\* A key a command has reported stays in the keystore, where the relayer and
\* accounts list find it, whatever other commands do at the same time and
\* wherever they are interrupted: unless importKey was interrupted while it
\* wrote the same key again, or importPrivKey had no directory to write to.
ReportedIsStored ==
    \A a \in reported : files[a] = "key" \/ a \in overwritten \cup elsewhere
=============================================================================
