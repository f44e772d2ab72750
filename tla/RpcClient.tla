------------------------------- MODULE RpcClient --------------------------------
(* RPCClientApplication and RPCClientImpl: a program that connects to its     *)
(* server again and again on one thread while another starts it, reads the    *)
(* configuration it saved last time and asks the server for a newer one.  The *)
(* server may send more to a method of the program, which saves them with     *)
(* updateAndSaveConfig: several calls at once, and from the first connection  *)
(* on, while the starting thread still reads, asks and saves.  The program    *)
(* may be killed at any time and is started again on what is in the file.     *)
EXTENDS Naturals

CONSTANTS Configs,          \* what the server may want the program to run on
          Short,            \* those of at most seven characters, that are not reliable
          NoConfig,
          OneLine,          \* those that encryptStr saves in one line: it is given one for each member,
                            \* and as it comes returns what it is given
          Calls,            \* of the method, that may go on at once
          MaxBoots,         \* starts of the program
          MaxChanges        \* changes of the server's configuration and of the keys' files

ASSUME RpcClientAssumption == Short \subseteq Configs /\ NoConfig \notin Configs /\ "start" \notin Calls

VARIABLES program,      \* where the starting thread is, starts so far, failedToRetrieveC2Config; and for
                        \* the properties, torn: a writing was cut short, or two savings crossed
          memory,       \* jRetrievedConfig
          disk,         \* the file: what it holds, and whether it is whole
          savers,       \* who saves a configuration: the starting thread, the method's calls
          link,         \* the thread that connects
          keysOk,       \* whether the keys' files can be loaded
          c2            \* the server: its configuration, changes so far

rcvars == <<program, memory, disk, savers, link, keysOk, c2>>

NoSaving == [at |-> "idle", config |-> NoConfig]
Whole(c) == [config |-> c, whole |-> TRUE]
Cut == [config |-> NoConfig, whole |-> FALSE]
\* The certificates and their keys, or the pre-shared key (its file, or the program's default): whether they load.
KeysLoad == keysOk
Connected == link.at = "processing"
Alive == program.at # "off"

\* The process ends, by _exit in one of its threads or from outside: only the file is left.
Off ==
    /\ program' = [program EXCEPT !.at = "off", !.failed = FALSE, !.torn = FALSE]
    /\ memory' = NoConfig
    /\ savers' = [w \in DOMAIN savers |-> NoSaving]
    /\ link' = [at |-> "off"]

---- \* Saving

Saver(who, at) == savers[who].at = at
SaverMoves(who, at) == savers' = [savers EXCEPT ![who].at = at]

\* Nothing is written when it is what the program runs on already, or too short.
Begins(c) ==
    IF c = memory THEN "same" ELSE IF c \in Short THEN "refused" ELSE "opening"

\* Between opening the file and taking over what was written.
InFile(who) == savers[who].at \in {"writing", "remembering"}
FileOpened(who) ==
    /\ SaverMoves(who, "writing") /\ disk' = Cut
    /\ program' = [program EXCEPT !.torn = \E other \in DOMAIN savers \ {who} : InFile(other)]

\* The file is emptied when it is opened; when that fails the program stays with what it had.
\* Variant: the program runs on the new configuration before it is saved.
OpensAfterwards(who) ==
    /\ Saver(who, "opening")
    /\ FileOpened(who) \/ (SaverMoves(who, "failed") /\ UNCHANGED <<disk, program>>)
    /\ memory' = savers[who].config
    /\ UNCHANGED <<link, keysOk, c2>>
Opens(who) ==
    /\ Saver(who, "opening")
    /\ FileOpened(who) \/ (SaverMoves(who, "failed") /\ UNCHANGED <<disk, program>>)
    /\ UNCHANGED <<memory, link, keysOk, c2>>
\* Neither the writing nor the closing is looked at: with a full disk, or over what another
\* saving writes, the file may hold no whole text, and the program goes on as if it did.
SaverWrites(who) ==
    /\ Saver(who, "writing")
    /\ SaverMoves(who, "remembering")
    /\ \/ disk' = Whole(savers[who].config) /\ UNCHANGED program
       \/ disk' = Cut /\ program' = [program EXCEPT !.torn = TRUE]
    /\ UNCHANGED <<memory, link, keysOk, c2>>
Remembers(who) ==
    /\ Saver(who, "remembering")
    /\ memory' = savers[who].config
    /\ SaverMoves(who, "reporting")
    /\ UNCHANGED <<program, disk, link, keysOk, c2>>
\* updateClientConfigLoadTimeCmd: whatever is answered is only logged.
Reports(who) ==
    /\ Saver(who, "reporting")
    /\ SaverMoves(who, "saved")
    /\ UNCHANGED <<program, memory, disk, link, keysOk, c2>>
Saves == \E who \in DOMAIN savers :
    Opens(who) \/ SaverWrites(who) \/ Remembers(who) \/ Reports(who)

---- \* The starting thread

\* _initvars and _config: the directory and the file of the program's own options.
Boots ==
    /\ program.at = "off" /\ program.boots < MaxBoots
    /\ program' = [program EXCEPT !.at = "checking", !.boots = @ + 1]
    /\ UNCHANGED <<memory, disk, savers, link, keysOk, c2>>
\* _start: keys that cannot be loaded end the program; then the connecting thread is there.
Checks ==
    /\ program.at = "checking"
    /\ IF KeysLoad
       THEN /\ program' = [program EXCEPT !.at = "loading"]
            /\ link' = [link EXCEPT !.at = "connecting"]
            /\ UNCHANGED <<memory, savers>>
       ELSE Off
    /\ UNCHANGED <<disk, keysOk, c2>>
\* One line is read, and parsed: the first of several is not a configuration.
retrieveConfigFromLocalFile ==
    /\ program.at = "loading"
    /\ memory' = IF disk.whole /\ disk.config \in OneLine THEN disk.config ELSE memory
    /\ program' = [program EXCEPT !.at = "asking", !.failed = FALSE]
    /\ UNCHANGED <<disk, savers, link, keysOk, c2>>
\* getClientConfigCmd, tried for a while when there is no connection.
retrieveConfigFromC2 ==
    /\ program.at = "asking"
    /\ \/ /\ Connected
          /\ program' = [program EXCEPT !.at = "saving"]
          /\ savers' = [savers EXCEPT !["start"] = [at |-> Begins(c2.config), config |-> c2.config]]
       \/ /\ program' = [program EXCEPT !.at = "saving"]
          /\ savers' = [savers EXCEPT !["start"].at = "refused"]
    /\ UNCHANGED <<memory, disk, link, keysOk, c2>>
Retrieved ==
    /\ program.at = "saving"
    /\ savers["start"].at \in {"same", "saved", "refused", "failed"}
    /\ program' = [program EXCEPT !.at = "started", !.failed = savers["start"].at \in {"refused", "failed"}]
    /\ savers' = [savers EXCEPT !["start"] = NoSaving]
    /\ UNCHANGED <<memory, disk, link, keysOk, c2>>

---- \* The connecting thread

\* The keys are loaded again for each connection; the program ends when they are gone.
ClientConnects ==
    /\ link.at = "connecting"
    /\ IF KeysLoad
       THEN /\ \E place \in {"connected", "sleeping"} : link' = [link EXCEPT !.at = place]
            /\ UNCHANGED <<program, memory, savers>>
       ELSE Off
    /\ UNCHANGED <<disk, keysOk, c2>>
\* postConnect may refuse.  After a start without the server's configuration the program is called back, and may
\* end there, as it is advised to.
Processes ==
    /\ link.at = "connected"
    /\ \/ /\ link' = [link EXCEPT !.at = "sleeping"]
          /\ UNCHANGED <<program, memory, savers>>
       \/ /\ link' = [link EXCEPT !.at = "processing"]
          /\ UNCHANGED <<program, memory, savers>>
       \/ program.failed /\ Off
    /\ UNCHANGED <<disk, keysOk, c2>>
Disconnected ==
    /\ Connected
    /\ link' = [link EXCEPT !.at = "sleeping"]
    /\ UNCHANGED <<program, memory, disk, savers, keysOk, c2>>
Sleeps ==
    /\ link.at = "sleeping"
    /\ link' = [link EXCEPT !.at = "connecting"]
    /\ UNCHANGED <<program, memory, disk, savers, keysOk, c2>>

\* A method of the program gets a configuration.
updateAndSaveConfig(call) ==
    /\ Connected /\ Saver(call, "idle")
    /\ savers' = [savers EXCEPT ![call] = [at |-> Begins(c2.config), config |-> c2.config]]
    /\ UNCHANGED <<program, memory, disk, link, keysOk, c2>>
Updated(call) ==
    /\ savers[call].at \in {"same", "saved", "refused", "failed"}
    /\ savers' = [savers EXCEPT ![call] = NoSaving]
    /\ UNCHANGED <<program, memory, disk, link, keysOk, c2>>

---- \* Outside

Killed == Alive /\ Off /\ UNCHANGED <<disk, keysOk, c2>>
ChangesConfig ==
    /\ c2.changes < MaxChanges
    /\ \E c \in Configs \ {c2.config} : c2' = [config |-> c, changes |-> c2.changes + 1]
    /\ UNCHANGED <<program, memory, disk, savers, link, keysOk>>
ChangesKeys ==
    /\ c2.changes < MaxChanges
    /\ keysOk' = ~keysOk
    /\ c2' = [c2 EXCEPT !.changes = @ + 1]
    /\ UNCHANGED <<program, memory, disk, savers, link>>

RcInit ==
    /\ program = [at |-> "off", boots |-> 0, failed |-> FALSE, torn |-> FALSE]
    /\ memory = NoConfig
    /\ disk = Cut
    /\ savers = [w \in {"start"} \cup Calls |-> NoSaving]
    /\ link = [at |-> "off"]
    /\ keysOk = TRUE
    /\ c2 \in [config : Configs, changes : {0}]
RcNext ==
    \/ Boots \/ Checks \/ retrieveConfigFromLocalFile \/ retrieveConfigFromC2 \/ Retrieved \/ Saves
    \/ ClientConnects \/ Processes \/ Disconnected \/ Sleeps
    \/ \E call \in Calls : updateAndSaveConfig(call) \/ Updated(call)
    \/ Killed \/ ChangesConfig \/ ChangesKeys
RcSpec == RcInit /\ [][RcNext]_rcvars

---- \* Properties

\* Between two savings the program runs on what its file holds, whenever it was killed before and whatever else
\* failed (the order of updateAndSaveConfig and retrieveConfigFromC2: written, then remembered) - but for the two
\* failures that nobody looks at: the last writing was cut short, or two savings crossed.  That the next start
\* reads it is more than that: it reads what was saved in one line.
RunsOnWhatIsSaved ==
    memory # NoConfig /\ ~program.torn /\ (\A who \in DOMAIN savers : ~InFile(who)) => disk = Whole(memory)
===============================================================================
