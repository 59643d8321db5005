------------------------------ MODULE Database ------------------------------
(***************************************************************************)
(* Opening the application's database (db/mod.rs, db/crypto.rs): the key   *)
(* file, the versioned migrations, the rows of the built-in agents and the *)
(* import of an older program's configuration file, and what the program   *)
(* keeps there while it runs.  The files outlive the process, which may    *)
(* end between any two steps; the build that runs next may be another one. *)
(*                                                                         *)
(* Migration v adds one item to the schema, numbered v: a table or a       *)
(* column.  The statements of a migration are one step; a batch cut short  *)
(* is one that has added nothing, for it is run again.                     *)
(***************************************************************************)
EXTENDS Naturals, FiniteSets

CONSTANTS
    Builds,      \* builds of the program: the last migration each one knows
    BuiltIns(_), \* builtin_agents of a build
    MaxOpens,    \* bound: launches
    MaxEntered   \* bound: keys the user enters

ASSUME DatabaseAssumption ==
    Builds \subseteq 1..7 /\ MaxOpens \in Nat /\ MaxEntered \in Nat

VARIABLES
    items,     \* the schema on disk
    version,   \* MAX(version) of _migrations
    agents,    \* the built-in rows of agents
    saved_tabs,\* the agents that rows of terminal_tabs refer to
    api_key,   \* the value in one provider's row, 0 for no row
    key_file,  \* "absent", "short" or "whole"
    legacy,    \* whether shuru.json is there
    build,     \* the build that runs, 0 for none
    opening,   \* where Database::open is; "open" once the program runs
    swallowed, \* ghost: migrations recorded although their statement failed
    entered,   \* ghost: keys the user has entered so far
    stayed,    \* ghost: shuru.json outlived a start
    opens
disk_vars == <<items, version, agents, saved_tabs, api_key, key_file, legacy>>
database_vars == <<disk_vars, build, opening, swallowed, entered, stayed, opens>>

LegacyValue == 1
Entered(n) == LegacyValue + n
AllAgents == UNION {BuiltIns(b) : b \in Builds}
At(step, v) == [step |-> step, of |-> v]
NotRunning == At("none", 0)
IsOpen == opening.step = "open"

DatabaseTypeOK ==
    /\ items \subseteq 1..7 /\ version \in 0..7
    /\ agents \subseteq AllAgents /\ saved_tabs \subseteq AllAgents
    /\ api_key \in Nat /\ key_file \in {"absent", "short", "whole"} /\ legacy \in BOOLEAN
    /\ build \in Builds \cup {0}
    /\ opening \in [step : {"none", "key", "migrate", "record", "ensure", "sync",
                            "import", "rename", "open"}, of : 0..7]
    /\ swallowed \subseteq 1..7 /\ entered \in 0..MaxEntered /\ stayed \in BOOLEAN
    /\ opens \in 0..MaxOpens

(* A new installation, or one an earlier build left with version 4 recorded*)
(* and its table not created.                                              *)
DatabaseInit ==
    /\ \/ items = {} /\ version = 0 /\ key_file = "absent"
       \/ items = 1..3 /\ version = 4 /\ key_file = "whole"
    /\ agents = {} /\ saved_tabs = {} /\ api_key = 0
    /\ legacy \in BOOLEAN
    /\ build = 0 /\ opening = NotRunning
    /\ swallowed = {} /\ entered = 0 /\ stayed = FALSE /\ opens = 0

-----------------------------------------------------------------------------
(* main opens the database before anything else; an error ends it.         *)
Launches(b) ==
    /\ build = 0 /\ opens < MaxOpens
    /\ build' = b /\ opens' = opens + 1 /\ opening' = At("key", 0)
    /\ UNCHANGED <<disk_vars, swallowed, entered, stayed>>

Ended == build' = 0 /\ opening' = NotRunning

(* Quit or killed, wherever it is; or a step of open returned an error.    *)
Ends ==
    /\ build # 0 /\ Ended
    /\ UNCHANGED <<disk_vars, swallowed, entered, stayed, opens>>

(* Written in place: a program that ends meanwhile leaves a part of it,    *)
(* which no later start accepts.                                           *)
load_or_create_key ==
    /\ opening.step = "key"
    /\ \/ /\ key_file # "short" /\ key_file' = "whole"
          /\ opening' = At("migrate", 1) /\ UNCHANGED build
       \/ key_file = "absent" /\ key_file' = "short" /\ Ended
    /\ UNCHANGED <<items, version, agents, saved_tabs, api_key, legacy,
                   swallowed, entered, stayed, opens>>

(* The migrations in turn, those that are recorded passed over; after the  *)
(* last, the tables of 4 and 6 are made sure of.                           *)
After(v) == IF v < build THEN At("migrate", v + 1) ELSE At("ensure", 0)

(* A variant in which 5 and 7 do as 2 and 3.                               *)
IgnoresAllErrors == {2, 3, 5, 7}
(* ALTER TABLE (2, 3, 5 and 7) fails on a column that is there, and nobody *)
(* minds; 2 and 3 ignore every other error too.                            *)
IgnoresErrors == {2, 3}

Migrates ==
    LET v == opening.of IN
    /\ opening.step = "migrate"
    /\ \/ v <= version /\ opening' = After(v) /\ UNCHANGED <<items, swallowed>>
       \/ /\ v > version /\ opening' = At("record", v)
          /\ items' = items \cup {v} /\ UNCHANGED swallowed
       \/ /\ v > version /\ opening' = At("record", v)
          /\ v \in IgnoresErrors /\ swallowed' = swallowed \cup {v} /\ UNCHANGED items
    /\ UNCHANGED <<version, agents, saved_tabs, api_key, key_file, legacy, build,
                   entered, stayed, opens>>

Records ==
    /\ opening.step = "record"
    /\ version' = opening.of /\ opening' = After(opening.of)
    /\ UNCHANGED <<items, agents, saved_tabs, api_key, key_file, legacy, build,
                   swallowed, entered, stayed, opens>>

(* Of the tables this build knows.                                         *)
EnsuresTables ==
    /\ opening.step = "ensure" /\ opening' = At("sync", 0)
    /\ items' = items \cup {v \in {4, 6} : v <= build}
    /\ UNCHANGED <<version, agents, saved_tabs, api_key, key_file, legacy, build,
                   swallowed, entered, stayed, opens>>

(* Rows of other builds' agents are deleted, and the build's own inserted. *)
(* A saved tab that refers to a row makes its deletion fail, and the start.*)
sync_builtin_agents ==
    /\ opening.step = "sync" /\ opening' = At("import", 0)
    /\ (agents \ BuiltIns(build)) \cap saved_tabs = {}
    /\ agents' = BuiltIns(build)
    /\ UNCHANGED <<items, version, saved_tabs, api_key, key_file, legacy, build,
                   swallowed, entered, stayed, opens>>

(* The old program's file goes into the vault, errors ignored; one that    *)
(* cannot be read is left.                                                 *)
ImportsKey ==
    /\ opening.step = "import"
    /\ \/ legacy /\ api_key' \in {LegacyValue, api_key} /\ opening' = At("rename", 0) /\ UNCHANGED stayed
       \/ opening' = At("open", 0) /\ stayed' = (stayed \/ legacy) /\ UNCHANGED api_key
    /\ UNCHANGED <<items, version, agents, saved_tabs, key_file, legacy, build,
                   swallowed, entered, opens>>

(* Then it is renamed, errors ignored.                                     *)
Renames ==
    /\ opening.step = "rename" /\ opening' = At("open", 0)
    /\ legacy' \in BOOLEAN /\ stayed' = (stayed \/ legacy')
    /\ UNCHANGED <<items, version, agents, saved_tabs, api_key, key_file, build,
                   swallowed, entered, opens>>

-----------------------------------------------------------------------------
(* The program runs.                                                       *)
save_secret ==
    /\ IsOpen /\ entered < MaxEntered
    /\ entered' = entered + 1 /\ api_key' = Entered(entered')
    /\ UNCHANGED <<items, version, agents, saved_tabs, key_file, legacy, build,
                   opening, swallowed, stayed, opens>>

save_checkpointed_tab(a) ==
    /\ IsOpen /\ a \in agents /\ saved_tabs' = saved_tabs \cup {a}
    /\ UNCHANGED <<items, version, agents, api_key, key_file, legacy, build,
                   opening, swallowed, entered, stayed, opens>>

delete_checkpointed_tab(a) ==
    /\ IsOpen /\ saved_tabs' \in {saved_tabs, saved_tabs \ {a}}
    /\ UNCHANGED <<items, version, agents, api_key, key_file, legacy, build,
                   opening, swallowed, entered, stayed, opens>>

DatabaseNext ==
    \/ \E b \in Builds : Launches(b)
    \/ Ends
    \/ load_or_create_key \/ Migrates \/ Records \/ EnsuresTables
    \/ sync_builtin_agents \/ ImportsKey \/ Renames
    \/ save_secret
    \/ \E a \in AllAgents : save_checkpointed_tab(a) \/ delete_checkpointed_tab(a)

DatabaseSpec == DatabaseInit /\ [][DatabaseNext]_database_vars

-----------------------------------------------------------------------------
(* A program that runs has the schema its queries name, whatever starts of *)
(* it and of other builds were cut short; only auto_launch_agent and the   *)
(* secrets' enabled may be missing, and only where their ALTER TABLE had   *)
(* an error that migrate ignored.                                          *)
SchemaIsWhole == IsOpen => 1..build \ items \subseteq swallowed \cap {2, 3}

(* A key the user entered is not replaced by the old program's, imported   *)
(* at some start, unless that file outlived an earlier start.              *)
EnteredKeyStays == entered > 0 /\ ~stayed => api_key = Entered(entered)

(* A saved tab has its agent, and a program that runs has all of its own.  *)
TabsHaveAgents == saved_tabs \subseteq agents /\ (IsOpen => agents = BuiltIns(build))

(* What a start, the migrations of all builds and the imports leave.       *)
DatabaseIsWhole == SchemaIsWhole /\ EnteredKeyStays /\ TabsHaveAgents

(* What follows is said of the code, and the code does not keep it         *)
(* (README, section 7).                                                    *)

(* mod.rs:216 "Rename to .bak so we don't re-import": a failed rename is   *)
(* ignored, and the next start imports the old keys over newer ones.       *)
ImportedOnce == entered > 0 => api_key = Entered(entered)
=============================================================================
