----------------------------- MODULE DpkgCache ------------------------------
(***************************************************************************)
(* crates/jlr-measure/src/dpkg.rs: the index of the package database,      *)
(* kept in a cache file under a fingerprint of the database's files while  *)
(* dpkg changes them.                                                      *)
(*                                                                         *)
(* A database file is the number of its version, which its size, times and *)
(* inode tell apart: the fingerprint of a file is its version.  The files  *)
(* are looked at, and later read, one at a time.  A load that fails or is  *)
(* killed leaves the cache as it was; but a list that cannot be read does  *)
(* not fail the load, it counts as empty.                                  *)
(***************************************************************************)
EXTENDS Naturals, Sequences

CONSTANTS
  Files,       \* the files of the database
  Lists,       \* those of Files that list the paths of a package
  MaxChanges,  \* of one file
  MaxLoads, MaxKills,
  MaxBlanks    \* lists that cannot be read

VARIABLES
  db,      \* version of each file of the database
  cache,   \* [fp, index], or NoCache
  load,    \* [at, fp, index, todo]
  before,  \* ghost: db when the load began
  blank,   \* ghost: per file, its latest version that could not be read, or 0
  loads, kills, blanks

dpkgVars == <<db, cache, load, before, blank, loads, kills, blanks>>

Nothing == [f \in Files |-> 0]                   \* 0 in an index: the file counts as empty
NoCache == [fp |-> Nothing, index |-> Nothing]   \* versions start at 1: no fingerprint is Nothing
Resting == [at |-> "rest", fp |-> Nothing, index |-> Nothing, todo |-> {}]

\* dpkg rewrites one of its files.
Change ==
  /\ \E f \in Files : db[f] <= MaxChanges /\ db' = [db EXCEPT ![f] = @ + 1]
  /\ UNCHANGED <<cache, load, before, blank, loads, kills, blanks>>

\* load_cached begins with the fingerprint.
Begin ==
  /\ load.at \in {"rest", "loaded"} /\ loads < MaxLoads /\ loads' = loads + 1
  /\ load' = [Resting EXCEPT !.at = "fingerprint", !.todo = Files]
  /\ before' = db
  /\ UNCHANGED <<db, cache, blank, kills, blanks>>

Fingerprint ==
  /\ load.at = "fingerprint"
  /\ \E f \in load.todo : load' = [load EXCEPT !.fp[f] = db[f], !.todo = @ \ {f}]
  /\ UNCHANGED <<db, cache, before, blank, loads, kills, blanks>>

\* A bug: a cache is good as long as it is whole.
AnyCache == cache # NoCache

\* read_cache: magic, fingerprint and structure; a damaged file was never written under its name.
cache_hit == cache # NoCache /\ cache.fp = load.fp

ReadCache ==
  /\ load.at = "fingerprint" /\ load.todo = {}
  /\ load' = IF cache_hit THEN [load EXCEPT !.at = "loaded", !.index = cache.index]
             ELSE [load EXCEPT !.at = "build", !.todo = Files]
  /\ UNCHANGED <<db, cache, before, blank, loads, kills, blanks>>

\* One file of build is read.
Build ==
  /\ load.at = "build"
  /\ \E f \in load.todo : load' = [load EXCEPT !.index[f] = db[f], !.todo = @ \ {f}]
  /\ UNCHANGED <<db, cache, before, blank, loads, kills, blanks>>

\* A list that cannot be read, or is no text, counts as empty: read_to_string(..).unwrap_or_default().
BuildBlank ==
  /\ load.at = "build" /\ blanks < MaxBlanks /\ blanks' = blanks + 1
  /\ \E f \in load.todo \cap Lists :
       /\ load' = [load EXCEPT !.todo = @ \ {f}]
       /\ blank' = [blank EXCEPT ![f] = db[f]]
  /\ UNCHANGED <<db, cache, before, loads, kills>>

\* A bug: the fingerprint is taken when the index has been built.
LateFingerprint == [fp |-> db, index |-> load.index]

cached == [fp |-> load.fp, index |-> load.index]

\* write_cache goes through a temporary file; failing to write it is not an error.
WriteCache ==
  /\ load.at = "build" /\ load.todo = {}
  /\ load' = [load EXCEPT !.at = "loaded"]
  /\ cache' \in {cache, cached}
  /\ UNCHANGED <<db, before, blank, loads, kills, blanks>>

\* The process is killed; or the status file cannot be read, a directory cannot be
\* listed, or a listed file is gone when it is looked at, which are errors of the load.
Kill ==
  /\ load.at # "rest" /\ kills < MaxKills /\ kills' = kills + 1
  /\ load' = Resting
  /\ UNCHANGED <<db, cache, before, blank, loads, blanks>>

DpkgInit ==
  /\ db = [f \in Files |-> 1] /\ cache = NoCache /\ load = Resting /\ before = db
  /\ blank = Nothing /\ loads = 0 /\ kills = 0 /\ blanks = 0

DpkgNext == Change \/ Begin \/ Fingerprint \/ ReadCache \/ Build \/ BuildBlank \/ WriteCache \/ Kill

DpkgSpec == DpkgInit /\ [][DpkgNext]_dpkgVars

-----------------------------------------------------------------------------
\* An index is never older than the database was when its load began, whether it
\* was built or came from a cache that an earlier load built while dpkg was at work.
\* What is missing from it is no older either: a list counts as empty only if it
\* could not be read in a version the database had then or later.  (Such an index is
\* cached like any other and answers until a file of the database changes.)
IndexNotStale ==
  load.at = "loaded" =>
    \A f \in Files : IF load.index[f] = 0 THEN f \in Lists /\ blank[f] >= before[f]
                    ELSE load.index[f] >= before[f]
=============================================================================
