--------------------------------- MODULE Env ---------------------------------
(***************************************************************************)
(* The environment store (src/kernel/env.c): a fixed array of fixed-size    *)
(* strings NAME=VALUE, the builtins set, export and unset that change it,   *)
(* and the disk sector it is written to after every change and read from at *)
(* boot.  A string is the sequence of its bytes.                            *)
(***************************************************************************)
EXTENDS Naturals, Sequences, SequencesExt, FiniteSetsExt

CONSTANTS
  EnvMax,      \* 64 in the code: strings in env_store
  KvMax,       \* 96 in the code: bytes of a string, with its terminator
  NameMax,     \* 64 in the code: bytes of a name, with its terminator
  SectorSize,  \* 512 in the code
  Char,        \* the characters of names and values
  Kvs,         \* what set and export are asked for
  Names,       \* what unset is asked for
  PathKv       \* "PATH=/bin"

Eq == 61                     \* '='
Magic == <<69, 78, 86, 48>>  \* "ENV0"
Header == 5
Byte == 0..255

\* The first '=' of a string, 0 if there is none.
EqAt(kv) == IF \E i \in DOMAIN kv : kv[i] = Eq
            THEN CHOOSE i \in DOMAIN kv : kv[i] = Eq /\ \A j \in 1..(i - 1) : kv[j] # Eq
            ELSE 0
NameOf(kv) == SubSeq(kv, 1, EqAt(kv) - 1)
ValueOf(kv) == SubSeq(kv, EqAt(kv) + 1, Len(kv))

ASSUME SizesAssumption == /\ EnvMax \in 1..255
                          /\ NameMax \in Nat /\ KvMax \in 1..255 /\ NameMax < KvMax
                          /\ SectorSize \in Nat /\ SectorSize > Header
ASSUME StringsAssumption == /\ Char \subseteq 1..255 /\ Eq \in Char
                            /\ Kvs \subseteq Seq(Char) /\ Names \subseteq Seq(Char)
                            /\ PathKv \in Seq(Char) /\ Len(PathKv) < KvMax
                            /\ EqAt(PathKv) \in 2..NameMax

VARIABLES store,    \* env_store[0 .. env_count - 1]
          sector,   \* sector 16 of the disk
          drive,    \* "idle", or "writing" what it was given last
          due,      \* the bytes it was given and has not written yet
          waiting   \* whether the kernel waits in ata_wait_drq, for ever
vars == <<store, sector, drive, due, waiting>>

-----------------------------------------------------------------------------
\* A slip: the name has only to begin with the name of the entry.
MatchPrefix(kv, name) ==
  \A i \in 1..(EqAt(kv) - 1) : i \in DOMAIN name /\ kv[i] = name[i]

\* name_match, for an entry kv: its loops in order, then its last test.
Match(kv, name) ==
  /\ \A i \in 1..(EqAt(kv) - 1) : i \in DOMAIN name /\ kv[i] = name[i]
  /\ \A i \in DOMAIN name : name[i] # Eq /\ (i \in DOMAIN kv => kv[i] # Eq)
  /\ Len(name) + 1 \in DOMAIN kv /\ kv[Len(name) + 1] = Eq

Hits(s, name) == {i \in DOMAIN s : Match(s[i], name)}
IsSet(s, name) == Hits(s, name) # {}

\* env_get
Get(s, name) == ValueOf(s[Min(Hits(s, name))])

\* env_set: a string without a name, or with one too long, is refused, and so
\* is a new variable when the array is full.  A long value is cut.
WellFormed(kv) == EqAt(kv) \in 2..NameMax
Accepts(s, kv) == WellFormed(kv) /\ (IsSet(s, NameOf(kv)) \/ Len(s) < EnvMax)
KeptWhole(kv) == kv     \* a slip: not cut
Kept(kv) == SubSeq(kv, 1, Min({Len(kv), KvMax - 1}))
SetKv(s, kv) ==
  CASE ~Accepts(s, kv) -> s
    [] Accepts(s, kv) /\ IsSet(s, NameOf(kv)) ->
         [s EXCEPT ![Min(Hits(s, NameOf(kv)))] = Kept(kv)]
    [] OTHER -> Append(s, Kept(kv))

\* A slip: the last entry is copied down before the count is.
RemoveKeepLast(s, i) == [s EXCEPT ![i] = s[Len(s)]]
\* env_unset: the last entry takes the place of the one that goes.
RemoveEntry(s, i) == Front([s EXCEPT ![i] = s[Len(s)]])

-----------------------------------------------------------------------------
\* The sector: a header with the count, then each string after its length.

End(s) == LET end[i \in 0..Len(s)] ==
                IF i = 0 THEN Header ELSE end[i - 1] + 1 + Len(s[i])
          IN end
\* How many strings env_save puts into the sector.
Fitting(s) == Max({i \in 0..Len(s) : End(s)[i] < SectorSize})
Records(s) == FlattenSeq([i \in 1..Fitting(s) |-> <<Len(s[i])>> \o s[i]])

\* A slip: the buffer is not cleared first; what was read at boot is in it.
EncodeUncleared(s) ==
  LET used == Magic \o <<Len(s)>> \o Records(s)
  IN  used \o SubSeq(sector, Len(used) + 1, SectorSize)
Encode(s) ==
  LET used == Magic \o <<Len(s)>> \o Records(s)
  IN  used \o [i \in 1..(SectorSize - Len(used)) |-> 0]

\* env_init, past its first lines: if the sector is one of ours, set its
\* strings one after the other, each starting at off, until one does not fit
\* its limits.
Load(b) ==
  LET Fits(off) == /\ off < SectorSize /\ b[off + 1] \in 1..(KvMax - 1)
                   /\ off + 1 + b[off + 1] <= SectorSize
      Round == [r \in [off : Nat, set : Seq(Seq(Byte))] |->
                  IF ~Fits(r.off) THEN r
                  ELSE LET next == r.off + 1 + b[r.off + 1] IN
                       [off |-> next, set |-> SetKv(r.set, SubSeq(b, r.off + 2, next))]]
      read[i \in 0..EnvMax] == IF i = 0 THEN [off |-> Header, set |-> <<PathKv>>]
                               ELSE Round[read[i - 1]]
  IN IF SubSeq(b, 1, Len(Magic)) = Magic THEN read[Min({b[Header], EnvMax})].set ELSE <<PathKv>>

-----------------------------------------------------------------------------
\* ata_write28: the drive takes the bytes and writes them after the call has
\* returned, or reports an error, and nobody asks.  Nothing waits before the
\* command: a drive that still writes ignores it, and never asks for bytes.
AtaWrite28(b) ==
  \/ drive = "idle" /\ drive' = "writing" /\ due' = b /\ UNCHANGED waiting
  \/ drive = "idle" /\ UNCHANGED <<drive, due, waiting>>
  \/ drive = "writing" /\ waiting' = TRUE /\ UNCHANGED <<drive, due>>

\* env_save, after the change
EnvSave == AtaWrite28(Encode(store')) /\ UNCHANGED sector

\* builtin_set and builtin_export
Set(kv) == /\ ~waiting /\ Accepts(store, kv)
           /\ store' = SetKv(store, kv)
           /\ EnvSave

Unset(name) == /\ ~waiting /\ IsSet(store, name)
               /\ store' = RemoveEntry(store, Min(Hits(store, name)))
               /\ EnvSave

\* The drive is done, or fails where nobody looks.
Arrives == /\ sector' \in {sector, due} /\ drive' = "idle" /\ due' = <<>>
DriveDone == drive = "writing" /\ Arrives /\ UNCHANGED <<store, waiting>>

\* The machine may stop at any time, also before the drive has written.  At
\* boot the sector may be unreadable.
Reboot == /\ IF drive = "writing" THEN Arrives ELSE UNCHANGED <<sector, drive, due>>
          /\ store' \in {Load(sector'), <<PathKv>>} /\ waiting' = FALSE

Init == /\ sector = [i \in 1..SectorSize |-> 0]
        /\ store = <<PathKv>>
        /\ drive = "idle" /\ due = <<>> /\ waiting = FALSE

Next == \/ \E kv \in Kvs : Set(kv)
        \/ \E name \in Names : Unset(name)
        \/ DriveDone \/ Reboot

Spec == Init /\ [][Next]_vars

-----------------------------------------------------------------------------
\* Properties.

\* The store never outgrows its array nor a string its place, and the sector
\* is a sector (env_set, env_save).
TypeOK == /\ store \in Seq(Seq(Char)) /\ Len(store) <= EnvMax
          /\ \A i \in DOMAIN store : Len(store[i]) < KvMax /\ WellFormed(store[i])
          /\ sector \in Seq(Byte) /\ Len(sector) = SectorSize
          /\ drive \in {"idle", "writing"} /\ waiting \in BOOLEAN
          /\ due \in Seq(Byte) /\ Len(due) = IF drive = "writing" THEN SectorSize ELSE 0

\* No variable is in the store twice, however sets, unsets and restarts have
\* moved the entries (env_set looks before it appends, env_unset moves the
\* last entry, env_init sets PATH before it reads the sector).
NamesOnce == \A i, j \in DOMAIN store :
               NameOf(store[i]) = NameOf(store[j]) => i = j

\* Saving and restarting now would bring back every variable that fits in the
\* sector with its value, except that PATH, when it was unset, takes a place
\* that may have been the last one's; it would bring back nothing else.
RebootRestores ==
  LET back == Load(Encode(store))
      path == NameOf(PathKv)
  IN /\ \A i \in 1..Fitting(store) :
           \/ IsSet(back, NameOf(store[i])) /\ Get(back, NameOf(store[i])) = ValueOf(store[i])
           \/ ~IsSet(store, path) /\ Len(back) = EnvMax /\ i = EnvMax
     /\ \A i \in DOMAIN back : back[i] \in Range(store) \cup {PathKv}

\* What env_get and the next restart show is a map in which each command
\* changes one name only, and which a restart loses at most in part.
MapOf[s \in Seq(Seq(Byte))] == [name \in {NameOf(s[i]) : i \in DOMAIN s} |-> Get(s, name)]
EM == INSTANCE EnvMap WITH Path <- NameOf(PathKv), Dirs <- ValueOf(PathKv),
                           env <- MapOf[store], kept <- MapOf[Load(sector)],
                           due <- MapOf[Load(IF drive = "writing" THEN due ELSE sector)]
ImplementsMap == EM!MapSpec
=============================================================================
