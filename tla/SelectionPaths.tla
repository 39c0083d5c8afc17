--------------------------- MODULE SelectionPaths ---------------------------
(***************************************************************************)
(* The names of a task's files, from the directory that is shared to the   *)
(* directory they are stored in: what the user selects in a listing, what  *)
(* the sharing side finds under the selection, how the client maps it to   *)
(* places below the destination (fileops.rs), and how the places of a      *)
(* resumed task relate to those of its earlier runs.                       *)
(*                                                                         *)
(* A name is a sequence of tokens, of which only a few matter: Prefix, the *)
(* "~lf-" an encoded name starts with, Backslash, and dots.  Hex digits    *)
(* are left as they are.  A path is a sequence of names; the identity of a *)
(* file, the hash of its protocol path, is that path.                      *)
(***************************************************************************)
EXTENDS Integers, Sequences, FiniteSets, SequencesExt

CONSTANTS
  Places,       \* the paths of the shared directory
  Targets,      \* where a link at each place may lead: to some of these places,
                \* or out of the shared directory (any other path)
  MaxLinks,     \* links the system follows on the way to one file
  Reserved,     \* names the destination cannot hold: CON, a:b, "x.", ...
  MaxSelected,  \* bound: paths ticked
  Edited,       \* bound: the paths somebody changes meanwhile
  MaxEdits,     \* bound: changes of the shared directory
  MaxSnapshots  \* bound: one snapshot to create the task, one per resume

Prefix == "~lf-"
Backslash == "\\"
Here == <<".">>
Up == <<"..">>
Parent(p) == SubSeq(p, 1, Len(p) - 1)

ASSUME SelectionPathsAssumption ==
  /\ Places \subseteq Seq(Seq(STRING))
  /\ \A p \in Places : /\ Len(p) > 0 /\ (Len(p) > 1 => Parent(p) \in Places)
                       /\ \A i \in DOMAIN p : p[i] \notin {<<>>, Here, Up}
  /\ DOMAIN Targets = Places /\ MaxLinks \in Nat
  /\ Edited \subseteq Places /\ MaxSelected \in Nat /\ MaxEdits \in Nat /\ MaxSnapshots \in Nat

VARIABLES
  tree,       \* what is at each path: "file", "dir", "link" or "absent"
  leads,      \* where the link at each path leads; <<>> where there is none
  edits,
  pc,         \* "select", "idle", "scan", "stat", "manifest"
  selected,   \* the selection of the task, its remote_paths
  todo,       \* selected paths create_snapshot has not looked at yet
  found,      \* its map from protocol paths to files
  manifest,   \* protocol paths of the manifest
  placed,     \* observed: pairs of identity and place, of all runs of the task
  snapshots,  \* observed: snapshots begun
  refused,    \* observed: the client refused the last manifest
  strayed,    \* observed: the snapshot walked a directory that is not selected
  calm        \* observed: no edit since the snapshot was begun

shared == <<tree, leads, edits>>
vars == <<shared, pc, selected, todo, found, manifest, placed, snapshots, refused, strayed, calm>>

(* What may be at a path, and where it leads. *)
Things(p) == ({"file", "dir", "absent"} \X {<<>>}) \cup ({"link"} \X Targets[p])

Init ==
  /\ tree \in {t \in [Places -> {"file", "dir", "link", "absent"}] :
                 \A p \in Places : t[p] # "absent" /\ Len(p) > 1 => t[Parent(p)] = "dir"}
  /\ \E l \in [{p \in Places : tree[p] = "link"} -> UNION {Targets[p] : p \in Places}] :
       /\ \A p \in DOMAIN l : l[p] \in Targets[p]
       /\ leads = [p \in Places |-> IF p \in DOMAIN l THEN l[p] ELSE <<>>]
  /\ edits = 0 /\ pc = "select" /\ selected = {} /\ todo = {} /\ found = <<>>
  /\ manifest = {} /\ placed = {} /\ snapshots = 0 /\ refused = FALSE
  /\ strayed = FALSE /\ calm = TRUE

Ordinary(p) == tree[p] \in {"file", "dir"}
Below(S) == {p \in Places : \E s \in S : IsPrefix(s, p)}

(* Where the system arrives on the way to p: links on the way are followed,
   the last name is not. *)
LinksOn(p) == {i \in 1 .. Len(p) - 1 : SubSeq(p, 1, i) \in Places
                                        /\ tree[SubSeq(p, 1, i)] = "link"}
FollowLink(p) == IF LinksOn(p) = {} THEN p
                 ELSE LET i == CHOOSE i \in LinksOn(p) : TRUE
                      IN leads[SubSeq(p, 1, i)] \o SubSeq(p, i + 1, Len(p))
Located(p) == LET followed[n \in 0 .. MaxLinks] ==
                    IF n = 0 THEN p ELSE FollowLink(followed[n - 1])
              IN followed[MaxLinks]

-----------------------------------------------------------------------------
(* list_entries shows files and directories, and not links.  Entries of
   several directories may be ticked, a directory and what is in it, too. *)
Select(p) ==
  /\ pc = "select" /\ Ordinary(p) /\ p \notin selected /\ Cardinality(selected) < MaxSelected
  /\ selected' = selected \cup {p}
  /\ UNCHANGED <<shared, pc, todo, found, manifest, placed, snapshots, refused, strayed, calm>>

(* create_download_task, and resume_task with the selection of the row. *)
CreateSnapshot ==
  /\ pc \in {"select", "idle"} /\ selected # {} /\ snapshots < MaxSnapshots
  /\ pc' = "scan" /\ todo' = selected /\ found' = <<>> /\ calm' = TRUE
  /\ snapshots' = snapshots + 1 /\ refused' = FALSE /\ strayed' = FALSE
  /\ UNCHANGED <<shared, selected, manifest, placed>>

(* The protocol writes paths with "/": a backslash in a name, which some
   systems allow, becomes one more separator. *)
SplitName(n) ==
  LET pieces[i \in 0 .. Len(n)] ==
        IF i = 0 THEN << <<>> >>
        ELSE IF n[i] = Backslash THEN Append(pieces[i - 1], <<>>)
        ELSE [pieces[i - 1] EXCEPT ![Len(pieces[i - 1])] = Append(@, n[i])]
  IN pieces[Len(n)]
ProtocolPath(p) == FlattenSeq([i \in DOMAIN p |-> SplitName(p[i])])

(* The protocol paths of some files, each with its file; of two files with one
   protocol path the walk leaves the one it comes to last. *)
MapsOf(files) ==
  LET keys == {ProtocolPath(p) : p \in files}
  IN {m \in [keys -> files] : \A k \in keys : ProtocolPath(m[k]) = k}

(* The map with the entries of a walk put over it. *)
Inserted(walked, m) == [k \in DOMAIN walked \cup DOMAIN m |->
                          IF k \in DOMAIN walked THEN walked[k] ELSE m[k]]

(* What one selected path, at the place at, adds to the map: the files and
   directories below a directory, named from where they are, for links are not
   followed in it; or the file, named as it was selected. *)
WalksOf(s, at) ==
  IF tree[at] = "dir" THEN MapsOf({p \in Below({at}) : Ordinary(p)})
                      ELSE {[k \in {ProtocolPath(s)} |-> at]}

(* Mutation: the map is made anew for every selected path. *)
ScanSelectedAnew(s) ==
  /\ pc = "scan" /\ s \in todo
  /\ LET at == Located(s)
     IN /\ at \in Places /\ Ordinary(at)
        /\ found' \in WalksOf(s, at)
        /\ strayed' = (strayed \/ (tree[at] = "dir" /\ at \notin Below(selected)))
  /\ todo' = todo \ {s}
  /\ pc' = IF todo' = {} THEN "stat" ELSE "scan"
  /\ UNCHANGED <<shared, selected, manifest, placed, snapshots, refused, calm>>

(* One selected path is resolved and walked.  What is not there any more, has
   become a link, or is outside the shared directory now fails the snapshot. *)
ScanSelected(s) ==
  /\ pc = "scan" /\ s \in todo
  /\ LET at == Located(s)
     IN \/ /\ at \in Places /\ Ordinary(at)
           /\ \E walked \in WalksOf(s, at) : found' = Inserted(walked, found)
           /\ strayed' = (strayed \/ (tree[at] = "dir" /\ at \notin Below(selected)))
           /\ todo' = todo \ {s}
           /\ pc' = IF todo' = {} THEN "stat" ELSE "scan"
        \/ /\ ~(at \in Places /\ Ordinary(at))
           /\ pc' = "idle" /\ todo' = {} /\ found' = <<>> /\ UNCHANGED strayed
  /\ UNCHANGED <<shared, selected, manifest, placed, snapshots, refused, calm>>

(* The metadata of everything found: what has gone fails the snapshot, what has
   become a link is left out.  Of what is beyond a link out of the shared
   directory by now, each may be there, be a link or be missing. *)
StatFound ==
  /\ pc = "stat"
  /\ LET At(k) == Located(found[k])
         inside == {k \in DOMAIN found : At(k) \in Places}
         beyond == DOMAIN found \ inside
         gone == \E k \in inside : tree[At(k)] = "absent"
     IN \/ /\ gone \/ beyond # {}
           /\ pc' = "idle" /\ manifest' = {}
        \/ /\ ~gone
           /\ pc' = "manifest"
           /\ \E there \in SUBSET beyond :
                manifest' = {k \in inside : Ordinary(At(k))} \cup there
  /\ found' = <<>>
  /\ UNCHANGED <<shared, selected, todo, placed, snapshots, refused, strayed, calm>>

-----------------------------------------------------------------------------
(* validate_relative_path: a path that starts at the root or goes up is
   refused; of others, doubled separators and "." leave nothing. *)
Valid(k) == (Len(k) > 1 => k[1] # <<>>) /\ \A i \in DOMAIN k : k[i] # Up
Components(k) == FlattenSeq([i \in DOMAIN k |-> IF k[i] \in {<<>>, Here} THEN <<>> ELSE <<k[i]>>])

CommonPrefixOf(paths) ==
  LET one == CHOOSE p \in paths : TRUE
      n == CHOOSE n \in 0 .. Len(one) :
             /\ \A p \in paths : IsPrefix(SubSeq(one, 1, n), p)
             /\ \A m \in n + 1 .. Len(one) : \E p \in paths : ~IsPrefix(SubSeq(one, 1, m), p)
  IN SubSeq(one, 1, n)

(* Mutation: the base is what the manifest has in common. *)
BaseOfManifest == CommonPrefixOf({Parent(Components(k)) : k \in manifest})

(* common_selection_parent. *)
Base == CommonPrefixOf({Parent(s) : s \in selected})

(* safe_destination_component: what the destination cannot hold is encoded,
   and what looks like an encoded name is encoded again. *)
SafeDestinationComponent(n) ==
  IF n \in Reserved \/ n = <<>> \/ Head(n) = Prefix THEN <<Prefix>> \o n ELSE n

Rebased(k) == SubSeq(Components(k), Len(Base) + 1, Len(Components(k)))
SafeDestinationPath(p) == [i \in DOMAIN p |-> SafeDestinationComponent(p[i])]

(* Mutation: what is inside a selected directory does not belong to it. *)
BelongsExactly(k) == Components(k) \in selected

Belongs(k) == \E s \in selected : IsPrefix(s, Components(k))

(* rebase_snapshot_manifest and the places the task engine stores files at.
   A single path outside the selection refuses the manifest. *)
Rebase ==
  /\ pc = "manifest"
  /\ pc' = "idle" /\ manifest' = {}
  /\ IF \A k \in manifest : Valid(k) /\ Belongs(k)
     THEN /\ placed' = placed \cup {<<k, SafeDestinationPath(Rebased(k))>> : k \in manifest}
          /\ UNCHANGED refused
     ELSE refused' = TRUE /\ UNCHANGED placed
  /\ UNCHANGED <<shared, selected, todo, found, snapshots, strayed, calm>>

-----------------------------------------------------------------------------
(* Somebody changes the shared directory. *)
Edit(p) ==
  /\ p \in Edited /\ edits < MaxEdits
  /\ Len(p) > 1 => tree[Parent(p)] = "dir"
  /\ \E thing \in Things(p) \ {<<tree[p], leads[p]>>} :
       /\ tree' = [q \in Places |-> IF q = p THEN thing[1]
                                   ELSE IF IsPrefix(p, q) THEN "absent" ELSE tree[q]]
       /\ leads' = [q \in Places |-> IF q = p THEN thing[2]
                                    ELSE IF IsPrefix(p, q) THEN <<>> ELSE leads[q]]
  /\ edits' = edits + 1 /\ calm' = FALSE
  /\ UNCHANGED <<pc, selected, todo, found, manifest, placed, snapshots, refused, strayed>>

Next == \/ \E p \in Places : Select(p) \/ ScanSelected(p) \/ Edit(p)
        \/ CreateSnapshot \/ StatFound \/ Rebase

Spec == Init /\ [][Next]_vars

-----------------------------------------------------------------------------
(* Over all runs of a task each file has one place and each place one file, a
   file being what its path names, however many separators it is written with.
   Names that are encoded stay apart from names that look encoded; a resumed
   task stores a file where its earlier runs did, whatever has come and gone
   beside it in the meantime, and finds its .part file and what it installed. *)
OnePlacePerFile ==
  \A e, f \in placed : Components(e[1]) = Components(f[1]) <=> e[2] = f[2]

Plain(p) == \A i \in DOMAIN p : \A j \in DOMAIN p[i] : p[i][j] # Backslash

(* The client takes every manifest the peer makes for its selection, unless
   a selected name has a backslash, a name below has ".." beside one, or a
   selected directory was reached through a link that leads out of the
   selection: what is in it is named from where it is, and the client, finding
   these names outside its selection, refuses the manifest as a whole. *)
ManifestAccepted ==
  refused => \/ strayed
             \/ \E s \in selected : \/ ~Plain(s)
                                    \/ \E p \in Below({s}) : ~Valid(ProtocolPath(p))

(* Without names with a backslash or links on the way to the selection, and
   with nothing edited meanwhile, the manifest is what is under the selection:
   overlapping selections neither hide nor repeat a file. *)
ManifestComplete ==
  /\ pc = "manifest" /\ calm
  /\ \A p \in Places : Ordinary(p) => Plain(p)
  /\ \A s \in selected : LinksOn(s) = {}
  => manifest = {p \in Below(selected) : Ordinary(p)}
=============================================================================
