---------------------------- MODULE MetadataWalk ----------------------------
(***************************************************************************)
(* The bounded walk that turns Git's own files into an identity             *)
(* (task-contract.mjs), while other processes go on writing them.  Every    *)
(* node is read once, in the order of a depth-first walk; a file is read    *)
(* between two looks at its inode and its path, a symbolic link is followed *)
(* and its hops are looked at again after the target was read, and a        *)
(* directory is listed again after its children.  When all roots are done   *)
(* they are gone through once more, the absent ones too: links, their ends  *)
(* and directories must have the same inode and times, plain files only the *)
(* same mode, size and digest.  Whatever does not agree condemns the whole  *)
(* walk, which then yields no identity.                                     *)
(*                                                                          *)
(* The tree is a small instance: an optional file, a symbolic link to one   *)
(* of two files and a directory.                                            *)
(***************************************************************************)
EXTENDS Naturals, Sequences, FiniteSets

CONSTANTS
  MaxEntries, \* MAX_GIT_METADATA_ENTRIES
  MaxWrites   \* bound: changes made by other processes

ASSUME WalkAssumption == MaxEntries \in Nat \ {0} /\ MaxWrites \in Nat

Roots == <<"config", "link", "hooks">>
Children == <<"a", "b">>
Target == {"t1", "t2"}
Plain == {"config", "a", "b"}
Path == Plain \cup {"link", "hooks"} \cup Target
Datum == {"d0", "d1"}

VARIABLES
  nodes,   \* the file system: for each path its kind, inode, version and data
  writes,  \* changes so far; the source of fresh inodes and versions
  agenda,  \* what the walk does next, a sequence of <<operation, path>>
  taken,   \* what the walk has recorded, by path
  handle,  \* the open file: the path, its node when it was opened, what was read
  listed,  \* names in the listing of the directory
  again,   \* the roots are gone through a second time
  walked,  \* "going", "complete" or "condemned"
  instant, \* history: the file system when the first pass ended
  restored \* history: recorded files that were given back what was recorded of them

walkVars == <<nodes, writes, agenda, taken, handle, listed, again, walked, instant, restored>>

\* The version stands for the times and link count of a node, new with every change;
\* the data for a file's mode and content, a link's target, a directory's mode.
Node(kind, ino, ver, data) == [kind |-> kind, ino |-> ino, ver |-> ver, data |-> data]
NoNode == Node("absent", 0, 0, "")

Visits(s) == [i \in 1..Len(s) |-> <<"visit", s[i]>>]

WalkInit ==
  /\ nodes \in {f \in [Path -> {NoNode, Node("file", 0, 0, "d0"), Node("dir", 0, 0, "d0"),
                                Node("link", 0, 0, "t1")}] :
                  /\ f["config"].kind \in {"absent", "file"}
                  /\ f["link"].kind \in {"absent", "link"}
                  /\ f["hooks"].kind = "dir"
                  /\ f["a"].kind = "file" /\ f["b"].kind = "absent"
                  /\ \A t \in Target : f[t].kind = "file"}
  /\ writes = 0 /\ agenda = Visits(Roots)
  /\ taken = << >> /\ handle = << >> /\ listed = << >>
  /\ again = FALSE /\ walked = "going" /\ instant = << >> /\ restored = {}

\* What readdir gives, in its order.
Listings == {<< >>, <<"a">>, <<"b">>, Children}
Names(f) == CHOOSE s \in Listings :
              {s[i] : i \in DOMAIN s} = {c \in {"a", "b"} : f[c].kind # "absent"}

-----------------------------------------------------------------------------
(* Other processes: Git, an editor, a package manager.                      *)

Fresh == writes + 1

Unaltered(m, n) == m.kind = n.kind /\ m.data = n.data

\* A recorded file gets back what was recorded of it.
Restores(p, node) == /\ p \in Plain \cap DOMAIN taken
                     /\ Unaltered(node, taken[p]) /\ ~Unaltered(nodes[p], taken[p])

Change(p, node) ==
  /\ walked = "going" /\ writes < MaxWrites /\ writes' = Fresh
  /\ nodes' = IF p \in {"a", "b"} /\ (node.kind = "absent") # (nodes[p].kind = "absent")
              THEN [nodes EXCEPT ![p] = node, !["hooks"].ver = Fresh]
              ELSE [nodes EXCEPT ![p] = node]
  /\ restored' = IF Restores(p, node) THEN restored \cup {p} ELSE restored
  /\ UNCHANGED <<agenda, taken, handle, listed, again, walked, instant>>

\* The content may be one the file has had before; for a directory it is the mode.
Overwrite(p) ==
  /\ nodes[p].kind \in {"file", "dir"}
  /\ \E d \in Datum : Change(p, [nodes[p] EXCEPT !.ver = Fresh, !.data = d])

Replace(p) ==
  /\ p \notin {"link", "hooks"} /\ (p \in {"a", "b"} => nodes["hooks"].kind = "dir")
  /\ \E d \in Datum : Change(p, Node("file", Fresh, Fresh, d))

Remove(p) ==
  /\ nodes[p].kind # "absent" /\ (p = "hooks" => Names(nodes) = << >>)
  /\ Change(p, NoNode)

Remake == nodes["hooks"].kind = "absent" /\ Change("hooks", Node("dir", Fresh, Fresh, "d0"))

Retarget == \E t \in Target \cup {"link"} : t # nodes["link"].data
              /\ Change("link", Node("link", Fresh, Fresh, t))

OthersWrite == \/ \E p \in Path : Overwrite(p) \/ Replace(p) \/ Remove(p)
               \/ Remake \/ Retarget

-----------------------------------------------------------------------------
(* The walk.                                                                *)

Todo(op, p) == walked = "going" /\ agenda # << >> /\ Head(agenda) = <<op, p>>
Env == UNCHANGED <<nodes, writes, restored>>

CondemnWalk == /\ walked' = "condemned" /\ agenda' = << >>
           /\ UNCHANGED <<taken, handle, listed, again, instant>>

Then(tasks) == agenda' = tasks \o Tail(agenda)

\* taken, with what was seen at p.
Noted(p, node) == [q \in DOMAIN taken \cup {p} |-> IF q = p THEN node ELSE taken[q]]

Entries == {p \in DOMAIN taken : taken[p].kind # "absent" /\ p \notin Target}

\* One node of the first pass, by its kind; a child that was listed must be there.
Visit(p) ==
  LET n == nodes[p] IN
  /\ Todo("visit", p) /\ Env
  /\ \/ /\ Cardinality(Entries) >= MaxEntries \/ (n.kind = "absent" /\ p \in {"a", "b"})
        /\ CondemnWalk
     \/ /\ Cardinality(Entries) < MaxEntries
        /\ \/ /\ n.kind = "absent" /\ p \notin {"a", "b"}
              /\ taken' = Noted(p, n) /\ Then(<< >>)
           \/ n.kind = "file" /\ Then(<< <<"open", p>> >>) /\ UNCHANGED taken
           \/ n.kind = "link" /\ taken' = Noted(p, n) /\ Then(<< <<"resolve", n.data>> >>)
           \/ n.kind = "dir" /\ taken' = Noted(p, n) /\ Then(<< <<"list", p>> >>)
        /\ UNCHANGED <<handle, listed, again, walked, instant>>

\* The end of a chain of links: its signature is taken before it is read.
ResolveLink(t) ==
  /\ Todo("resolve", t) /\ Env
  /\ \/ nodes[t].kind # "file" /\ CondemnWalk   \* broken or a cycle
     \/ /\ nodes[t].kind = "file" /\ taken' = Noted(t, nodes[t])
        /\ Then(<< <<"open", t>>, <<"hops", "link">> >>)
        /\ UNCHANGED <<handle, listed, again, walked, instant>>

OpenFile(p) ==
  /\ Todo("open", p) /\ Env
  /\ \/ nodes[p].kind # "file" /\ CondemnWalk
     \/ /\ nodes[p].kind = "file"
        /\ handle' = [path |-> p, node |-> nodes[p], content |-> ""]
        /\ Then(<< <<"read", p>> >>)
        /\ UNCHANGED <<taken, listed, again, walked, instant>>

\* The descriptor follows the inode, not the path.
ReadFile(p) ==
  /\ Todo("read", p) /\ Env
  /\ handle' = [handle EXCEPT !.content = IF nodes[p].ino = handle.node.ino
                                          THEN nodes[p].data ELSE handle.node.data]
  /\ Then(<< <<"accept", p>> >>)
  /\ UNCHANGED <<taken, listed, again, walked, instant>>

\* fstat of the descriptor and lstat of the path, after the last byte.  The end of a
\* link keeps the signature it was resolved with.
AcceptFile(p) ==
  /\ Todo("accept", p) /\ Env
  /\ \/ nodes[p] # handle.node /\ CondemnWalk
     \/ /\ nodes[p] = handle.node
        /\ taken' = Noted(p, [(IF p \in Target THEN taken[p] ELSE handle.node) EXCEPT
                                !.data = handle.content])
        /\ handle' = << >> /\ Then(<< >>)
        /\ UNCHANGED <<listed, again, walked, instant>>

\* Device, inode and times of a node.
Signature(n) == <<n.kind, n.ino, n.ver>>

\* revalidateMetadataSymlinkHops.
HopsHold == /\ nodes["link"] = taken["link"]
            /\ LET t == taken["link"].data IN Signature(nodes[t]) = Signature(taken[t])

Hops == /\ Todo("hops", "link") /\ Env
        /\ \/ ~HopsHold /\ CondemnWalk
           \/ HopsHold /\ Then(<< >>) /\ UNCHANGED <<taken, handle, listed, again, walked, instant>>

\* A listing is bounded by the entries that are left.  It looks at the directory anew:
\* of the first look only the mode stays, in the record.
List(d) ==
  /\ Todo("list", d) /\ Env
  /\ \/ /\ \/ nodes[d].kind # "dir"
           \/ Len(Names(nodes)) > MaxEntries - Cardinality(Entries)
        /\ CondemnWalk
     \/ /\ nodes[d].kind = "dir" /\ Len(Names(nodes)) <= MaxEntries - Cardinality(Entries)
        /\ taken' = Noted(d, [nodes[d] EXCEPT !.data = taken[d].data])
        /\ listed' = Names(nodes)
        /\ Then(Visits(Names(nodes)) \o << <<"close", d>> >>)
        /\ UNCHANGED <<handle, again, walked, instant>>

Agains(s) == [i \in 1..Len(s) |-> <<"again", s[i]>>]

\* The directory has the same identity and names, then its children the same content.
Close(d) ==
  LET same == Signature(nodes[d]) = Signature(taken[d]) /\ Names(nodes) = listed
  IN
  /\ Todo("close", d) /\ Env
  /\ \/ ~same /\ CondemnWalk
     \/ same /\ Then(Agains(listed)) /\ UNCHANGED <<taken, handle, listed, again, walked, instant>>

\* Mutant of Again: the children of a directory are not read again.
VisitAgainShallow(p) ==
  LET n == taken[p]
      same == CASE n.kind = "absent" -> nodes[p].kind = "absent"
                [] n.kind = "file" -> Unaltered(nodes[p], n)
                [] n.kind = "link" -> HopsHold
                [] n.kind = "dir" -> Signature(nodes[p]) = Signature(n) /\ Names(nodes) = listed
  IN
  /\ Todo("again", p) /\ Env
  /\ \/ ~same /\ CondemnWalk
     \/ /\ same /\ Then(IF n.kind = "link" THEN << <<"again", n.data>> >> ELSE << >>)
        /\ UNCHANGED <<taken, handle, listed, again, walked, instant>>

\* A file is read again; only its mode and content have to be the same.
VisitAgain(p) ==
  LET n == taken[p]
      same == CASE n.kind = "absent" -> nodes[p].kind = "absent"
                [] n.kind = "file" -> Unaltered(nodes[p], n)
                [] n.kind = "link" -> HopsHold
                [] n.kind = "dir" -> Signature(nodes[p]) = Signature(n) /\ Names(nodes) = listed
  IN
  /\ Todo("again", p) /\ Env
  /\ \/ ~same /\ CondemnWalk
     \/ /\ same
        /\ Then(CASE n.kind = "link" -> << <<"again", n.data>> >>
                  [] n.kind = "dir" -> Agains(listed)
                  [] OTHER -> << >>)
        /\ UNCHANGED <<taken, handle, listed, again, walked, instant>>

\* The second pass over the roots, and the end.
Witnesses ==
  /\ walked = "going" /\ agenda = << >> /\ ~again /\ Env
  /\ again' = TRUE /\ instant' = nodes
  /\ agenda' = Agains(Roots)
  /\ UNCHANGED <<taken, handle, listed, walked>>

Finish ==
  /\ walked = "going" /\ agenda = << >> /\ again /\ Env
  /\ walked' = IF Cardinality(Entries) >= MaxEntries THEN "condemned" ELSE "complete"
  /\ UNCHANGED <<agenda, taken, handle, listed, again, instant>>

WalkNext ==
  \/ OthersWrite
  \/ \E p \in Path : Visit(p) \/ ResolveLink(p) \/ OpenFile(p) \/ ReadFile(p) \/ AcceptFile(p)
                     \/ List(p) \/ Close(p) \/ VisitAgain(p)
  \/ Hops \/ Witnesses \/ Finish

WalkSpec == WalkInit /\ [][WalkNext]_walkVars

-----------------------------------------------------------------------------
\* An identity is one of a state that existed: whatever a complete walk has recorded
\* as present was there at one instant (when the first pass had ended), as it was
\* recorded, and the directory had then just the recorded children, whatever was
\* written meanwhile (visitBoundedMetadataTree and the revalidation of its
\* witnesses).  Two things the code does not bind, and this does not claim: a plain
\* file that was changed and given back the recorded mode and content, and the mode
\* of a directory, which is recorded from a look before the listing.
IdentityIsOfOneInstant ==
  walked = "complete" =>
    /\ \A p \in DOMAIN taken \ restored : taken[p].kind # "absent" =>
         /\ instant[p].kind = taken[p].kind
         /\ taken[p].kind # "dir" => instant[p].data = taken[p].data
    /\ taken["hooks"].kind = "dir" =>
         \A c \in {"a", "b"} : instant[c].kind # "absent" <=> c \in DOMAIN taken

=============================================================================
