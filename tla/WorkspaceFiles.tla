----------------------------- MODULE WorkspaceFiles -----------------------------
(* The files a run may reach: paths resolved through links and parents, the  *)
(* three operations on them, and the bounds on what a child process returns. *)
(* A file tree has directories, files with their contents, and links to a    *)
(* place without links. A path is the sequence of names from the top; the    *)
(* workspace is the directory "w", "o" is a directory beside it.             *)
EXTENDS Integers, Sequences, SequencesExt
CONSTANTS ReadLimit, WriteLimit      \* bytes of a file that may be read, be written

Root == <<"w">>
Refused == <<"refused">>                              \* the answer to a path that is not in it
Parent(p) == IF p = <<>> THEN p ELSE Front(p)
Under(p, directory) == IsPrefix(directory, p)
PathExists(fs, p) == p \in fs.dirs \cup DOMAIN fs.files

(* A place that no link leads away from: neither it nor a directory above it *)
(* is a link, and it goes nowhere up.                                        *)
Names == STRING
Plain(links, p) ==
    /\ p \in Seq(Names)
    /\ \A i \in 1..Len(p) : p[i] # ".."
    /\ \A n \in 0..Len(p) : SubSeq(p, 1, n) \notin DOMAIN links

(* A file tree, its top a directory and its links leading to such places; no *)
(* place of it is the answer to a refused path.                              *)
Resolvable(links) == Plain(links, Root) /\ \A p \in DOMAIN links : Plain(links, links[p])
IsTree(fs) ==
    /\ fs = [dirs |-> fs.dirs, files |-> fs.files, links |-> fs.links]
    /\ <<>> \in fs.dirs /\ Root \in fs.dirs
    /\ Refused \notin fs.dirs \cup DOMAIN fs.files
    /\ Resolvable(fs.links)
    /\ fs.dirs \cup DOMAIN fs.files \cup DOMAIN fs.links \subseteq Seq(Names)
IsPathRequest(request) == request.names \in Seq(Names)

(* A name at a time: up for "..", through a link, on for anything else       *)
ResolveName(links, place, name) ==
    IF name = ".." THEN Parent(place)
    ELSE LET next == Append(place, name) IN IF next \in DOMAIN links THEN links[next] ELSE next
Canonical(links, names) ==
    LET at[i \in 0..Len(names)] == IF i = 0 THEN Root ELSE ResolveName(links, at[i - 1], names[i])
    IN at[Len(names)]

(* The place a relative path names, refused when it is not in the workspace. *)
(* A request is the names of a path and whether it starts at the top.        *)
ResolvePath(fs, request) ==
    LET place == Canonical(fs.links, request.names)
    IN IF request.absolute \/ ~Under(place, Root) THEN Refused ELSE place

(* Contents are a size and whether they are text without NUL; what may not be *)
(* read, or listed, is the empty set.                                        *)
ReadText(fs, request) ==
    LET place == ResolvePath(fs, request)
    IN {c \in {fs.files[p] : p \in {place} \cap DOMAIN fs.files} : c.size <= ReadLimit /\ c.text}

(* A write makes the missing parents when asked to, then replaces the file at *)
(* the place resolved again; it is refused below a file and onto a directory. *)
NoWrite(fs) == [ok |-> FALSE, fs |-> fs, changed |-> {}]
Ancestors(p) == {SubSeq(p, 1, n) : n \in 0..Len(p)}
WriteText(fs, request, content, createParents) ==
    LET first == ResolvePath(fs, request)
        parent == Parent(first)
        grown == IF PathExists(fs, parent) THEN fs ELSE [fs EXCEPT !.dirs = @ \cup Ancestors(parent)]
        place == ResolvePath(grown, request)
    IN IF content.size > WriteLimit \/ first = Refused THEN NoWrite(fs)
       ELSE IF ~PathExists(fs, parent) /\ (~createParents \/ Ancestors(parent) \cap DOMAIN fs.files # {}) THEN NoWrite(fs)
       ELSE IF parent \in DOMAIN fs.files \/ place \in fs.dirs THEN NoWrite(grown)
       ELSE [ok |-> TRUE, fs |-> [grown EXCEPT !.files = [p \in DOMAIN @ \cup {place} |-> IF p = place THEN content ELSE @[p]]], changed |-> {place}]

(* What a directory lists: its entries by the place they resolve to, without *)
(* those outside the workspace and without links to directories, its cap of  *)
(* a hundred names left out.                                                 *)
EntriesBelow(fs, directory, recursive) ==
    {p \in fs.dirs \cup DOMAIN fs.files \cup DOMAIN fs.links :
        p # directory /\ Under(p, directory) /\ (recursive \/ Parent(p) = directory)}
ListFilesUnresolved(fs, request, recursive) ==
    LET place == ResolvePath(fs, request)
    IN IF place \notin fs.dirs THEN {} ELSE EntriesBelow(fs, place, recursive)
ListFiles(fs, request, recursive) ==
    LET place == ResolvePath(fs, request)
        found(p) == ResolvePath(fs, [absolute |-> FALSE, names |-> SubSeq(p, 2, Len(p))])
        shown(p) == found(p) # Refused /\ ~(found(p) \in fs.dirs /\ p \in DOMAIN fs.links)
    IN IF place \notin fs.dirs THEN {}
       ELSE {found(p) : p \in {q \in EntriesBelow(fs, place, recursive) : shown(q)}}

----------------------------------------------------------------------------
(* The output of a child process, in chunks of some bytes: no more than max  *)
(* is kept, and it is told whether anything was left out.                    *)
ReadChunk(k, n, max) ==
    [kept |-> k.kept + Min({n, max - k.kept}), truncated |-> k.truncated \/ n > max - k.kept]
CaptureOutput(chunks, max) ==
    LET after[i \in 0..Len(chunks)] ==
            IF i = 0 THEN [kept |-> 0, truncated |-> FALSE] ELSE ReadChunk(after[i - 1], chunks[i], max)
    IN after[Len(chunks)]

(* No operation reaches a place outside the workspace, through no link and no *)
(* parent, and a write changes the one file it reports.                      *)
StaysInWorkspace(fs, request, content, createParents, recursive) ==
    LET w == WriteText(fs, request, content, createParents)
        listed == ListFiles(fs, request, recursive)
        outside(p) == ~Under(p, Root)
    IN /\ \A p \in DOMAIN w.fs.files : (p \notin DOMAIN fs.files \/ w.fs.files[p] # fs.files[p]) => p \in w.changed
       /\ \A p \in w.changed \cup (w.fs.dirs \ fs.dirs) : ~outside(p)
       /\ \A p \in listed : ~outside(p) /\ p \notin DOMAIN fs.links
       /\ ReadText(fs, request) # {} => ~outside(Canonical(fs.links, request.names))

(* What was written is read back under the same path, unless it is too long  *)
(* to be read or is not text, and it is listed in its directory.             *)
WrittenIsRead(fs, request, content, createParents) ==
    LET w == WriteText(fs, request, content, createParents)
        place == ResolvePath(w.fs, request)
        folder == [absolute |-> FALSE, names |-> SubSeq(place, 2, Len(place) - 1)]
    IN w.ok => /\ ReadText(w.fs, request) = IF content.size <= ReadLimit /\ content.text THEN {content} ELSE {}
               /\ place \in ListFiles(w.fs, folder, FALSE)

(* Output is cut at the bound, and only there, and a cut is always told.     *)
TotalOf(sizes) ==
    LET total[i \in 0..Len(sizes)] == IF i = 0 THEN 0 ELSE total[i - 1] + sizes[i] IN total[Len(sizes)]
CaptureIsPrefix(chunks, max) ==
    CaptureOutput(chunks, max) = [kept |-> Min({TotalOf(chunks), max}), truncated |-> TotalOf(chunks) > max]
=============================================================================
