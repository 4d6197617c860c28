-------------------------------- MODULE FileApi --------------------------------
(***************************************************************************)
(* The replies of the glasses' web server and what src/fileapi.rs and its  *)
(* foreign interface in src/ffi.rs make of them: a listing or the answer   *)
(* to a delete arrives piece by piece, perhaps not all of it, perhaps      *)
(* damaged, and is parsed after every piece by a caller that streams it.   *)
(***************************************************************************)
EXTENDS Json, TLC

CONSTANTS
    Contents,       \* what the glasses may hold: a sequence of [folder, files]
    Styles,         \* how the server writes: [reversed, unknown, miscount, gap]
    Escape,         \* percent encoding of the path segments that need it
    Kib,            \* BYTES_PER_KIB, 1024 in the code
    Junk            \* lexemes that damage puts into a reply

VARIABLES
    asked,          \* "list", "delete", or "nothing" when no reply is expected
    content,        \* what the glasses hold, a file as [name, bytes, when]
    reply,          \* the body as the server sends it
    intact,
    arrived,        \* the lexemes of it received
    cut,            \* and the part of the next one
    answer          \* what the parser last said

web == <<asked, content, reply, intact, arrived, cut, answer>>

-----------------------------------------------------------------------------
(* Folder, FileEntry and FileList.                                         *)

Folders == <<"EVENT", "AAC", "LOOP", "EMR">>
holds ==
    [EVENT |-> "Photo", AAC |-> "VoiceRecording", LOOP |-> "VideoClip", EMR |-> "Emergency"]

\* name.trim_start_matches('/').
RECURSIVE trim_slashes(_)
trim_slashes(name) ==
    IF Len(name) > 1 /\ Head(name) = "" THEN trim_slashes(Tail(name)) ELSE name

\* A row's own prefix wins over the folder it is listed under.
of_name(name, folder) ==
    LET head == Head(trim_slashes(name)) IN IF head \in DOMAIN holds THEN head ELSE folder

\* Timestamp::parse: fourteen digits in range, or None.
timestamp(d) ==
    IF /\ Len(d) = 6
       /\ d[2] \in 1 .. 12 /\ d[3] \in 1 .. 31
       /\ d[4] <= 23 /\ d[5] <= 59 /\ d[6] <= 60
    THEN d ELSE <<>>

expected_bytes(size_kib) == [min |-> size_kib * Kib, max |-> size_kib * Kib + Kib - 1]

Entry(o, folder) ==
    LET name == field(o, "name").s
        created == field(o, "createtimestr")
        type == field(o, "type")
    IN  [name |-> name, folder |-> of_name(name, folder), kind |-> holds[of_name(name, folder)],
         size_kib |-> Max({0, field(o, "size").n}),
         created |-> IF created.t = "string" THEN timestamp(created.d) ELSE <<>>,
         raw_type |-> IF type.t = "absent" THEN 0 ELSE type.n]

Listing(o) ==
    LET folder == field(o, "folder").s[1]
        rows == field(o, "files").items
        count == field(o, "count")
    IN  [folder |-> folder,
         count |-> IF count.t = "absent" THEN 0 ELSE Max({0, count.n}),
         files |-> [i \in DOMAIN rows |-> Entry(rows[i], folder)]]

all_files(list) == FlattenSeq([i \in DOMAIN list.folders |-> list.folders[i].files])
files_in(list, folder) ==
    LET found == {i \in DOMAIN list.folders : list.folders[i].folder = folder}
    IN  IF found = {} THEN <<>> ELSE list.folders[Min(found)].files

total_size_kib(list) == FoldSeq(LAMBDA f, sum : f.size_kib + sum, 0, all_files(list))

\* What the foreign interface adds to an entry and to a list.
FfiEntry(f) == [entry |-> f, basename |-> Last(f.name), bytes |-> expected_bytes(f.size_kib)]
FfiFileList(list) ==
    [result |-> list.result,
     folders |-> [i \in DOMAIN list.folders |->
                    [list.folders[i] EXCEPT !.files = [j \in DOMAIN @ |-> FfiEntry(@[j])]]],
     total_files |-> Len(all_files(list)), total_size_kib |-> total_size_kib(list)]

-----------------------------------------------------------------------------
(* The parsers: the first thing wrong, in the order the fields are read.   *)

a ?? b == IF a # <<>> THEN a ELSE b
FirstWrong(faults) ==
    LET wrong == {i \in DOMAIN faults : faults[i] # <<>>}
    IN  IF wrong = {} THEN <<>> ELSE faults[Min(wrong)]

EntryFault(row) ==
    Misfit(row, "files[]", "object")
    ?? required(field(row, "name"), "name", "string")
    ?? required(field(row, "size"), "size", "number")
    ?? optional(field(row, "type"), "type", "number")

FolderFault(e) ==
    LET folder == field(e, "folder")
    IN  Misfit(e, "info[]", "object")
        ?? required(folder, "folder", "string")
        ?? (IF Len(folder.s) = 1 /\ folder.s[1] \in DOMAIN holds THEN <<>>
            ELSE <<"UnknownFolder">>)
        ?? optional(field(e, "count"), "count", "number")
        ?? required(field(e, "files"), "files", "array")
        ?? LET rows == field(e, "files").items
           IN  FirstWrong([i \in DOMAIN rows |-> EntryFault(rows[i])])

FileListFrom(root) ==
    LET info == field(root.value, "info")
        fault ==
            Misfit(root.value, "body", "object")
            ?? required(field(root.value, "result"), "result", "number")
            ?? required(info, "info", "array")
            ?? FirstWrong([i \in DOMAIN info.items |-> FolderFault(info.items[i])])
    IN  CASE ~ root.ok -> root
          [] root.ok /\ fault # <<>> -> Refused(fault)
          [] OTHER -> [ok |-> TRUE, result |-> field(root.value, "result").n,
                       folders |-> [i \in DOMAIN info.items |-> Listing(info.items[i])]]

DeleteReplyFrom(root) ==
    LET result == field(root.value, "result")
        fault ==
            Misfit(root.value, "body", "object")
            ?? required(result, "result", "number")
            ?? required(field(root.value, "info"), "info", "string")
    IN  CASE ~ root.ok -> root
          [] root.ok /\ fault # <<>> -> Refused(fault)
          [] OTHER -> [ok |-> TRUE, result |-> result.n, success |-> result.n = 0,
                       info |-> field(root.value, "info").s]

parse_file_list(b) == FileListFrom(json_parse(b))
parse_delete_reply(b) == DeleteReplyFrom(json_parse(b))

\* What an app gets of a body parsed by parse_file_list: always an outcome, never a throw.
glasses_wifi_parse_file_list(list) ==
    IF list.ok THEN [ok |-> TRUE, list |-> FfiFileList(list)] ELSE list

Parsed(b) == IF asked = "delete" THEN parse_delete_reply(b) ELSE parse_file_list(b)

-----------------------------------------------------------------------------
(* URLs, and the plan the foreign interface makes of a listing.            *)

percent_encode_file_arg(name) ==
    [i \in DOMAIN name |-> IF name[i] \in DOMAIN Escape THEN Escape[name[i]] ELSE name[i]]

list_url == [path |-> <<"app", "getfilelist">>, file |-> <<>>]
thumbnail_url(name) ==
    [path |-> <<"app", "getthumbnail">>, file |-> percent_encode_file_arg(name)]
delete_url(name) == [path |-> <<"app", "deletefile">>, file |-> percent_encode_file_arg(name)]
download_url(name) == [path |-> percent_encode_file_arg(trim_slashes(name)), file |-> <<>>]

FileSteps(f, delete_after) ==
    <<[do |-> "Download", name |-> f.name, size_kib |-> f.size_kib]>>
      \o (IF delete_after THEN <<[do |-> "Delete", name |-> f.name]>> ELSE <<>>)

\* Fault: the deletes first.
for_list_swapped(files, delete_after) ==
    FlattenSeq([i \in DOMAIN files |-> Reverse(FileSteps(files[i], delete_after))])
      \o <<[do |-> "TearDown"]>>

for_list(files, delete_after) ==
    [i \in DOMAIN files |-> [do |-> "Thumbnail", name |-> files[i].name]]
      \o FlattenSeq([i \in DOMAIN files |-> FileSteps(files[i], delete_after)])
      \o <<[do |-> "TearDown"]>>

full(list, delete_after) == <<[do |-> "List"]>> \o for_list(all_files(list), delete_after)

max_download_bytes(plan) ==
    FoldSeq(LAMBDA step, sum :
                IF step.do = "Download" THEN expected_bytes(step.size_kib).max + sum ELSE sum, 0, plan)

\* A step as an app gets it; no plan at all for a body that does not parse.
FfiStep(step) ==
    CASE step.do = "List" -> [do |-> "List", url |-> list_url]
      [] step.do = "Thumbnail" -> step @@ [url |-> thumbnail_url(step.name)]
      [] step.do = "Download" ->
           step @@ [url |-> download_url(step.name), bytes |-> expected_bytes(step.size_kib)]
      [] step.do = "Delete" -> step @@ [url |-> delete_url(step.name)]
      [] OTHER -> step

glasses_wifi_sync_plan(list, delete_after) ==
    IF ~ list.ok THEN <<>>
    ELSE [i \in DOMAIN full(list, delete_after) |-> FfiStep(full(list, delete_after)[i])]

-----------------------------------------------------------------------------
(* The server.  Fields may come in another order, with one of a later      *)
(* firmware among them, and a count that is not the number of rows.        *)

Pair(key, v) == [key |-> <<key>>, value |-> v]
Deep == Array(<<Object(<<Pair("name", Key("x"))>>), Literal("true")>>)

ObjectOf(style, pairs) ==
    LET known == IF style.reversed THEN Reverse(pairs) ELSE pairs
    IN  Object(IF style.unknown THEN <<Pair("later", Deep)>> \o known ELSE known)

RowOf(style, f) ==
    ObjectOf(style, <<Pair("name", Text(f.name)), Pair("createtimestr", Digits(f.when)),
                      Pair("size", Number(f.bytes \div Kib)), Pair("type", Number(1))>>)

FolderOf(style, c) ==
    ObjectOf(style,
        <<Pair("folder", Key(c.folder)),
          Pair("count", Number(Len(c.files) + (IF style.miscount THEN 1 ELSE 0))),
          Pair("files", Array([i \in DOMAIN c.files |-> RowOf(style, c.files[i])]))>>)

ListReply(style, held) ==
    Written(ObjectOf(style,
            <<Pair("result", Number(0)),
              Pair("info", Array([i \in DOMAIN held |-> FolderOf(style, held[i])]))>>), style.gap)

DeleteReply(style, result) ==
    Written(ObjectOf(style, <<Pair("result", Number(result)), Pair("info", Key("success."))>>),
          style.gap)

Received(n, part) == SubSeq(reply, 1, n) \o part

WebInit ==
    \E held \in Contents, style \in Styles :
        /\ content = held
        /\ \/ asked = "list" /\ reply = ListReply(style, held)
           \/ \E result \in {0, -1} : asked = "delete" /\ reply = DeleteReply(style, result)
        /\ intact = TRUE /\ arrived = 0 /\ cut = <<>>
        /\ answer = Parsed(<<>>)

WebIdle ==
    /\ asked = "nothing" /\ content = <<>> /\ reply = <<>>
    /\ intact = TRUE /\ arrived = 0 /\ cut = <<>>
    /\ answer = Refused(<<"Truncated">>)

\* Another lexeme, or all the rest of a damaged body.
Arrive ==
    /\ arrived < Len(reply)
    /\ arrived' = IF intact THEN arrived + 1 ELSE Len(reply)
    /\ cut' = <<>>
    /\ answer' = Parsed(Received(arrived', cut'))
    /\ UNCHANGED <<asked, content, reply, intact>>

\* A packet ends inside a lexeme.
ArriveCut ==
    /\ arrived < Len(reply) /\ cut = <<>> /\ intact
    /\ \E part \in CutsOf(reply[arrived + 1]) : cut' = <<part>>
    /\ answer' = Parsed(Received(arrived, cut'))
    /\ UNCHANGED <<asked, content, reply, intact, arrived>>

\* One lexeme lost, one too many, or one replaced.
Damage ==
    /\ arrived = 0 /\ cut = <<>> /\ intact
    /\ \E i \in DOMAIN reply :
          \/ reply' = RemoveAt(reply, i)
          \/ \E x \in Junk : reply' = InsertAt(reply, i, x) \/ reply' = ReplaceAt(reply, i, x)
          \/ \E x \in Junk : reply' = Append(reply, x)
    /\ intact' = FALSE
    /\ UNCHANGED <<asked, content, arrived, cut, answer>>

WebNext == Arrive \/ ArriveCut \/ Damage

-----------------------------------------------------------------------------
\* A caller streaming a reply can wait on Truncated and must not on anything
\* else (fileapi.rs:572): every proper prefix of a sound reply says it, only one
\* that ends with a minus sign does not.
CutIsTruncated ==
    asked # "nothing" /\ intact /\ arrived < Len(reply) /\ cut # <<Minus>> =>
        answer = Refused(<<"Truncated">>)

\* Each file as an app should get it, from what the glasses know of it.
Held(f) ==
    LET kib == f.bytes \div Kib
    IN  [entry |-> [name |-> f.name, folder |-> Head(f.name), kind |-> holds[Head(f.name)],
                    size_kib |-> kib, created |-> f.when, raw_type |-> 1],
         basename |-> Last(f.name), bytes |-> expected_bytes(kib)]

HeldFiles == FlattenSeq([i \in DOMAIN content |->
    [j \in DOMAIN content[i].files |-> Held(content[i].files[j])]])

\* A whole reply is what the glasses hold or did, in whatever order and company its
\* fields come and whatever the count says; and of a damaged one, what is
\* accepted is what the text says, no lexeme skipped or read twice.
ReplyIsRead ==
    LET shown == glasses_wifi_parse_file_list(answer)
    IN  arrived = Len(reply) /\ asked # "nothing" =>
        /\ intact /\ asked = "list" =>
             /\ answer.ok /\ shown.ok
             /\ FlattenSeq([i \in DOMAIN shown.list.folders |-> shown.list.folders[i].files]) = HeldFiles
             /\ shown.list.total_files = Len(HeldFiles)
             /\ shown.list.total_size_kib = FoldSeq(LAMBDA f, sum : f.entry.size_kib + sum, 0, HeldFiles)
             /\ \A c \in DOMAIN content :
                    files_in(answer, content[c].folder)
                        = [j \in DOMAIN content[c].files |-> Held(content[c].files[j]).entry]
        /\ intact /\ asked = "delete" => answer.ok /\ answer.success = (answer.result = 0)
        /\ answer.ok =>
             SelectSeq(reply, LAMBDA x : x # Blank) = Written(json_parse(reply).value, <<>>)

\* The file of the glasses a URL asks for.
Asks(url, name) ==
    percent_encode_file_arg(name) \in {url.file, url.path}

\* An app that walks the plan made of what arrived asks for every file the
\* glasses hold, takes its whole length for a complete download, deletes it
\* only after, moves no more bytes than announced, and powers the access point
\* down once, when there is nothing left to ask for.
PlanSavesFirst ==
    LET plan == glasses_wifi_sync_plan(answer, TRUE)
        Doing(what) == {i \in DOMAIN plan : plan[i].do = what}
    IN  intact /\ asked = "list" /\ plan # <<>> =>
        /\ \A i \in Doing("Delete") : \E j \in Doing("Download") :
              j < i /\ Asks(plan[i].url, plan[j].name)
        /\ \A c \in DOMAIN content : \A f \in ToSet(content[c].files) :
              \E j \in Doing("Download") :
                 /\ Asks(plan[j].url, f.name)
                 /\ plan[j].bytes.min <= f.bytes /\ f.bytes <= plan[j].bytes.max
        /\ Doing("TearDown") = {Len(plan)}
        /\ FoldSeq(LAMBDA c, sum : FoldSeq(LAMBDA f, n : f.bytes + n, 0, c.files) + sum, 0, content)
             <= max_download_bytes(full(answer, TRUE))
=============================================================================
