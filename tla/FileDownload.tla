---------------------------- MODULE FileDownload ----------------------------
(***************************************************************************)
(* A download of a file while the file is replaced or deleted: downloadFile *)
(* of src/ui/src/services/file-transfer.js and handleGet of the plugin's   *)
(* file-manager/handler.js.  A file is known by its size in chunks.        *)
(***************************************************************************)
EXTENDS Naturals, Sequences

CONSTANT MaxSize         \* bound: chunks of a file

Sizes == 1..MaxSize
None == 0

VARIABLES
    size,                \* the file: its size, or None
    st,                  \* the download at the tab
    head,                \* the size the header has told
    got,                 \* the chunks the tab has got
    get,                 \* the plugin's side
    body,                \* the size of the file it has opened, if any
    pos,                 \* what it has sent of it
    chan                 \* the channel: what is on its way to the tab

vars == <<size, st, head, got, get, body, pos, chan>>
tab == <<st, head, got>>
plugin == <<get, body, pos>>

TypeOK ==
    /\ size \in Sizes \cup {None} /\ head \in Sizes \cup {None} /\ body \in Sizes \cup {None}
    /\ st \in {"none", "asked", "header", "done", "failed"}
    /\ get \in {"none", "stat", "read", "over"}
    /\ got \in 0..MaxSize /\ pos \in 0..MaxSize
    /\ chan \in Seq({"header", "chunk", "end", "error", "close"})

Init ==
    /\ size = None /\ st = "none" /\ get = "none" /\ chan = <<>>
    /\ head = None /\ got = 0 /\ body = None /\ pos = 0

\* An upload is renamed to it, or the file is deleted.
Replaced == \E f \in Sizes \cup {None} : size' = f /\ UNCHANGED <<tab, plugin, chan>>

-----------------------------------------------------------------------------
(* The plugin *)

Sends(ms) == chan' = chan \o ms
Answer(ms) == get' = "over" /\ Sends(ms)

\* handleGet: the header tells the size of the file there is.
Header ==
    /\ get = "stat"
    /\ \/ size = None /\ Answer(<<"error", "close">>) /\ UNCHANGED head
       \/ size # None /\ get' = "read" /\ Sends(<<"header">>) /\ head' = size
    /\ UNCHANGED <<size, st, got, body, pos>>

\* Only then the file is opened, to be read to its end.
Open ==
    /\ get = "read" /\ body = None
    /\ \/ size = None /\ Answer(<<"error", "close">>) /\ UNCHANGED body
       \/ size # None /\ body' = size /\ UNCHANGED <<get, chan>>
    /\ UNCHANGED <<size, tab, pos>>

Read ==
    /\ get = "read" /\ body # None
    /\ \/ pos < body /\ pos' = pos + 1 /\ Sends(<<"chunk">>) /\ UNCHANGED get
       \/ pos = body /\ Answer(<<"end", "close">>) /\ UNCHANGED pos
       \/ Answer(<<"error", "close">>) /\ UNCHANGED pos       \* the stream fails
    /\ UNCHANGED <<size, tab, body>>

\* The peer connection breaks, and what is on its way is lost.
Breaks ==
    /\ st \in {"asked", "header"} /\ chan # <<"close">>
    /\ chan' = <<"close">> /\ get' = "over"
    /\ UNCHANGED <<size, tab, body, pos>>

-----------------------------------------------------------------------------
(* The tab *)

Ask ==
    /\ st = "none"
    /\ st' = "asked" /\ get' = "stat"
    /\ UNCHANGED <<size, head, got, body, pos, chan>>

\* The user cancels, or the channel has an error.
Cancel ==
    /\ st \in {"asked", "header"}
    /\ st' = "failed" /\ get' = "over" /\ chan' = <<>>
    /\ UNCHANGED <<size, head, got, body, pos>>

Gets(m) ==
    /\ st \in {"asked", "header"} /\ chan # <<>> /\ Head(chan) = m
    /\ chan' = IF m \in {"header", "chunk"} THEN Tail(chan) ELSE <<>>

GetsHeader == Gets("header") /\ st' = "header" /\ UNCHANGED <<size, head, got, plugin>>
GetsChunk == Gets("chunk") /\ got' = got + 1 /\ UNCHANGED <<size, st, head, plugin>>
GetsEnd == Gets("end") /\ st' = "done" /\ UNCHANGED <<size, head, got, plugin>>
GetsError == Gets("error") /\ st' = "failed" /\ UNCHANGED <<size, head, got, plugin>>

\* onclose: a download that has the size the header has told is complete, the
\* confirmation may be lost.  And whatever it has.
AnySize == st = "header"
HasAll == st = "header" /\ got >= head
GetsClose ==
    /\ Gets("close")
    /\ st' = IF HasAll THEN "done" ELSE "failed"
    /\ UNCHANGED <<size, head, got, plugin>>

Next ==
    \/ Replaced \/ Header \/ Open \/ Read \/ Breaks
    \/ Ask \/ Cancel \/ GetsHeader \/ GetsChunk \/ GetsEnd \/ GetsError \/ GetsClose

Spec == Init /\ [][Next]_vars

-----------------------------------------------------------------------------
(* Properties *)

\* A download that is done is all of the file the plugin has read.  Only if a
\* shorter file was there when the header was sent, an early end of the channel
\* is taken for the end of the file.
DownloadIsWhole == TypeOK /\ (st = "done" => got = body \/ head < body)
=============================================================================
