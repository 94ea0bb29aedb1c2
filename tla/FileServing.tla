---------------------------- MODULE FileServing ----------------------------
(***************************************************************************)
(* The file handlers of httc: serve_file and list_directory                *)
(* (src/utils/fs.cpp) and DirectoryHandler (src/utils/file_handlers.cpp),  *)
(* called by a handler that has the Response of module Response.           *)
(*                                                                         *)
(* Every question to the file system is a step of its own: other processes *)
(* change what is there between two of them, and while a file is read.     *)
(* Statuses and header fields other than Content-Length are left out: what *)
(* matters here is what is written, and when.                              *)
(***************************************************************************)
EXTENDS Response

VARIABLES
    at,         \* where the file handler stands; "no": none runs
    thing,      \* what the name leads to; what the file holds, once it is open
    size,       \* what file_size() said
    pos,        \* how far the file was read
    disturbed   \* something changed, or was not read, while it was served

serving == <<at, thing, size, pos, disturbed>>

\* Nothing of that name (or nothing that can be seen), a directory, or a
\* regular file of some size.
Nothing   == -1
Directory == -2
Things    == {Nothing, Directory} \cup Sizes

ByName  == {"directory", "index", "list", "exists", "size", "open"}
Opened  == {"send", "read"}
Ended   == {"returned", "failed"}

NotServing == at = "no" /\ thing = Nothing /\ size = 0 /\ pos = 0

Goes(from, to) == at = from /\ at' = to

-----------------------------------------------------------------------------
(* DirectoryHandler.                                                       *)

\* The handler is a FileHandler, or calls serve_file; or a DirectoryHandler.
CallFileHandler ==
    /\ at = "no" /\ at' \in {"exists", "directory"}
    /\ thing' \in Things
    /\ UNCHANGED <<vars, size, pos, disturbed>>

\* sanitize_path: an absolute path, or one with "..", is refused (403).
RefusePath == Goes("directory", "returned") /\ UNCHANGED <<vars, thing, size, pos, disturbed>>

\* A directory's path without a slash at its end is redirected (301).
Redirect ==
    /\ thing = Directory
    /\ Goes("directory", "returned")
    /\ UNCHANGED <<vars, thing, size, pos, disturbed>>

IsDirectory ==
    /\ at = "directory"
    /\ at' = IF thing = Directory THEN "index" ELSE "exists"
    /\ UNCHANGED <<vars, thing, size, pos, disturbed>>

\* There is an index.html, whatever it is.
HasIndex ==
    /\ Goes("index", "exists")
    /\ thing' \in Things \ {Nothing}
    /\ UNCHANGED <<vars, size, pos, disturbed>>

\* There is none: a listing, or that is not allowed (403).
HasNoIndex ==
    /\ at = "index" /\ at' \in {"list", "returned"}
    /\ UNCHANGED <<vars, thing, size, pos, disturbed>>

\* The directory is read, as a body of some size.  Or that fails (500), the
\* iterator throws, or set_body does because the response is initialized.
ListDirectory ==
    /\ at = "list"
    /\ \/ /\ thing = Directory /\ mstate = "Uninitialized"
          /\ at' = "returned"
          /\ \E n \in Sizes : SetBody(n)
       \/ at' = "returned" /\ UNCHANGED vars
       \/ /\ thing = Directory
          /\ at' = "failed" /\ UNCHANGED vars
    /\ UNCHANGED <<thing, size, pos, disturbed>>

-----------------------------------------------------------------------------
(* serve_file.                                                             *)

\* exists() and is_regular_file(), else 404.
IsRegular ==
    /\ at = "exists"
    /\ at' = IF thing \in Sizes THEN "size" ELSE "returned"
    /\ UNCHANGED <<vars, thing, size, pos, disturbed>>

\* file_size(), else 500.
FileSize ==
    /\ at = "size"
    /\ IF thing \in Sizes
       THEN at' = "open" /\ size' = thing
       ELSE at' = "returned" /\ UNCHANGED size
    /\ UNCHANGED <<vars, thing, pos, disturbed>>

\* open(), else 403; a directory can be opened, too.
OpenFile ==
    /\ at = "open"
    /\ at' \in (IF thing = Nothing THEN {} ELSE {"send"}) \cup {"returned"}
    /\ UNCHANGED <<vars, thing, size, pos, disturbed>>

AnnounceInAnyState ==
    /\ at = "send"
    /\ SendFixedAgain(size)
    /\ at' = IF up THEN "read" ELSE "failed"
    /\ UNCHANGED <<thing, size, pos, disturbed>>

\* send_fixed(size), which throws when the response is initialized.  Nobody
\* asks is_head(): a Response that knows of a HEAD gets the file all the same.
Announce ==
    /\ at = "send"
    /\ IF mstate = "Uninitialized"
       THEN /\ SendFixed(size)
            /\ at' = IF up THEN "read" ELSE "failed"
            /\ disturbed' = (disturbed \/ mhead)
       ELSE at' = "failed" /\ UNCHANGED <<vars, disturbed>>
    /\ UNCHANGED <<thing, size, pos>>

\* A piece of what the file holds is read, and written.
Copy ==
    /\ at = "read"
    /\ \E n \in Sizes \ {0} :
        /\ pos + n <= thing
        /\ FixedWrite(n)
        /\ pos' = pos + n
    /\ at' = IF up THEN "read" ELSE "failed"
    /\ UNCHANGED <<thing, size, disturbed>>

CopyEndsEarly ==
    /\ Goes("read", "returned")
    /\ pos + 1 >= thing
    /\ UNCHANGED <<vars, thing, size, pos, disturbed>>

\* The end of the file, or an error: serve_file returns all the same.
CopyEnds ==
    /\ Goes("read", "returned")
    /\ \/ thing # Directory /\ pos >= thing /\ UNCHANGED disturbed
       \/ disturbed' = TRUE
    /\ UNCHANGED <<vars, thing, size, pos>>

FileStep ==
    \/ RefusePath \/ Redirect \/ IsDirectory \/ HasIndex \/ HasNoIndex \/ ListDirectory
    \/ IsRegular \/ FileSize \/ OpenFile \/ Announce \/ Copy \/ CopyEnds

\* Another process changes what the name leads to, or the file in place.
Change ==
    /\ \/ at \in ByName /\ thing' \in Things \ {thing}
       \/ at \in Opened /\ thing # Directory /\ thing' \in Sizes \ {thing}
    /\ disturbed' = TRUE
    /\ UNCHANGED <<vars, at, size, pos>>

\* The coroutine is gone, and with it the file it had opened.
Leave ==
    /\ at \in Ended
    /\ at' = "no" /\ thing' = Nothing /\ size' = 0 /\ pos' = 0
    /\ UNCHANGED <<vars, disturbed>>

-----------------------------------------------------------------------------

\* Every variable has its type, and a size that is announced was read.
ServingTypeOK ==
    /\ at \in {"no"} \cup ByName \cup Opened \cup Ended
    /\ thing \in Things
    /\ size \in Nat /\ pos \in Nat
    /\ at \in {"open"} \cup Opened => size \in Sizes
    /\ disturbed \in BOOLEAN

=============================================================================
