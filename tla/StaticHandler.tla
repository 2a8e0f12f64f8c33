----------------------------- MODULE StaticHandler -----------------------------
(***************************************************************************)
(* RequestHandlerStatic::handleRequest (src/src/request_handler/          *)
(* request_handler_static.cc) with the MIME lookup of src/src/http/.       *)
(* One step serves one request against the directory tree the process     *)
(* sees; the tree is any one the kernel may hold, chosen in Init.          *)
(*                                                                         *)
(* Strings are sequences of one-character strings, so the two             *)
(* std::string::replace calls and find_last_of('.') are the code's own.   *)
(* Paths are resolved as the kernel resolves them: runs of '/' collapse,  *)
(* "." stays, ".." goes up, and every component before the last must be   *)
(* an existing directory.  The bytes of a file are abstracted to its      *)
(* resolved path: a body tells which file was read.                        *)
(***************************************************************************)
EXTENDS Naturals, SequencesExt

CONSTANTS
  Prefix,     \* prefix: the trimmed location path the handler is registered at
  Root,       \* root: the "root" statement of the block
  Cwd,        \* the process's working directory, as a sequence of names
  FixedDirs,  \* directories that always exist: the ancestors of Cwd and Cwd
  Nodes,      \* other paths that may exist, as sequences of names
  Targets,    \* request targets the dispatcher routes to this handler
  NoRequest,  \* req before the first request
  NoReply     \* reply before the first request

\* The dispatcher routes a target here only when Prefix is a prefix of it.
ASSUME \A t \in Targets : IsPrefix(Prefix, t)

Kinds == {"none", "dir", "file", "unreadable"}

VARIABLES
  fs,         \* the kind of each path in Nodes; "unreadable": ifstream fails
  req,        \* history: the last target served
  reply       \* the response: [status, body, type]

vars == <<fs, req, reply>>

-----------------------------------------------------------------------------
(* The kernel's view of a path                                              *)

KindIn(f, p) ==
  IF p = <<>> \/ p \in FixedDirs THEN "dir"
  ELSE IF p \in Nodes THEN f[p] ELSE "none"

Kind(p) == KindIn(fs, p)

\* The names of a path string: the pieces between runs of '/'.
RECURSIVE PathSegments(_)
PathSegments(s) ==
  LET j == SelectInSeq(s, LAMBDA c : c = "/") IN
  IF s = <<>> THEN <<>>
  ELSE IF j = 1 THEN PathSegments(Tail(s))
  ELSE IF j = 0 THEN <<s>>
  ELSE <<SubSeq(s, 1, j - 1)>> \o PathSegments(SubSeq(s, j, Len(s)))

EndsWithSlash(s) == s # <<>> /\ Last(s) = "/"

\* Name lookup from directory cur: ok is FALSE when a component before the
\* last is not a directory (ENOENT, ENOTDIR).
RECURSIVE Walk(_, _)
Walk(cur, segs) ==
  IF segs = <<>> THEN [ok |-> TRUE, at |-> cur]
  ELSE LET s == Head(segs) IN
    IF s = <<".">> THEN Walk(cur, Tail(segs))
    ELSE IF s = <<".", ".">> THEN Walk(IF cur = <<>> THEN <<>> ELSE Front(cur), Tail(segs))
    ELSE IF Tail(segs) # <<>> /\ Kind(cur \o <<s>>) # "dir"
         THEN [ok |-> FALSE, at |-> cur \o <<s>>]
    ELSE Walk(cur \o <<s>>, Tail(segs))

Resolve(uri) ==
  Walk(IF uri # <<>> /\ uri[1] = "/" THEN <<>> ELSE Cwd, PathSegments(uri))

-----------------------------------------------------------------------------
(* The handler                                                              *)

\* std::string::replace(0, n, r).
ReplaceHead(s, n, r) == r \o SubSeq(s, n + 1, Len(s))

\* Mutant of MapUri: the "../" substitution is left out.
MapUriAbsolute(t) == ReplaceHead(t, Len(Prefix), Root)

\* The prefix replaced by root, then the first character by "../".
MapUri(t) == ReplaceHead(ReplaceHead(t, Len(Prefix), Root), 1, <<".", ".", "/">>)

\* exists(uri) && is_regular_file(uri); a trailing '/' after a regular file
\* is ENOTDIR, so exists() is false.
IsRegularFile(uri) ==
  LET w == Resolve(uri) IN
  w.ok /\ ~EndsWithSlash(uri) /\ Kind(w.at) \in {"file", "unreadable"}

\* std::ifstream f(uri) succeeds.
Opens(uri) == Kind(Resolve(uri).at) = "file"

\* The characters after uri.find_last_of("."), or "" for npos.
Extension(uri) ==
  LET c == SelectLastInSeq(uri, LAMBDA ch : ch = ".") IN
  IF c = 0 THEN <<>> ELSE SubSeq(uri, c + 1, Len(uri))

\* mime_types::mappings.
Mappings ==
  << [extension |-> <<"g", "i", "f">>,      mime_type |-> "image/gif"],
     [extension |-> <<"h", "t", "m">>,      mime_type |-> "text/html"],
     [extension |-> <<"h", "t", "m", "l">>, mime_type |-> "text/html"],
     [extension |-> <<"j", "p", "g">>,      mime_type |-> "image/jpeg"],
     [extension |-> <<"p", "n", "g">>,      mime_type |-> "image/png"],
     [extension |-> <<"p", "d", "f">>,      mime_type |-> "application/pdf"] >>

\* mime_types::extension_to_type: the first mapping of the extension.
ExtensionToType(ext) ==
  LET ms == {i \in DOMAIN Mappings : Mappings[i].extension = ext} IN
  IF ms = {} THEN "text/plain" ELSE Mappings[Min(ms)].mime_type

NotFound == [status |-> 404, body |-> [text |-> "File not found"], type |-> "text/plain"]

\* Every kind of each path, such that what exists sits in a directory.
Trees ==
  {f \in [Nodes -> Kinds] : \A p \in Nodes : f[p] # "none" => KindIn(f, Front(p)) = "dir"}

Init ==
  /\ fs \in Trees
  /\ req = NoRequest
  /\ reply = NoReply

HandleRequest(t) ==
  LET uri == MapUri(t) IN
  /\ req' = t
  /\ \/ /\ ~IsRegularFile(uri)
        /\ reply' = NotFound
     \/ /\ IsRegularFile(uri) /\ ~Opens(uri)
        /\ reply' = NotFound
     \/ /\ IsRegularFile(uri) /\ Opens(uri)
        /\ reply' = [status |-> 200, body |-> [file |-> Resolve(uri).at],
                     type |-> ExtensionToType(Extension(uri))]
  /\ UNCHANGED fs

Next == \E t \in Targets : HandleRequest(t)

Spec == Init /\ [][Next]_vars

-----------------------------------------------------------------------------
(* Properties                                                               *)

\* The root directory the handler serves: root taken relative to the parent
\* of the working directory, as the "../" of the code makes it.
RootDir == Front(Cwd) \o PathSegments(Root)

Rest(t) == SubSeq(t, Len(Prefix) + 1, Len(t))

\* {prefix}/{relative path} with no "." or ".." component.
Clean(t) ==
  /\ Rest(t) # <<>> /\ Rest(t)[1] = "/"
  /\ \A i \in DOMAIN PathSegments(Rest(t)) :
       PathSegments(Rest(t))[i] \notin {<<".">>, <<".", ".">>}

\* The extension of a file name: what follows its last '.'.
NameExtension(n) ==
  LET c == SelectLastInSeq(n, LAMBDA ch : ch = ".") IN
  IF c = 0 THEN <<>> ELSE SubSeq(n, c + 1, Len(n))

\* spec 4.4 and 7: the reply for the file named by the root followed by the
\* part of the target after the prefix.
SpecReply(t) ==
  LET p == RootDir \o PathSegments(Rest(t)) IN
  IF /\ ~EndsWithSlash(t) /\ p # <<>> /\ Kind(p) = "file"
     /\ \A k \in 1..Len(p) - 1 : Kind(SubSeq(p, 1, k)) = "dir"
  THEN [status |-> 200, body |-> [file |-> p], type |-> ExtensionToType(NameExtension(Last(p)))]
  ELSE NotFound

\* The two string replacements and the kernel's lookup together serve, for
\* every target {prefix}/{path}, the file {root}/{path} with the type of its
\* extension, and "File not found" when that is no readable regular file.
ServesMappedFile == req # NoRequest /\ Clean(req) => reply = SpecReply(req)

\* A file served by the handler lies under its root directory, whatever
\* the target holds after the prefix.
ServedUnderRoot ==
  reply # NoReply /\ reply.status = 200 => IsStrictPrefix(RootDir, reply.body.file)

=============================================================================
