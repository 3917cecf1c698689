----------------------------- MODULE ApiErrors -----------------------------
(***************************************************************************)
(* How an error travels from the core of a service to the user of the api: *)
(* the gRPC server of the service turns it into a code, the gRPC client in *)
(* the api turns the code into an error of the api, the HTTP handler turns *)
(* that into a status.  "nil" is success, "other" every error without a    *)
(* name of its own.                                                        *)
(***************************************************************************)
EXTENDS Naturals

\* The errors with a name that the core of a service can return, by operation.
NamedErrors(op) ==
  CASE op \in {"Update", "Drop"} -> {"ErrAlreadyExists"}
    [] op \in {"Find", "IndexedSearch"} ->
         {"ErrEmptyPhrase", "ErrBadArguments", "ErrToLargeLimit",
          "ErrUnavailable", "ErrNonePhrase"}
    [] op = "GetComic" -> {"ErrBadArguments", "ErrComicNotFound"}
    [] op = "ListComics" -> {"ErrToLargeLimit"}
    [] op = "RandomComic" -> {"ErrNonePhrase"}
    [] op = "Register" -> {"ErrUserAlreadyExists", "ErrInvalidEmail"}
    [] op = "Login" -> {"ErrInvalidCredentials", "ErrInvalidEmail"}
    [] op = "BotLogin" -> {"ErrInvalidArgs"}
    [] op = "Add" -> {"ErrInvalidArgs", "ErrAlreadyExists"}
    [] op = "Delete" -> {"ErrInvalidArgs", "ErrNotFound"}
    [] OTHER -> {}

ServiceErrors(op) == {"nil", "other"} \cup NamedErrors(op)

-----------------------------------------------------------------------------
(* The gRPC servers.                                                       *)

UpdateServer(op, err) ==
  CASE err = "nil" -> "OK"
    [] op = "Update" /\ err = "ErrAlreadyExists" -> "AlreadyExists"
    [] OTHER -> "Internal"

SearchServer(op, err) ==
  CASE err = "nil" -> "OK"
    [] err \in {"ErrEmptyPhrase", "ErrBadArguments", "ErrToLargeLimit"}
         -> "InvalidArgument"
    [] err = "ErrComicNotFound" -> "NotFound"
    [] err = "ErrUnavailable" -> "Unavailable"
    [] OTHER -> "Internal"

AuthServer(op, err) ==
  CASE err = "nil" -> "OK"
    [] err = "ErrUserAlreadyExists" -> "AlreadyExists"
    [] err = "ErrInvalidCredentials" -> "Unauthenticated"
    [] err \in {"ErrInvalidEmail", "ErrInvalidArgs"} -> "InvalidArgument"
    [] OTHER -> "Internal"

FavoritesServer(op, err) ==
  CASE err = "nil" -> "OK"
    [] err = "ErrInvalidArgs" -> "InvalidArgument"
    [] err = "ErrAlreadyExists" -> "AlreadyExists"
    [] err = "ErrNotFound" -> "NotFound"
    [] OTHER -> "Internal"

\* The Ping of every service but update and words asks its database.
PingServer(op, err) == IF err = "nil" THEN "OK" ELSE "Unavailable"

-----------------------------------------------------------------------------
(* The gRPC clients of the api.                                            *)

\* No answer: from the transport, the deadline or a cancelled context.
NoAnswer == {"Unavailable", "DeadlineExceeded", "Canceled"}

UpdateClient(op, code) ==
  CASE code = "OK" -> "nil"
    [] code \in NoAnswer -> "ErrUnavailable"
    [] op = "Update" /\ code = "AlreadyExists" -> "ErrAlreadyExists"
    [] OTHER -> "other"

SearchClient(op, code) ==
  CASE code = "OK" -> "nil"
    [] code \in NoAnswer -> "ErrUnavailable"
    [] op \in {"Find", "IndexedSearch", "ListComics"}
         /\ code = "InvalidArgument" -> "ErrBadArguments"
    [] op = "GetComic" /\ code = "NotFound" -> "ErrBadArguments"
    [] OTHER -> "other"

AuthClient(op, code) ==
  CASE code = "OK" -> "nil"
    [] code \in NoAnswer -> "ErrUnavailable"
    [] op = "BotLogin" /\ code = "InvalidArgument" -> "ErrBadArguments"
    [] op # "BotLogin" /\ code = "InvalidArgument" -> "ErrInvalidEmail"
    [] op = "Register" /\ code = "AlreadyExists" -> "ErrAlreadyExists"
    [] op = "Login" /\ code = "Unauthenticated" -> "ErrInvalidCredentials"
    [] OTHER -> "other"

\* Mutant of FavoritesClient: a call that ran into the deadline is an error of
\* the api.
FavoritesClientNoDeadline(op, code) ==
  CASE code = "OK" -> "nil"
    [] code = "Unavailable" -> "ErrUnavailable"
    [] code = "InvalidArgument" -> "ErrBadArguments"
    [] op = "Add" /\ code = "AlreadyExists" -> "ErrAlreadyExists"
    [] op = "Delete" /\ code = "NotFound" -> "ErrNotFound"
    [] OTHER -> "other"

FavoritesClient(op, code) ==
  CASE code = "OK" -> "nil"
    [] code \in NoAnswer -> "ErrUnavailable"
    [] code = "InvalidArgument" -> "ErrBadArguments"
    [] op = "Add" /\ code = "AlreadyExists" -> "ErrAlreadyExists"
    [] op = "Delete" /\ code = "NotFound" -> "ErrNotFound"
    [] OTHER -> "other"

-----------------------------------------------------------------------------
(* The HTTP handlers, after their last call.                               *)

UpdateHandlers(route, err) ==
  CASE err = "nil" -> 200
    [] route = "update" /\ err = "ErrAlreadyExists" -> 202
    [] err = "ErrUnavailable" -> 503
    [] OTHER -> 500

SearchHandlers(route, err) ==
  CASE err = "nil" -> 200
    [] err = "ErrBadArguments" -> 400
    [] err = "ErrUnavailable" -> 503
    [] OTHER -> 500

ComicsHandlers(route, err) ==
  CASE err = "nil" -> 200
    [] route = "comic" /\ err = "ErrBadArguments" -> 404
    [] route = "comics" /\ err = "ErrBadArguments" -> 400
    [] err = "ErrUnavailable" -> 503
    [] OTHER -> 500

AuthHandlers(route, err) ==
  CASE err = "nil" -> 200
    [] err \in {"ErrInvalidEmail", "ErrBadArguments"} -> 400
    [] err = "ErrInvalidCredentials" -> 401
    [] err = "ErrAlreadyExists" -> 409
    [] err = "ErrUnavailable" -> 503
    [] OTHER -> 500

\* An error of GetComic ends the add as it ends a request for a comic.
FavoritesHandlers(route, op, err) ==
  CASE err = "nil" -> IF route = "favlist" THEN 200 ELSE 204
    [] op = "GetComic" /\ err = "ErrBadArguments" -> 404
    [] err = "ErrAlreadyExists" -> 409
    [] err = "ErrNotFound" -> 404
    [] op # "GetComic" /\ err = "ErrBadArguments" -> 400
    [] err = "ErrUnavailable" -> 503
    [] OTHER -> 500
=============================================================================
