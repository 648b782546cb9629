---------------------------- MODULE ResponseType ----------------------------
(***************************************************************************)
(* The values that travel through the completion blocks of the app.        *)
(*                                                                         *)
(* ResponseType<T> is an enumeration with a success case that carries a    *)
(* value and a failure case that carries an error.  Which error it is only *)
(* matters to tests for its presence, so errors are named by their case.   *)
(***************************************************************************)

Success(value) == [type |-> "success", value |-> value]

Failure(error) == [type |-> "failure", value |-> error]

IsSuccess(response) == response.type = "success"

(***************************************************************************)
(* The errors a networking call can end with: the transport's own error    *)
(* (a timeout included), NetworkingServiceError and APINetworkingError.    *)
(***************************************************************************)
NetworkErrors == {"transport", "urlError", "noDataReceived", "jsonDecodingError"}

(***************************************************************************)
(* The errors a database call can end with (APIDatabaseError).             *)
(***************************************************************************)
DatabaseErrors == {"databaseReadError", "conversionError"}

=============================================================================
