------------------------------- MODULE Uploads -------------------------------
(***************************************************************************)
(* Images in object storage: setAvatar of UsersService, POST image and     *)
(* POST presign of UploadsController, with StorageService's choice of a    *)
(* content type. A key is made for each request (images/<user>/<uuid>).    *)
(* The bucket is external: a PUT stores the object, or fails.              *)
(*                                                                         *)
(*   unused -> asked -> putting -> [updating ->] done  (avatar, image)     *)
(*             asked -> signed -> put                  (presign)           *)
(***************************************************************************)
EXTENDS Rows

CONSTANTS Uploader,   \* users
          ImageType,
          Files       \* the files that are uploaded

\* What can be told of a file by its first bytes, its header and its name
File == [bytes : ImageType \cup {None}, header : ImageType \cup {None},
         name : ImageType \cup {None}]

Object == [type : ImageType, bytes : ImageType \cup {None}]

ASSUME UploadsAssumption ==
    None \notin Uploader \cup ImageType \cup Object /\ Files \subseteq File

VARIABLES
    bucket,      \* the objects stored under the key of each request
    avatarUrl,   \* of each user: a key
    upload       \* the requests

uploadVars == <<bucket, avatarUrl, upload>>

UploadStages == {"unused", "asked", "putting", "updating", "signed", "put", "done",
                 "refused", "failed"}
NoFile == [bytes |-> None, header |-> None, name |-> None]
NoUpload == [stage |-> "unused", kind |-> "image", user |-> None, file |-> NoFile, type |-> None]

UploadsInit ==
    /\ bucket = [k \in Task |-> None]
    /\ avatarUrl = [u \in Uploader |-> None]
    /\ upload = [t \in Task |-> NoUpload]

-----------------------------------------------------------------------------
Advance(t, from, to) == upload[t].stage = from /\ upload' = [upload EXCEPT ![t].stage = to]

(* Mutant: the header is believed before the bytes                         *)
SniffHeader(file) ==
    IF file.header # None THEN file.header
    ELSE IF file.bytes # None THEN file.bytes ELSE file.name

(* sniffImageType: the bytes, then the header, then the name               *)
Sniff(file) ==
    IF file.bytes # None THEN file.bytes
    ELSE IF file.header # None THEN file.header ELSE file.name

AskUpload(t, u, kind, file) ==
    /\ upload[t].stage = "unused"
    /\ kind = "presign" => file.bytes = None
    /\ upload' = [upload EXCEPT ![t] = [NoUpload EXCEPT
                    !.stage = "asked", !.kind = kind, !.user = u, !.file = file]]
    /\ UNCHANGED <<bucket, avatarUrl>>

(* requireMembership (but for an avatar), the type, and the key            *)
ChooseType(t) ==
    LET type == Sniff(upload[t].file) IN
    /\ upload[t].stage = "asked"
    /\ upload' = [upload EXCEPT
         ![t] = IF type = None THEN [NoUpload EXCEPT !.stage = "refused"]
                ELSE [@ EXCEPT !.type = type,
                               !.stage = IF upload[t].kind = "presign" THEN "signed" ELSE "putting"]]
    /\ UNCHANGED <<bucket, avatarUrl>>

(* Mutant: the upload is not awaited, and may fail afterwards              *)
PutUnawaited(t) ==
    /\ Advance(t, "putting", IF upload[t].kind = "avatar" THEN "updating" ELSE "done")
    /\ \E stored \in {None, [type |-> upload[t].type, bytes |-> upload[t].file.bytes]} :
         bucket' = [bucket EXCEPT ![t] = stored]
    /\ UNCHANGED avatarUrl

(* uploadBuffer: `await client.send(PutObjectCommand)'                     *)
Put(t) ==
    /\ Advance(t, "putting", IF upload[t].kind = "avatar" THEN "updating" ELSE "done")
    /\ bucket' = [bucket EXCEPT ![t] = [type |-> upload[t].type, bytes |-> upload[t].file.bytes]]
    /\ UNCHANGED avatarUrl

(* users.update(userId, { avatarUrl })                                     *)
SetAvatar(t) ==
    /\ Advance(t, "updating", "done")
    /\ avatarUrl' = [avatarUrl EXCEPT ![upload[t].user] = t]
    /\ UNCHANGED bucket

(* The client puts what it likes at the URL it got, with the type that was *)
(* signed, or does not                                                     *)
PutSigned(t) ==
    /\ Advance(t, "signed", "put")
    /\ \E bytes \in ImageType \cup {None} :
         bucket' = [bucket EXCEPT ![t] = [type |-> upload[t].type, bytes |-> bytes]]
    /\ UNCHANGED avatarUrl

(* No member, a storage that is not configured, a failed PUT or update: an *)
(* object that was stored stays                                            *)
UploadFails(t) ==
    /\ upload[t].stage \in {"asked", "putting", "updating"}
    /\ upload' = [upload EXCEPT ![t] = [NoUpload EXCEPT !.stage = "failed"]]
    /\ UNCHANGED <<bucket, avatarUrl>>

UploadsNext ==
    \E t \in Task :
        \/ ChooseType(t) \/ Put(t) \/ SetAvatar(t) \/ PutSigned(t) \/ UploadFails(t)
        \/ \E u \in Uploader, kind \in {"avatar", "image", "presign"}, file \in Files :
              AskUpload(t, u, kind, file)

UploadsSpec == UploadsInit /\ [][UploadsNext]_uploadVars

-----------------------------------------------------------------------------
(* Properties *)

UploadsTypeOK ==
    /\ bucket \in [Task -> Object \cup {None}]
    /\ avatarUrl \in [Uploader -> Task \cup {None}]
    /\ upload \in [Task -> [stage : UploadStages, kind : {"avatar", "image", "presign"},
                            user : Uploader \cup {None}, file : File, type : ImageType \cup {None}]]

(* A key that is anyone's avatar, or was answered to an upload, names a    *)
(* stored object, whichever of a user's uploads comes last and whichever   *)
(* of their steps failed. (A key that was only signed may never be put.)   *)
KeysLoad ==
    /\ \A u \in Uploader : avatarUrl[u] # None =>
         bucket[avatarUrl[u]] # None /\ upload[avatarUrl[u]].user = u
    /\ \A t \in Task : upload[t].stage = "done" => bucket[t] # None

(* An image whose bytes are recognised is stored as what it is, whatever   *)
(* its header and its name say (storage.service line 82), unless the       *)
(* client has put it itself.                                               *)
TypeIsTrue ==
    \A t \in Task : upload[t].kind # "presign" /\ bucket[t] # None =>
        bucket[t].bytes \in {None, bucket[t].type}
=============================================================================
