---------------------------- MODULE UploadsProofs ----------------------------
(***************************************************************************)
(* For any users, image types and files: the keys that are shown load, and *)
(* images are stored as what their bytes are. Neither is inductive: what a *)
(* request has done with its object and its key follows from its stage.    *)
(***************************************************************************)
EXTENDS Uploads, TLAPS

(* What a request at each stage has stored, and as what                    *)
Stored ==
    \A t \in Task :
        /\ upload[t].stage \in {"unused", "asked", "putting", "signed"} => bucket[t] = None
        /\ upload[t].stage \in {"updating", "done"} => bucket[t] # None
        /\ upload[t].stage \in {"signed", "put"} => upload[t].kind = "presign"
        /\ upload[t].stage \in {"putting", "updating"} => upload[t].kind # "presign"
        /\ upload[t].stage \in {"putting", "signed"} => upload[t].type # None
        /\ upload[t].stage = "putting" => upload[t].file.bytes \in {None, upload[t].type}

(* An avatar is the key of a request of its user that is done              *)
AvatarDone ==
    \A u \in Uploader : avatarUrl[u] # None =>
        upload[avatarUrl[u]].stage = "done" /\ upload[avatarUrl[u]].user = u

UInv == UploadsTypeOK /\ Stored /\ AvatarDone /\ TypeIsTrue

UploadRequests == [stage : UploadStages, kind : {"avatar", "image", "presign"},
                   user : Uploader \cup {None}, file : File, type : ImageType \cup {None}]

-----------------------------------------------------------------------------
LEMMA UploadsInitInv == UploadsInit => UInv
  <1> SUFFICES ASSUME UploadsInit PROVE UInv
    OBVIOUS
  <1>1. NoFile \in File
    BY DEF NoFile, File
  <1>2. NoUpload \in UploadRequests
    BY <1>1 DEF NoUpload, UploadRequests, UploadStages
  <1>3. UploadsTypeOK
    BY <1>2 DEF UploadsInit, UploadsTypeOK, UploadRequests
  <1>4. Stored /\ AvatarDone /\ TypeIsTrue
    BY DEF UploadsInit, Stored, AvatarDone, TypeIsTrue, NoUpload
  <1>5. QED
    BY <1>3, <1>4 DEF UInv

(* The type that is chosen is what the bytes say, if they say anything.    *)
LEMMA SniffTells ==
    ASSUME NEW file \in File, Sniff(file) # None
    PROVE  Sniff(file) \in ImageType /\ file.bytes \in {None, Sniff(file)}
  BY DEF Sniff, File

LEMMA AskUploadStep ==
    ASSUME UInv, NEW t \in Task, NEW u \in Uploader,
           NEW kind \in {"avatar", "image", "presign"}, NEW file \in Files,
           AskUpload(t, u, kind, file)
    PROVE  UInv'
  <1> DEFINE r == [NoUpload EXCEPT !.stage = "asked", !.kind = kind, !.user = u, !.file = file]
  <1>1. /\ r \in UploadRequests
        /\ r.stage = "asked"
    BY UploadsAssumption DEF NoUpload, NoFile, UploadRequests, UploadStages
  <1>2. /\ upload[t].stage = "unused"
        /\ upload' = [upload EXCEPT ![t] = r]
        /\ UNCHANGED <<bucket, avatarUrl>>
    BY DEF AskUpload
  <1> HIDE DEF r
  <1>3. UploadsTypeOK'
    BY <1>1, <1>2 DEF UInv, UploadsTypeOK, UploadRequests
  <1>4. Stored'
    BY <1>1, <1>2 DEF UInv, UploadsTypeOK, Stored
  <1>5. AvatarDone'
    BY <1>1, <1>2 DEF UInv, UploadsTypeOK, AvatarDone
  <1>6. TypeIsTrue'
    BY <1>1, <1>2 DEF UInv, UploadsTypeOK, Stored, TypeIsTrue
  <1>7. QED
    BY <1>3, <1>4, <1>5, <1>6 DEF UInv

LEMMA ChooseTypeStep ==
    ASSUME UInv, NEW t \in Task, ChooseType(t)
    PROVE  UInv'
  <1> DEFINE type == Sniff(upload[t].file)
             r == IF type = None THEN [NoUpload EXCEPT !.stage = "refused"]
                  ELSE [upload[t] EXCEPT !.type = type,
                          !.stage = IF upload[t].kind = "presign" THEN "signed" ELSE "putting"]
  <1>1. /\ upload[t].stage = "asked" /\ upload[t] \in UploadRequests /\ upload[t].file \in File
        /\ upload' = [upload EXCEPT ![t] = r]
        /\ UNCHANGED <<bucket, avatarUrl>>
    BY DEF ChooseType, UInv, UploadsTypeOK, UploadRequests
  <1>2. NoFile \in File
    BY DEF NoFile, File
  <1>3. type # None => type \in ImageType /\ upload[t].file.bytes \in {None, type}
    BY <1>1, SniffTells
  <1>4. /\ r \in UploadRequests
        /\ r.stage \in {"refused", "signed", "putting"}
        /\ r.stage = "signed" => r.kind = "presign" /\ r.type # None
        /\ r.stage = "putting" => /\ r.kind # "presign" /\ r.type # None
                                  /\ r.file.bytes \in {None, r.type}
    <2>1. CASE type = None
      BY <1>2, <2>1 DEF NoUpload, UploadRequests, UploadStages
    <2>2. CASE type # None
      <3> DEFINE q == [upload[t] EXCEPT !.type = type,
                          !.stage = IF upload[t].kind = "presign" THEN "signed" ELSE "putting"]
      <3>1. /\ q \in UploadRequests
            /\ q.stage = IF upload[t].kind = "presign" THEN "signed" ELSE "putting"
            /\ q.kind = upload[t].kind /\ q.type = type /\ q.file = upload[t].file
        BY <1>1, <1>3, <2>2 DEF UploadRequests, UploadStages
      <3>2. r = q
        BY <2>2
      <3> HIDE DEF q, r
      <3>3. QED
        BY <1>3, <2>2, <3>1, <3>2
    <2>3. QED
      BY <2>1, <2>2
  <1> HIDE DEF r
  <1>5. UploadsTypeOK'
    BY <1>1, <1>4 DEF UInv, UploadsTypeOK, UploadRequests
  <1>6. Stored'
    BY <1>1, <1>4 DEF UInv, UploadsTypeOK, Stored
  <1>7. AvatarDone'
    BY <1>1, <1>4 DEF UInv, UploadsTypeOK, AvatarDone
  <1>8. TypeIsTrue'
    BY <1>1, <1>4 DEF UInv, UploadsTypeOK, Stored, TypeIsTrue
  <1>9. QED
    BY <1>5, <1>6, <1>7, <1>8 DEF UInv

LEMMA PutStep ==
    ASSUME UInv, NEW t \in Task, Put(t)
    PROVE  UInv'
  <1> DEFINE o == [type |-> upload[t].type, bytes |-> upload[t].file.bytes]
             s == IF upload[t].kind = "avatar" THEN "updating" ELSE "done"
  <1>1. /\ upload[t].stage = "putting"
        /\ upload' = [upload EXCEPT ![t].stage = s]
        /\ bucket' = [bucket EXCEPT ![t] = o]
        /\ avatarUrl' = avatarUrl
        /\ s \in {"updating", "done"}
    BY DEF Put, Advance
  <1>2. /\ upload[t].type # None /\ upload[t].kind # "presign"
        /\ upload[t].file.bytes \in {None, upload[t].type}
    BY <1>1 DEF UInv, Stored
  <1>3. upload[t].type \in ImageType /\ upload[t].file.bytes \in ImageType \cup {None}
    BY <1>2 DEF UInv, UploadsTypeOK, File
  <1>4. o \in Object /\ o # None /\ o.bytes \in {None, o.type}
    BY <1>2, <1>3, UploadsAssumption DEF Object
  <1> HIDE DEF o, s
  <1>5. UploadsTypeOK'
    BY <1>1, <1>4 DEF UInv, UploadsTypeOK, UploadStages
  <1>6. Stored'
    BY <1>1, <1>2, <1>4 DEF UInv, UploadsTypeOK, Stored
  <1>7. AvatarDone'
    BY <1>1 DEF UInv, UploadsTypeOK, AvatarDone
  <1>8. TypeIsTrue'
    BY <1>1, <1>2, <1>4 DEF UInv, UploadsTypeOK, TypeIsTrue
  <1>9. QED
    BY <1>5, <1>6, <1>7, <1>8 DEF UInv

LEMMA SetAvatarStep ==
    ASSUME UInv, NEW t \in Task, SetAvatar(t)
    PROVE  UInv'
  <1>1. /\ upload[t].stage = "updating"
        /\ upload' = [upload EXCEPT ![t].stage = "done"]
        /\ avatarUrl' = [avatarUrl EXCEPT ![upload[t].user] = t]
        /\ bucket' = bucket
    BY DEF SetAvatar, Advance
  <1>2. UploadsTypeOK'
    <2>1. upload \in [Task -> UploadRequests] /\ avatarUrl \in [Uploader -> Task \cup {None}]
      BY DEF UInv, UploadsTypeOK, UploadRequests
    <2>2. [upload[t] EXCEPT !.stage = "done"] \in UploadRequests
      BY <2>1 DEF UploadRequests, UploadStages
    <2>3. upload' \in [Task -> UploadRequests] /\ avatarUrl' \in [Uploader -> Task \cup {None}]
      BY <1>1, <2>1, <2>2
    <2>4. QED
      BY <1>1, <2>3 DEF UInv, UploadsTypeOK, UploadRequests
  <1>3. Stored'
    BY <1>1 DEF UInv, UploadsTypeOK, Stored
  <1>4. AvatarDone'
    BY <1>1 DEF UInv, UploadsTypeOK, AvatarDone
  <1>5. TypeIsTrue'
    BY <1>1 DEF UInv, UploadsTypeOK, TypeIsTrue
  <1>6. QED
    BY <1>2, <1>3, <1>4, <1>5 DEF UInv

LEMMA PutSignedStep ==
    ASSUME UInv, NEW t \in Task, PutSigned(t)
    PROVE  UInv'
  <1>1. PICK bytes \in ImageType \cup {None} :
          /\ upload[t].stage = "signed"
          /\ upload' = [upload EXCEPT ![t].stage = "put"]
          /\ bucket' = [bucket EXCEPT ![t] = [type |-> upload[t].type, bytes |-> bytes]]
          /\ avatarUrl' = avatarUrl
    BY DEF PutSigned, Advance
  <1> DEFINE o == [type |-> upload[t].type, bytes |-> bytes]
  <1>2. upload[t].kind = "presign" /\ upload[t].type \in ImageType
    BY <1>1 DEF UInv, Stored, UploadsTypeOK
  <1>3. o \in Object /\ bucket' = [bucket EXCEPT ![t] = o]
    BY <1>1, <1>2 DEF Object
  <1> HIDE DEF o
  <1>4. UploadsTypeOK'
    BY <1>1, <1>3 DEF UInv, UploadsTypeOK, UploadStages
  <1>5. Stored'
    BY <1>1, <1>2 DEF UInv, UploadsTypeOK, Stored
  <1>6. AvatarDone'
    BY <1>1 DEF UInv, UploadsTypeOK, AvatarDone
  <1>7. TypeIsTrue'
    BY <1>1, <1>2 DEF UInv, UploadsTypeOK, TypeIsTrue
  <1>8. QED
    BY <1>4, <1>5, <1>6, <1>7 DEF UInv

LEMMA UploadFailsStep ==
    ASSUME UInv, NEW t \in Task, UploadFails(t)
    PROVE  UInv'
  <1> DEFINE r == [NoUpload EXCEPT !.stage = "failed"]
  <1>1. /\ r \in UploadRequests
        /\ r.stage = "failed"
    BY DEF NoUpload, NoFile, File, UploadRequests, UploadStages
  <1>2. /\ upload[t].stage \in {"asked", "putting", "updating"}
        /\ upload' = [upload EXCEPT ![t] = r]
        /\ UNCHANGED <<bucket, avatarUrl>>
    BY DEF UploadFails
  <1> HIDE DEF r
  <1>3. UploadsTypeOK'
    BY <1>1, <1>2 DEF UInv, UploadsTypeOK, UploadRequests
  <1>4. Stored'
    BY <1>1, <1>2 DEF UInv, UploadsTypeOK, Stored
  <1>5. AvatarDone'
    BY <1>1, <1>2 DEF UInv, UploadsTypeOK, AvatarDone
  <1>6. TypeIsTrue'
    <2>1. upload[t].stage \in {"putting", "updating"} => upload[t].kind # "presign"
      BY DEF UInv, Stored
    <2>2. upload[t].stage = "asked" => bucket[t] = None
      BY DEF UInv, Stored
    <2>3. QED
      BY <1>1, <1>2, <2>1, <2>2 DEF UInv, UploadsTypeOK, TypeIsTrue
  <1>7. QED
    BY <1>3, <1>4, <1>5, <1>6 DEF UInv

-----------------------------------------------------------------------------
LEMMA UploadsNextInv == UInv /\ [UploadsNext]_uploadVars => UInv'
  <1>1. ASSUME UInv, UNCHANGED uploadVars PROVE UInv'
    BY <1>1 DEF UInv, UploadsTypeOK, Stored, AvatarDone, TypeIsTrue, uploadVars
  <1>2. ASSUME UInv, UploadsNext PROVE UInv'
    BY <1>2, AskUploadStep, ChooseTypeStep, PutStep, SetAvatarStep, PutSignedStep,
       UploadFailsStep DEF UploadsNext
  <1>3. QED
    BY <1>1, <1>2

LEMMA UploadsInvariant == UploadsSpec => []UInv
  BY UploadsInitInv, UploadsNextInv, PTL DEF UploadsSpec

(* A key that is an avatar or was answered to an upload names a stored     *)
(* object, for any number of uploads that fail or finish in any order      *)
(* (users.service setAvatar).                                              *)
THEOREM ShownKeysLoad == UploadsSpec => []KeysLoad
  <1>1. UInv => KeysLoad
    BY DEF UInv, UploadsTypeOK, Stored, AvatarDone, KeysLoad
  <1>2. QED
    BY <1>1, UploadsInvariant, PTL

(* An object that the server has put has the type of its bytes, whenever   *)
(* these are recognised (sniffImageType).                                  *)
THEOREM TypesAreTrue == UploadsSpec => []TypeIsTrue
  BY UploadsInvariant, PTL DEF UInv
=============================================================================
