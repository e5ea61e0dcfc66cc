CONSTANTS
    None = None
    u1 = u1
    u2 = u2
    u3 = u3
    User = {u1, u2, u3}
    Task = {t1, t2, t3}
    Focuses = {"tokens"}
    Emoji = {e1, e2}
    Member = {m1, m2}
    Author = m1
    Invited <- ThreeInvited
    MessageId = {1, 2, 3}
    Reader = {r1, r2}
    Take = 1
    MaxTime = 2
    ann = ann
    Ann = Ann
    bob = bob
    mail = mail
    mail2 = mail2
    Username = {ann, bob}
    Email = {mail, mail2}
    Spelling = {ann, Ann, bob, mail, mail2}
    Lower <- Lowered
    Holder = {r1, r2}
    FcmToken = {f}
    VoipToken = {v}
    Uploader = {r1, r2}
    png = png
    gif = gif
    ImageType = {png, gif}
    Files <- ThreeFiles
SPECIFICATION RowsSpec
PROPERTY
    OnlyDeadPruned
CHECK_DEADLOCK FALSE
