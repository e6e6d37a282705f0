SPECIFICATION FairSpec
PROPERTY PausedWorkerResumes
CONSTANTS
    Emails = {e1}
    Codes = {}
    Cooldown = 2
    Outages = 1
    Answers = {"sent"}
    Restarts = 0
