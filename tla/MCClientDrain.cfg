SPECIFICATION FairSpec
CONSTANTS
    Hashes = {h1, h2}
    Null = Null
    Scenes <- DrainScenes
PROPERTY
    QueueDrains
